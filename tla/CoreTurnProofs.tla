--------------------------- MODULE CoreTurnProofs ---------------------------
(***************************************************************************)
(* For any callers and bounds: the in-progress flag is up only while its   *)
(* turn holds the mutex; a turn's prompt knows what the user's earlier     *)
(* turns changed; and over a store that restores the counter no message    *)
(* row replaces another.                                                   *)
(***************************************************************************)
EXTENDS CoreTurn, FiniteSetTheorems, TLAPS

\* The cached entry, except between a change and its invalidation, and the prompt a turn
\* has just got were built from the files and sessions there are now.
Current ==
    /\ stage \notin {"uploaded", "changed"} =>
          \A e \in cache : e.prompt.files = uploads /\ e.prompt.sessions = sessions
    /\ stage \in {"built", "ready"} => prompt.files = uploads /\ prompt.sessions = sessions

\* What the bounds rest on.
Bounded ==
    /\ stage = "thinking" => calls < MaxIterations
    /\ stage \notin {"thinking", "acting", "changed", "closing", "ending", "cleared"} => calls = 0
    /\ sumPc = "thinking" => summaries < MaxSummaries

\* The messages table has a highest number, be it none.
Topped == \E n \in {0} \cup msgIds : \A k \in msgIds : k <= n

IInv == TypeOK /\ FlagHasTurn /\ Current /\ Bounded /\ Topped

-----------------------------------------------------------------------------
(* A session that is read.                                                 *)

\* The largest of finitely many numbers up to n, n among them, is n.
LEMMA MaxIs ==
    ASSUME NEW S \in SUBSET Nat, NEW n \in S, \A k \in S : k <= n
    PROVE  Max(S) = n
<1>1. n \in S /\ \A y \in S : n >= y
  OBVIOUS
<1>2. Max(S) \in S /\ \A y \in S : Max(S) >= y
  BY <1>1 DEF Max
<1>3. Max(S) \in Nat /\ n \in Nat /\ Max(S) >= n /\ Max(S) <= n
  BY <1>2
<1> QED  BY <1>3

\* One more number among numbers.
LEMMA AddNumber ==
    ASSUME NEW S \in SUBSET Nat, NEW n \in Nat
    PROVE  S \cup {n} \in SUBSET Nat
  BY Zenon

\* Sessions.Get keeps the types, and a restored counter is no less than any number given.
LEMMA GotKnows ==
    ASSUME TypeOK, Topped
    PROVE  /\ Got \in Sessions
           /\ ~CachedReads => \A k \in msgIds : k <= Got.seq
<1>1. row \in Sessions /\ row.seq \in Nat /\ msgIds \in SUBSET Nat
  BY DEF TypeOK, Sessions
<1>2. CASE CachedReads
  BY <1>1, <1>2 DEF Got
<1>3. CASE ~CachedReads
  <2>1. PICK n \in {0} \cup msgIds : \A k \in msgIds : k <= n
    BY DEF Topped
  <2> DEFINE S == msgIds \cup {row.seq}
  <2>2. Max(S) \in Nat /\ \A k \in msgIds : k <= Max(S)
    <3>1. CASE n \in msgIds /\ row.seq <= n
      <4>1. n \in S /\ \A k \in S : k <= n
        BY <1>1, <2>1, <3>1
      <4>2. S \in SUBSET Nat
        BY <1>1, AddNumber
      <4>3. Max(S) = n
        BY <4>1, <4>2, MaxIs
      <4>4. n \in Nat
        BY <4>1, <4>2
      <4> QED  BY <4>1, <4>3, <4>4
    <3>2. CASE ~(n \in msgIds /\ row.seq <= n)
      <4>1. \A k \in msgIds : k <= row.seq
        <5>1. CASE n \in msgIds
          BY <1>1, <2>1, <3>2, <5>1
        <5>2. CASE n = 0
          BY <1>1, <2>1, <5>2
        <5> QED  BY <5>1, <5>2
      <4>2. row.seq \in S /\ \A k \in S : k <= row.seq
        BY <1>1, <4>1
      <4>3. S \in SUBSET Nat
        BY <1>1, AddNumber
      <4>4. Max(S) = row.seq
        BY <4>2, <4>3, MaxIs
      <4> QED  BY <1>1, <4>1, <4>4
    <3> QED  BY <3>1, <3>2
  <2>3. Got = [row EXCEPT !.seq = Max(S)]
    BY <1>3 DEF Got
  <2> QED  BY <1>1, <2>2, <2>3 DEF Sessions
<1> QED  BY <1>2, <1>3

\* One more message leaves a highest number.
LEMMA PutTopped ==
    ASSUME msgIds \subseteq Nat, Topped, NEW id \in Nat, PutMessage(id)
    PROVE  Topped'
<1>1. PICK n \in {0} \cup msgIds : \A k \in msgIds : k <= n
  BY DEF Topped
<1>2. CASE id <= n
  BY <1>1, <1>2 DEF Topped, PutMessage
<1>3. CASE ~(id <= n)
  <2>1. id \in {0} \cup msgIds' /\ \A k \in msgIds' : k <= id
    BY <1>1, <1>3 DEF PutMessage
  <2> QED  BY <2>1 DEF Topped
<1> QED  BY <1>2, <1>3

-----------------------------------------------------------------------------
(* The invariant.                                                          *)

LEMMA InitInv == Init => IInv
<1> SUFFICES ASSUME Init PROVE IInv
  OBVIOUS
<1>1. NewSession \in Sessions /\ NoPrompt \in Prompts
  BY ConstantsAssumption DEF NewSession, Sessions, NoPrompt, Prompts
<1>2. TypeOK
  <2>1. pc \in [Callers -> {"unsent", "queueing", "acked", "waiting", "turn", "done"}]
    BY DEF Init
  <2>2. /\ 0 \in 0..MaxChanges /\ 0 \in 0..MaxSummaries /\ 0 \in 0..MaxIterations
        /\ "none" \in Stages
    BY ConstantsAssumption DEF Stages
  <2>3. cache \subseteq [prompt : Prompts, newer : SUBSET (1..MaxSummaries)]
    BY DEF Init
  <2> QED  BY <1>1, <2>1, <2>2, <2>3 DEF Init, TypeOK
<1>3. FlagHasTurn /\ Current /\ Bounded /\ Topped
  BY ConstantsAssumption DEF Init, FlagHasTurn, Current, Bounded, Topped
<1> QED  BY <1>2, <1>3 DEF IInv

LEMMA NextInv == IInv /\ [Next]_vars => IInv'
<1> SUFFICES ASSUME IInv, [Next]_vars PROVE IInv'
  OBVIOUS
<1> USE ConstantsAssumption DEF IInv, storeVars, guardVars, turnVars, sumVars
<1>1. ASSUME NEW c \in Callers, Look(c) PROVE IInv'
  <2>1. TypeOK' /\ FlagHasTurn'
    BY <1>1 DEF Look, TypeOK, FlagHasTurn, Stages
  <2>2. (Current /\ Bounded /\ Topped)'
    BY <1>1 DEF Look, Current, Bounded, Topped
  <2> QED  BY <2>1, <2>2
<1>2. ASSUME NEW c \in Callers, Queue(c) PROVE IInv'
  <2>1. TypeOK' /\ FlagHasTurn'
    BY <1>2 DEF Queue, TypeOK, FlagHasTurn, Stages
  <2>2. (Current /\ Bounded /\ Topped)'
    BY <1>2 DEF Queue, Current, Bounded, Topped
  <2> QED  BY <2>1, <2>2
<1>3. ASSUME NEW c \in Callers, Lock(c) PROVE IInv'
  <2>1. TypeOK' /\ FlagHasTurn'
    BY <1>3 DEF Lock, TypeOK, FlagHasTurn, Stages
  <2>2. (Current /\ Bounded /\ Topped)'
    BY <1>3 DEF Lock, FlagHasTurn, Current, Bounded, Topped
  <2> QED  BY <2>1, <2>2
<1>4. ASSUME NEW of \in {"core", "worker"}, Summarize(of) PROVE IInv'
  <2>1. TypeOK'
    BY <1>4, GotKnows DEF Summarize, TypeOK
  <2>2. (FlagHasTurn /\ Current /\ Bounded /\ Topped)'
    BY <1>4 DEF Summarize, FlagHasTurn, Current, Bounded, Topped
  <2> QED  BY <2>1, <2>2
<1>5. ASSUME Abandon PROVE IInv'
  <2>1. TypeOK'
    BY <1>5 DEF Abandon, TypeOK, Bounded, Stages
  <2>2. FlagHasTurn'
    BY <1>5 DEF Abandon, TypeOK, FlagHasTurn
  <2>3. Current' /\ Bounded'
    BY <1>5 DEF Abandon, TypeOK, Current, Bounded
  <2>4. Topped'
    BY <1>5 DEF Abandon, Topped
  <2> QED  BY <2>1, <2>2, <2>3, <2>4
<1>6. ASSUME Begin PROVE IInv'
  <2>1. TypeOK'
    BY <1>6 DEF Begin, TypeOK, Bounded, Stages
  <2>2. FlagHasTurn'
    BY <1>6 DEF Begin, TypeOK, FlagHasTurn
  <2>3. Current' /\ Bounded'
    BY <1>6 DEF Begin, TypeOK, Current, Bounded
  <2>4. Topped'
    BY <1>6 DEF Begin, Topped
  <2> QED  BY <2>1, <2>2, <2>3, <2>4
<1>7. ASSUME Refuse PROVE IInv'
  <2>1. TypeOK'
    BY <1>7 DEF Refuse, TypeOK, Bounded, Stages
  <2>2. FlagHasTurn'
    BY <1>7 DEF Refuse, TypeOK, FlagHasTurn
  <2>3. Current' /\ Bounded'
    BY <1>7 DEF Refuse, TypeOK, Current, Bounded
  <2>4. Topped'
    BY <1>7 DEF Refuse, Topped
  <2> QED  BY <2>1, <2>2, <2>3, <2>4
<1>8. ASSUME Load PROVE IInv'
  <2>1. TypeOK'
    BY <1>8, GotKnows DEF Load, TypeOK, Bounded, Stages, Sessions
  <2>2. FlagHasTurn'
    BY <1>8 DEF Load, TypeOK, FlagHasTurn
  <2>3. Current' /\ Bounded'
    BY <1>8 DEF Load, TypeOK, Current, Bounded
  <2>4. Topped'
    BY <1>8 DEF Load, Topped
  <2> QED  BY <2>1, <2>2, <2>3, <2>4
<1>9. ASSUME Upload PROVE IInv'
  <2>1. TypeOK'
    BY <1>9, GotKnows DEF Upload, TypeOK, Bounded, Stages, Sessions
  <2>2. FlagHasTurn'
    BY <1>9 DEF Upload, TypeOK, FlagHasTurn
  <2>3. Current' /\ Bounded'
    BY <1>9 DEF Upload, TypeOK, Current, Bounded
  <2>4. Topped'
    BY <1>9 DEF Upload, Topped
  <2> QED  BY <2>1, <2>2, <2>3, <2>4
<1>10. ASSUME UploadFails PROVE IInv'
  <2>1. TypeOK'
    BY <1>10, GotKnows DEF UploadFails, TypeOK, Bounded, Stages, Sessions
  <2>2. FlagHasTurn'
    BY <1>10 DEF UploadFails, TypeOK, FlagHasTurn
  <2>3. Current' /\ Bounded'
    BY <1>10 DEF UploadFails, TypeOK, Current, Bounded
  <2>4. Topped'
    BY <1>10 DEF UploadFails, Topped
  <2> QED  BY <2>1, <2>2, <2>3, <2>4
<1>11. ASSUME Drop PROVE IInv'
  <2>1. TypeOK'
    BY <1>11 DEF Drop, TypeOK, Bounded, Stages
  <2>2. FlagHasTurn'
    BY <1>11 DEF Drop, TypeOK, FlagHasTurn
  <2>3. Current' /\ Bounded'
    BY <1>11 DEF Drop, TypeOK, Current, Bounded
  <2>4. Topped'
    BY <1>11 DEF Drop, Topped
  <2> QED  BY <2>1, <2>2, <2>3, <2>4
<1>12. ASSUME NoteImage PROVE IInv'
  <2>1. TypeOK'
    BY <1>12 DEF NoteImage, TypeOK, Bounded, Stages, PutMessage, Sessions
  <2>2. FlagHasTurn'
    BY <1>12 DEF NoteImage, TypeOK, FlagHasTurn
  <2>3. Current' /\ Bounded'
    BY <1>12 DEF NoteImage, TypeOK, Current, Bounded
  <2>4. copy.seq + 1 \in Nat /\ PutMessage(copy.seq + 1) /\ msgIds \subseteq Nat
    BY <1>12 DEF NoteImage, TypeOK, Sessions
  <2>5. Topped'
    BY <2>4, PutTopped
  <2> QED  BY <2>1, <2>2, <2>3, <2>5
<1>13. ASSUME Hit PROVE IInv'
  <2>1. TypeOK'
    BY <1>13 DEF Hit, TypeOK, Bounded, Stages
  <2>2. FlagHasTurn'
    BY <1>13 DEF Hit, TypeOK, FlagHasTurn
  <2>3. Current' /\ Bounded'
    BY <1>13 DEF Hit, TypeOK, Current, Bounded
  <2>4. Topped'
    BY <1>13 DEF Hit, Topped
  <2> QED  BY <2>1, <2>2, <2>3, <2>4
<1>14. ASSUME Build PROVE IInv'
  <2>1. TypeOK'
    BY <1>14 DEF Build, TypeOK, Bounded, Stages, Sessions, Prompts
  <2>2. FlagHasTurn'
    BY <1>14 DEF Build, TypeOK, FlagHasTurn
  <2>3. Current' /\ Bounded'
    BY <1>14 DEF Build, TypeOK, Current, Bounded
  <2>4. Topped'
    BY <1>14 DEF Build, Topped
  <2> QED  BY <2>1, <2>2, <2>3, <2>4
<1>15. ASSUME Store PROVE IInv'
  <2>1. TypeOK'
    BY <1>15 DEF Store, TypeOK, Bounded, Stages, Sessions
  <2>2. FlagHasTurn'
    BY <1>15 DEF Store, TypeOK, FlagHasTurn
  <2>3. Current' /\ Bounded'
    BY <1>15 DEF Store, TypeOK, Current, Bounded
  <2>4. Topped'
    BY <1>15 DEF Store, Topped
  <2> QED  BY <2>1, <2>2, <2>3, <2>4
<1>16. ASSUME Save PROVE IInv'
  <2>1. TypeOK'
    BY <1>16 DEF Save, TypeOK, Bounded, Stages, PutMessage, Sessions
  <2>2. FlagHasTurn'
    BY <1>16 DEF Save, TypeOK, FlagHasTurn
  <2>3. Current' /\ Bounded'
    BY <1>16 DEF Save, TypeOK, Current, Bounded
  <2>4. copy.seq + 1 \in Nat /\ PutMessage(copy.seq + 1) /\ msgIds \subseteq Nat
    BY <1>16 DEF Save, TypeOK, Sessions
  <2>5. Topped'
    BY <2>4, PutTopped
  <2> QED  BY <2>1, <2>2, <2>3, <2>5
<1>17. ASSUME SaveModel PROVE IInv'
  <2>1. TypeOK'
    BY <1>17 DEF SaveModel, TypeOK, Bounded, Stages
  <2>2. FlagHasTurn'
    BY <1>17 DEF SaveModel, TypeOK, FlagHasTurn
  <2>3. Current' /\ Bounded'
    BY <1>17 DEF SaveModel, TypeOK, Current, Bounded
  <2>4. Topped'
    BY <1>17 DEF SaveModel, Topped
  <2> QED  BY <2>1, <2>2, <2>3, <2>4
<1>18. ASSUME NoAnswer PROVE IInv'
  <2>1. TypeOK'
    BY <1>18 DEF NoAnswer, TypeOK, Bounded, Stages
  <2>2. FlagHasTurn'
    BY <1>18 DEF NoAnswer, TypeOK, FlagHasTurn
  <2>3. Current' /\ Bounded'
    BY <1>18 DEF NoAnswer, TypeOK, Current, Bounded
  <2>4. Topped'
    BY <1>18 DEF NoAnswer, Topped
  <2> QED  BY <2>1, <2>2, <2>3, <2>4
<1>19. ASSUME Think PROVE IInv'
  <2>1. TypeOK'
    <3>1. Got.seq + 1 \in Nat /\ msgIds' = msgIds \cup {Got.seq + 1} /\ msgsPut' = msgsPut + 1
      BY <1>19, GotKnows DEF Think, PutMessage, Sessions
    <3>2. calls' = calls + 1 /\ calls' \in 0..MaxIterations
      BY <1>19 DEF Think, TypeOK, Bounded
    <3>3. stage' \in Stages
      BY <1>19 DEF Think, Stages
    <3>4. msgIds' \subseteq Nat /\ msgsPut' \in Nat
      <4>1. msgIds \in SUBSET Nat /\ msgsPut \in Nat
        BY DEF TypeOK
      <4>2. msgIds \cup {Got.seq + 1} \in SUBSET Nat
        BY <3>1, <4>1, AddNumber
      <4>3. msgsPut' \in Nat
        BY <3>1, <4>1
      <4> QED  BY <3>1, <4>2, <4>3, Zenon
    <3> QED  BY <1>19, <3>2, <3>3, <3>4 DEF Think, TypeOK
  <2>2. FlagHasTurn'
    BY <1>19 DEF Think, TypeOK, FlagHasTurn
  <2>3. Current' /\ Bounded'
    BY <1>19 DEF Think, TypeOK, Current, Bounded
  <2>4. Got.seq + 1 \in Nat /\ PutMessage(Got.seq + 1) /\ msgIds \subseteq Nat
    BY <1>19, GotKnows DEF Think, TypeOK, Sessions
  <2>5. Topped'
    BY <2>4, PutTopped
  <2> QED  BY <2>1, <2>2, <2>3, <2>5
<1>20. ASSUME ChangeSession PROVE IInv'
  <2>1. TypeOK'
    BY <1>20 DEF ChangeSession, TypeOK, Bounded, Stages
  <2>2. FlagHasTurn'
    BY <1>20 DEF ChangeSession, TypeOK, FlagHasTurn
  <2>3. Current' /\ Bounded'
    BY <1>20 DEF ChangeSession, TypeOK, Current, Bounded
  <2>4. Topped'
    BY <1>20 DEF ChangeSession, Topped
  <2> QED  BY <2>1, <2>2, <2>3, <2>4
<1>21. ASSUME Dispatched PROVE IInv'
  <2>1. TypeOK'
    BY <1>21 DEF Dispatched, TypeOK, Bounded, Stages
  <2>2. FlagHasTurn'
    BY <1>21 DEF Dispatched, TypeOK, FlagHasTurn
  <2>3. Current' /\ Bounded'
    BY <1>21 DEF Dispatched, TypeOK, Current, Bounded
  <2>4. Topped'
    BY <1>21 DEF Dispatched, Topped
  <2> QED  BY <2>1, <2>2, <2>3, <2>4
<1>22. ASSUME Again PROVE IInv'
  <2>1. TypeOK'
    BY <1>22 DEF Again, TypeOK, Bounded, Stages
  <2>2. FlagHasTurn'
    BY <1>22 DEF Again, TypeOK, FlagHasTurn
  <2>3. Current' /\ Bounded'
    BY <1>22 DEF Again, TypeOK, Current, Bounded
  <2>4. Topped'
    BY <1>22 DEF Again, Topped
  <2> QED  BY <2>1, <2>2, <2>3, <2>4
<1>23. ASSUME Close PROVE IInv'
  <2>1. TypeOK'
    BY <1>23 DEF Close, TypeOK, Bounded, Stages
  <2>2. FlagHasTurn'
    BY <1>23 DEF Close, TypeOK, FlagHasTurn
  <2>3. Current' /\ Bounded'
    BY <1>23 DEF Close, TypeOK, Current, Bounded
  <2>4. Topped'
    BY <1>23 DEF Close, Topped
  <2> QED  BY <2>1, <2>2, <2>3, <2>4
<1>24. ASSUME NotSeen PROVE IInv'
  <2>1. TypeOK'
    BY <1>24 DEF NotSeen, TypeOK, Bounded, Stages
  <2>2. FlagHasTurn'
    BY <1>24 DEF NotSeen, TypeOK, FlagHasTurn
  <2>3. Current' /\ Bounded'
    BY <1>24 DEF NotSeen, TypeOK, Current, Bounded
  <2>4. Topped'
    BY <1>24 DEF NotSeen, Topped
  <2> QED  BY <2>1, <2>2, <2>3, <2>4
<1>25. ASSUME Seen PROVE IInv'
  <2>1. TypeOK'
    BY <1>25 DEF Seen, TypeOK, Bounded, Stages
  <2>2. FlagHasTurn'
    BY <1>25 DEF Seen, TypeOK, FlagHasTurn
  <2>3. Current' /\ Bounded'
    BY <1>25 DEF Seen, TypeOK, Current, Bounded
  <2>4. Topped'
    BY <1>25 DEF Seen, Topped
  <2> QED  BY <2>1, <2>2, <2>3, <2>4
<1>26. ASSUME NoteReply PROVE IInv'
  <2>1. TypeOK'
    <3>1. copy.seq + 1 \in Nat /\ msgIds' = msgIds \cup {copy.seq + 1} /\ msgsPut' = msgsPut + 1
      BY <1>26 DEF NoteReply, TypeOK, PutMessage, Sessions
    <3>2. msgIds' \subseteq Nat /\ msgsPut' \in Nat /\ stage' \in Stages
      <4>1. msgIds \in SUBSET Nat /\ msgsPut \in Nat
        BY DEF TypeOK
      <4>2. msgIds \cup {copy.seq + 1} \in SUBSET Nat
        BY <3>1, <4>1, AddNumber
      <4>3. msgsPut' \in Nat /\ stage' \in Stages
        BY <1>26, <3>1, <4>1 DEF NoteReply, Stages
      <4> QED  BY <3>1, <4>2, <4>3, Zenon
    <3> QED  BY <1>26, <3>2 DEF NoteReply, TypeOK
  <2>2. FlagHasTurn'
    BY <1>26 DEF NoteReply, TypeOK, FlagHasTurn
  <2>3. Current' /\ Bounded'
    BY <1>26 DEF NoteReply, TypeOK, Current, Bounded
  <2>4. copy.seq + 1 \in Nat /\ PutMessage(copy.seq + 1) /\ msgIds \subseteq Nat
    BY <1>26 DEF NoteReply, TypeOK, Sessions
  <2>5. Topped'
    BY <2>4, PutTopped
  <2> QED  BY <2>1, <2>2, <2>3, <2>5
<1>27. ASSUME Clear PROVE IInv'
  <2>1. TypeOK'
    BY <1>27 DEF Clear, TypeOK, Bounded, Stages
  <2>2. FlagHasTurn'
    BY <1>27 DEF Clear, TypeOK, FlagHasTurn
  <2>3. Current' /\ Bounded'
    BY <1>27 DEF Clear, TypeOK, Current, Bounded
  <2>4. Topped'
    BY <1>27 DEF Clear, Topped
  <2> QED  BY <2>1, <2>2, <2>3, <2>4
<1>28. ASSUME Unlock PROVE IInv'
  <2>1. TypeOK'
    <3>1. copy' \in Sessions /\ prompt' \in Prompts /\ calls' \in 0..MaxIterations
      BY <1>28 DEF Unlock, Sessions, Prompts, NewSession, NoPrompt
    <3> QED  BY <1>28, <3>1 DEF Unlock, TypeOK, Stages
  <2>2. FlagHasTurn'
    BY <1>28 DEF Unlock, TypeOK, FlagHasTurn
  <2>3. Current' /\ Bounded'
    BY <1>28 DEF Unlock, TypeOK, Current, Bounded
  <2>4. Topped'
    BY <1>28 DEF Unlock, Topped
  <2> QED  BY <2>1, <2>2, <2>3, <2>4
<1>29. ASSUME GiveUp PROVE IInv'
  <2>1. TypeOK'
    BY <1>29 DEF GiveUp, TypeOK, Bounded, Stages
  <2>2. FlagHasTurn'
    BY <1>29 DEF GiveUp, TypeOK, FlagHasTurn
  <2>3. Current' /\ Bounded'
    BY <1>29 DEF GiveUp, TypeOK, Current, Bounded
  <2>4. Topped'
    BY <1>29 DEF GiveUp, Topped
  <2> QED  BY <2>1, <2>2, <2>3, <2>4
<1>30. ASSUME Stamp PROVE IInv'
  <2>1. TypeOK'
    BY <1>30 DEF Stamp, TypeOK, Bounded, Stages, Sessions, Prompts
  <2>2. FlagHasTurn'
    BY <1>30 DEF Stamp, TypeOK, FlagHasTurn
  <2>3. Current' /\ Bounded'
    BY <1>30 DEF Stamp, TypeOK, Current, Bounded
  <2>4. Topped'
    BY <1>30 DEF Stamp, Topped
  <2> QED  BY <2>1, <2>2, <2>3, <2>4
<1>31. ASSUME PutSummary PROVE IInv'
  <2>1. TypeOK'
    BY <1>31 DEF PutSummary, TypeOK, Bounded, Stages, Sessions
  <2>2. FlagHasTurn'
    BY <1>31 DEF PutSummary, TypeOK, FlagHasTurn
  <2>3. Current' /\ Bounded'
    BY <1>31 DEF PutSummary, TypeOK, Current, Bounded
  <2>4. Topped'
    BY <1>31 DEF PutSummary, Topped
  <2> QED  BY <2>1, <2>2, <2>3, <2>4
<1>32. ASSUME Announce PROVE IInv'
  <2>1. TypeOK'
    BY <1>32 DEF Announce, TypeOK, Bounded, Stages, Sessions
  <2>2. FlagHasTurn'
    BY <1>32 DEF Announce, TypeOK, FlagHasTurn
  <2>3. Current' /\ Bounded'
    BY <1>32 DEF Announce, TypeOK, Current, Bounded
  <2>4. Topped'
    BY <1>32 DEF Announce, Topped
  <2> QED  BY <2>1, <2>2, <2>3, <2>4
<1>33. ASSUME Expire PROVE IInv'
  <2>1. TypeOK'
    BY <1>33 DEF Expire, TypeOK, Bounded, Stages
  <2>2. FlagHasTurn'
    BY <1>33 DEF Expire, TypeOK, FlagHasTurn
  <2>3. Current' /\ Bounded'
    BY <1>33 DEF Expire, TypeOK, Current, Bounded
  <2>4. Topped'
    BY <1>33 DEF Expire, Topped
  <2> QED  BY <2>1, <2>2, <2>3, <2>4
<1>34. CASE UNCHANGED vars
  BY <1>34 DEF vars, TypeOK, FlagHasTurn, Current, Bounded, Topped
<1> QED
  BY <1>1, <1>2, <1>3, <1>4, <1>5, <1>6, <1>7, <1>8, <1>9, <1>10, <1>11, <1>12, <1>13, <1>14, <1>15,
     <1>16, <1>17, <1>18, <1>19, <1>20, <1>21, <1>22, <1>23, <1>24, <1>25, <1>26, <1>27, <1>28,
     <1>29, <1>30, <1>31, <1>32, <1>33, <1>34
     DEF Next, Turn, Summarizer

LEMMA SpecInv == Spec => []IInv
  BY InitInv, NextInv, PTL DEF Spec

\* Types and bounds.
THEOREM TypeCorrect == Spec => []TypeOK
<1>1. IInv => TypeOK
  BY DEF IInv
<1> QED  BY SpecInv, <1>1, PTL

\* Nobody is told that a message was queued behind a turn that has ended: the flag is up
\* exactly while a turn that holds the mutex has not come to its deferred calls.
THEOREM FlagIsTrue == Spec => []FlagHasTurn
<1>1. IInv => FlagHasTurn
  BY DEF IInv
<1> QED  BY SpecInv, <1>1, PTL

\* However the turns, the summarizer and the TTL interleave, a turn is not built on files
\* or sessions that an earlier turn of the user, or its own upload, has changed.
THEOREM ChangesAreKnown == Spec => []OwnChangesKnown
<1>1. IInv => OwnChangesKnown
  BY DEF IInv, Current, OwnChangesKnown
<1> QED  BY SpecInv, <1>1, PTL

-----------------------------------------------------------------------------
(* Message numbers, over a store that restores the counter.                *)

\* No number is given twice, and the copy of a turn that is still to give one from it is
\* not behind.
Numbered ==
    /\ IsFiniteSet(msgIds) /\ Cardinality(msgIds) = msgsPut
    /\ stage \in {"loaded", "uploaded", "noting", "asking", "built", "ready", "seen"} =>
          \A k \in msgIds : k <= copy.seq

\* A number above all others is a new one.
LEMMA PutNew ==
    ASSUME msgIds \subseteq Nat, NEW top \in Nat, \A k \in msgIds : k <= top,
           PutMessage(top + 1), msgsPut \in Nat,
           IsFiniteSet(msgIds), Cardinality(msgIds) = msgsPut
    PROVE  /\ IsFiniteSet(msgIds') /\ Cardinality(msgIds') = msgsPut'
           /\ \A k \in msgIds' : k <= top + 1
<1>1. top + 1 \notin msgIds
  OBVIOUS
<1>2. msgIds' = msgIds \cup {top + 1} /\ msgsPut' = msgsPut + 1
  BY DEF PutMessage
<1>3. IsFiniteSet(msgIds') /\ Cardinality(msgIds') = Cardinality(msgIds) + 1
  BY <1>1, <1>2, FS_AddElement
<1> QED  BY <1>2, <1>3

LEMMA NumberedNext ==
    ASSUME ~CachedReads, IInv, Numbered, [Next]_vars
    PROVE  Numbered'
<1> USE DEF storeVars, guardVars, turnVars, sumVars
<1>0. msgIds \subseteq Nat /\ copy.seq \in Nat /\ msgsPut \in Nat
      /\ Got.seq \in Nat /\ \A k \in msgIds : k <= Got.seq
  BY GotKnows DEF IInv, TypeOK, Sessions
<1>1. CASE NoteImage
  BY <1>0, <1>1, PutNew DEF NoteImage, Numbered, IInv, TypeOK, Sessions
<1>2. CASE Save
  BY <1>0, <1>2, PutNew DEF Save, Numbered
<1>3. CASE Think
  BY <1>0, <1>3, PutNew DEF Think, Numbered
<1>4. CASE NoteReply
  BY <1>0, <1>4, PutNew DEF NoteReply, Numbered
<1>5. CASE Load
  BY <1>0, <1>5 DEF Load, Numbered
<1>6. CASE Unlock \/ Begin \/ Abandon \/ Refuse \/ Clear \/ (\E c \in Callers : Look(c) \/ Queue(c) \/ Lock(c))
  BY <1>6 DEF Unlock, Begin, Abandon, Refuse, Clear, Look, Queue, Lock, Numbered
<1>7. CASE Upload \/ UploadFails \/ Drop \/ Hit \/ Build \/ Store
  BY <1>7 DEF Upload, UploadFails, Drop, Hit, Build, Store, Numbered
<1>8. CASE SaveModel \/ NoAnswer \/ ChangeSession \/ Dispatched \/ Again \/ Close \/ NotSeen \/ Seen
  BY <1>8 DEF SaveModel, NoAnswer, ChangeSession, Dispatched, Again, Close, NotSeen, Seen, Numbered
<1>9. CASE Summarizer \/ Expire \/ UNCHANGED vars
  BY <1>9 DEF Summarizer, Summarize, GiveUp, Stamp, PutSummary, Announce, Expire, vars, Numbered
<1> QED
  BY <1>1, <1>2, <1>3, <1>4, <1>5, <1>6, <1>7, <1>8, <1>9 DEF Next, Turn

\* Over a store that restores the counter (SQLiteStore, MongoDBStore) no message row of the
\* Core replaces another, though the numbers come from two copies of the session.
THEOREM NumbersAreUnique ==
    ASSUME ~CachedReads
    PROVE  Spec => []MessageIdsUnique
<1>1. Init => Numbered
  BY FS_EmptySet DEF Init, Numbered
<1>2. IInv /\ Numbered /\ [Next]_vars => Numbered'
  BY NumberedNext
<1>3. Numbered => MessageIdsUnique
  BY DEF Numbered, MessageIdsUnique
<1> QED  BY SpecInv, <1>1, <1>2, <1>3, PTL DEF Spec
=============================================================================
