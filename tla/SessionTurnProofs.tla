------------------------- MODULE SessionTurnProofs -------------------------
(***************************************************************************)
(* The progress guard of SessionTurn, for every number of callers and      *)
(* every queue: what TryQueue accepted is handled once and in that order,  *)
(* whatever the turns in between come to.                                  *)
(***************************************************************************)
EXTENDS SessionTurn, Integers, TLAPS

Types ==
    /\ queue \in Seq(Messages) /\ drained \in Seq(Messages)
    /\ begun \in Seq(Messages) /\ acked \in Seq(Messages)
    /\ turn \in Messages \cup {NoMessage} /\ body \in Messages \cup {NoMessage}
    /\ pc \in [Messages -> {"unsent", "queueing", "waiting", "turn", "acked", "answered", "failed"}]
    /\ stage \in Stages

BeforeAppend == {"clean", "cleaning", "append", "appending"}

\* One caller has the mutex, and a turn works on its own message before it drains.
Turns ==
    /\ stage = "none" <=> turn = NoMessage
    /\ stage # "none" => body \in Messages
    /\ \A m \in Messages : pc[m] = "turn" <=> m = turn
    /\ stage \in {"clean", "cleaning"} => body = turn
    /\ drained # <<>> => stage = "next" \/ (body # turn /\ stage \notin {"none", "drain", "leave"})

IsIn(m, s) == \E i \in 1..Len(s) : s[i] = m

\* Where a message is says whether it was queued or begun, once.
Places ==
    /\ \A i, j \in 1..Len(begun) : begun[i] = begun[j] => i = j
    /\ \A i, j \in 1..Len(acked) : acked[i] = acked[j] => i = j
    /\ \A i \in 1..Len(begun) : pc[begun[i]] \in {"turn", "acked", "answered", "failed"}
    /\ \A i \in 1..Len(acked) : pc[acked[i]] = "acked"
    /\ body = turn /\ stage \in BeforeAppend => ~IsIn(turn, begun)

\* What was queued is a row: the messages begun, the one being handled, the rest of those
\* drained with it, and the queue.
Handling == body # turn /\ stage \in BeforeAppend
Old  == Len(acked) - Len(queue)                      \* how many left the queue
Gone == Old - Len(drained)                           \* ... and the drained slice too
Past == Gone - IF Handling THEN 1 ELSE 0             \* ... and are begun

InRow ==
    /\ Past >= 0
    /\ \A i \in 1..Len(queue) : queue[i] = acked[Old + i]
    /\ \A i \in 1..Len(drained) : drained[i] = acked[Gone + i]
    /\ Handling => acked[Gone] = body
    /\ \A i \in 1..Len(acked) : IsIn(acked[i], begun) <=> i <= Past
    /\ \A i, j \in 1..Len(acked), a, b \in 1..Len(begun) :
          i < j /\ begun[a] = acked[i] /\ begun[b] = acked[j] => a < b

IInv == Types /\ Turns /\ Places /\ InRow

-----------------------------------------------------------------------------
\* Lengths are numbers, and what is in the lists is a message.
LEMMA Typed ==
    ASSUME Types
    PROVE  /\ Len(queue) \in Nat /\ Len(drained) \in Nat /\ Len(begun) \in Nat /\ Len(acked) \in Nat
           /\ \A i \in 1..Len(queue) : queue[i] \in Messages
           /\ \A i \in 1..Len(drained) : drained[i] \in Messages
           /\ \A i \in 1..Len(begun) : begun[i] \in Messages
           /\ \A i \in 1..Len(acked) : acked[i] \in Messages
           /\ Old \in Int /\ Gone \in Int /\ Past \in Int
           /\ Old = Len(acked) - Len(queue) /\ Gone = Old - Len(drained)
           /\ Past = IF Handling THEN Gone - 1 ELSE Gone
<1>1. /\ Len(queue) \in Nat /\ Len(drained) \in Nat /\ Len(begun) \in Nat /\ Len(acked) \in Nat
      /\ \A i \in 1..Len(queue) : queue[i] \in Messages
      /\ \A i \in 1..Len(drained) : drained[i] \in Messages
      /\ \A i \in 1..Len(begun) : begun[i] \in Messages
      /\ \A i \in 1..Len(acked) : acked[i] \in Messages
  BY DEF Types
<1>2. Old \in Int /\ Old = Len(acked) - Len(queue)
  BY <1>1 DEF Old
<1>3. Gone \in Int /\ Gone = Old - Len(drained)
  BY <1>1, <1>2 DEF Gone
<1>4. Past \in Int /\ Past = IF Handling THEN Gone - 1 ELSE Gone
  BY <1>3 DEF Past
<1> QED  BY <1>1, <1>2, <1>3, <1>4

\* The places in the row lie inside it.
LEMMA Bounds ==
    ASSUME Types, InRow
    PROVE  /\ Past \in 0..Len(acked) /\ Gone \in 0..Len(acked) /\ Old \in 0..Len(acked)
           /\ Gone + Len(drained) = Old /\ Old + Len(queue) = Len(acked)
           /\ Handling => Gone \in 1..Len(acked) /\ Past = Gone - 1
           /\ ~Handling => Past = Gone
  BY Typed DEF InRow

\* A message that was not in a list is there once after Append.
LEMMA AppendDistinct ==
    ASSUME NEW s \in Seq(Messages), NEW m \in Messages, NEW t, t = Append(s, m),
           \A i, j \in 1..Len(s) : s[i] = s[j] => i = j, \A i \in 1..Len(s) : s[i] # m
    PROVE  \A i, j \in 1..Len(t) : t[i] = t[j] => i = j
<1>1. /\ Len(s) \in Nat /\ Len(t) = Len(s) + 1 /\ t[Len(s) + 1] = m
      /\ \A i \in 1..Len(s) : t[i] = s[i]
  OBVIOUS
<1> SUFFICES ASSUME NEW i \in 1..Len(t), NEW j \in 1..Len(t), t[i] = t[j] PROVE i = j
  OBVIOUS
<1>2. CASE i \in 1..Len(s) /\ j \in 1..Len(s)
  BY <1>1, <1>2
<1>3. CASE i = Len(s) + 1 \/ j = Len(s) + 1
  BY <1>1, <1>3
<1> QED
  BY <1>1, <1>2, <1>3

LEMMA InitHolds == Init => IInv
<1> SUFFICES ASSUME Init PROVE IInv
  OBVIOUS
<1> USE ConstantsAssumption DEF Init
<1>1. Types
  BY DEF Types, Stages
<1>2. Turns
  BY DEF Turns
<1>3. Places
  BY DEF Places, BeforeAppend
<1>4. InRow
  BY DEF InRow, Past, Gone, Old, Handling, IsIn, BeforeAppend
<1> QED
  BY <1>1, <1>2, <1>3, <1>4 DEF IInv

\* A step that leaves the lists alone and moves the turn's stage, not past AppendUser.
LEMMA StageMoves ==
    ASSUME IInv, UNCHANGED <<queue, drained, begun, acked, turn, body, pc>>, stage' \in Stages,
           stage # "none" /\ stage' # "none",
           stage' \in BeforeAppend <=> stage \in BeforeAppend,
           stage' \in {"clean", "cleaning"} => stage \in {"clean", "cleaning"},
           stage = "next" => stage' = "next",
           stage' \in {"drain", "leave"} => body = turn
    PROVE  IInv'
<1> USE DEF IInv
<1>1. Types'
  BY DEF Types
<1>2. Turns'
  BY DEF Turns
<1>3. Places'
  BY DEF Places, IsIn
<1>4. InRow'
  BY DEF InRow, Past, Gone, Old, Handling, IsIn
<1> QED
  BY <1>1, <1>2, <1>3, <1>4

\* A step that changes nothing of a turn, of the lists and of the callers.
LEMMA OthersMove ==
    ASSUME IInv, UNCHANGED <<queue, drained, begun, acked, turn, body, pc, stage>>
    PROVE  IInv'
  BY DEF IInv, Types, Turns, Places, InRow, Past, Gone, Old, Handling, IsIn

\* A caller that is neither in a turn nor queued goes on.
LEMMA CallerMoves ==
    ASSUME IInv, UNCHANGED <<queue, drained, begun, acked, turn, body, stage>>,
           NEW m \in Messages, NEW place \in {"unsent", "queueing", "waiting", "acked", "answered", "failed"},
           pc' = [pc EXCEPT ![m] = place], pc[m] \in {"unsent", "queueing", "waiting"}
    PROVE  IInv'
<1>0. Types /\ Turns /\ Places /\ InRow
  BY DEF IInv
<1>1. \A q \in Messages : pc'[q] = IF q = m THEN place ELSE pc[q]
  BY <1>0 DEF Types
<1>2. Types'
  BY <1>0 DEF Types
<1>3. Turns'
  BY <1>0, <1>1 DEF Turns
<1>4. Places'
  <2>1. \A i \in 1..Len(begun) : begun[i] # m /\ begun[i] \in Messages
    BY <1>0, Typed DEF Places
  <2>2. \A i \in 1..Len(acked) : pc'[acked[i]] = "acked"
    BY <1>0, <1>1, Typed DEF Places
  <2>3. \A i \in 1..Len(begun) : pc'[begun[i]] = pc[begun[i]]
    BY <1>1, <2>1
  <2> QED
    BY <1>0, <2>2, <2>3 DEF Places
<1>5. InRow'
  <2>1. Handling' = Handling /\ Old' = Old /\ Gone' = Gone /\ Past' = Past
    BY DEF Handling, Old, Gone, Past
  <2> QED
    BY <1>0, <2>1 DEF InRow, IsIn
<1> QED
  BY <1>2, <1>3, <1>4, <1>5 DEF IInv

LEMMA EnqueueKeeps == ASSUME IInv, NEW m \in Messages, Enqueue(m) PROVE IInv'
<1>0. Types /\ Turns /\ Places /\ InRow
  BY DEF IInv
<1>1. /\ pc[m] = "queueing" /\ pc' = [pc EXCEPT ![m] = "acked"]
      /\ UNCHANGED <<drained, begun, turn, body, stage>>
  BY DEF Enqueue, turnVars
<1>2. CASE ~(Len(queue) < QueueCap)
  <2>1. UNCHANGED <<queue, acked>>
    BY <1>2 DEF Enqueue
  <2> QED
    BY <1>1, <2>1, CallerMoves
<1>3. CASE Len(queue) < QueueCap
  <2>1. queue' = Append(queue, m) /\ acked' = Append(acked, m)
    BY <1>3 DEF Enqueue
  <2>2. \A q \in Messages : pc'[q] = IF q = m THEN "acked" ELSE pc[q]
    BY <1>0, <1>1 DEF Types
  <2>3. /\ Len(queue') = Len(queue) + 1 /\ Len(acked') = Len(acked) + 1
        /\ \A i \in 1..Len(queue) : queue'[i] = queue[i]
        /\ \A i \in 1..Len(acked) : acked'[i] = acked[i]
        /\ queue'[Len(queue) + 1] = m /\ acked'[Len(acked) + 1] = m
    BY <1>0, <2>1 DEF Types
  <2>0. /\ Len(queue) \in Nat /\ Len(acked) \in Nat
        /\ Len(queue') = Len(queue) + 1 /\ Len(acked') = Len(acked) + 1
    BY <1>0, <2>3, Typed
  <2>4. Old' = Old /\ Gone' = Gone /\ Past' = Past /\ Handling' = Handling
    <3>1. Handling' = Handling
      BY <1>1 DEF Handling
    <3>2. Old' = Old
      BY <1>0, <2>3, Typed DEF Old
    <3> QED
      BY <1>1, <3>1, <3>2 DEF Gone, Past
  <2>5. /\ \A i \in 1..Len(begun) : begun[i] # m /\ begun[i] \in Messages
        /\ \A i \in 1..Len(acked) : acked[i] # m /\ acked[i] \in Messages
    <3>1. \A i \in 1..Len(begun) : pc[begun[i]] # "queueing"
      BY <1>0 DEF Places
    <3>2. \A i \in 1..Len(acked) : pc[acked[i]] # "queueing"
      BY <1>0 DEF Places
    <3> QED
      BY <1>0, <1>1, <3>1, <3>2, Typed
  <2>6. Types'
    BY <1>0, <1>1, <2>1 DEF Types
  <2>7. Turns'
    BY <1>0, <1>1, <2>2 DEF Turns
  <2>8. Places'
    <3>1. \A i \in 1..Len(begun) : pc'[begun[i]] = pc[begun[i]]
      BY <2>2, <2>5
    <3>2. \A i \in 1..Len(acked') : pc'[acked'[i]] = "acked"
      <4> SUFFICES ASSUME NEW i \in 1..Len(acked') PROVE pc'[acked'[i]] = "acked"
        OBVIOUS
      <4>1. CASE i \in 1..Len(acked)
        BY <1>0, <2>2, <2>3, <2>5, <4>1 DEF Places
      <4>2. CASE i = Len(acked) + 1
        BY <2>2, <2>3, <4>2
      <4> QED
        BY <2>0, <4>1, <4>2
    <3>3. \A i, j \in 1..Len(acked') : acked'[i] = acked'[j] => i = j
      <4>1. acked \in Seq(Messages) /\ \A i, j \in 1..Len(acked) : acked[i] = acked[j] => i = j
        BY <1>0 DEF Places, Types
      <4> QED
        BY <2>1, <2>5, <4>1, AppendDistinct
    <3> QED
      BY <1>0, <1>1, <3>1, <3>2, <3>3 DEF Places
  <2>9. InRow'
    <3>1. /\ Past' >= 0 /\ (Handling' => acked'[Gone'] = body')
          /\ \A i \in 1..Len(drained') : drained'[i] = acked'[Gone' + i]
      <4>1. \A i \in 1..Len(drained) : Gone + i \in 1..Len(acked)
        BY <1>0, Typed, Bounds
      <4> QED
        BY <1>0, <1>1, <2>3, <2>4, <4>1, Bounds DEF InRow
    <3>2. ASSUME NEW i \in 1..Len(queue') PROVE queue'[i] = acked'[Old' + i]
      <4>1. CASE i \in 1..Len(queue)
        <5>1. Old + i \in 1..Len(acked)
          BY <1>0, <4>1, Typed, Bounds
        <5> QED
          BY <1>0, <2>3, <2>4, <4>1, <5>1 DEF InRow
      <4>2. CASE i = Len(queue) + 1
        BY <1>0, <2>3, <2>4, <4>2, Typed
      <4> QED
        BY <2>0, <4>1, <4>2
    <3>3. ASSUME NEW i \in 1..Len(acked') PROVE IsIn(acked'[i], begun) <=> i <= Past
      <4>1. CASE i \in 1..Len(acked)
        BY <1>0, <2>3, <4>1 DEF InRow
      <4>2. CASE i = Len(acked) + 1
        BY <1>0, <2>3, <2>5, <4>2, Typed, Bounds DEF IsIn
      <4> QED
        BY <2>0, <4>1, <4>2
    <3>4. ASSUME NEW i \in 1..Len(acked'), NEW j \in 1..Len(acked'), NEW a \in 1..Len(begun),
                 NEW b \in 1..Len(begun), i < j, begun[a] = acked'[i], begun[b] = acked'[j]
          PROVE  a < b
      <4>1. ASSUME NEW k \in 1..Len(acked'), acked'[k] # m PROVE k \in 1..Len(acked)
        <5>1. k # Len(acked) + 1
          BY <2>3, <4>1
        <5> QED
          BY <2>0, <5>1
      <4>2. i \in 1..Len(acked) /\ j \in 1..Len(acked)
        BY <2>5, <3>4, <4>1
      <4> QED
        BY <1>0, <2>3, <3>4, <4>2 DEF InRow
    <3> QED
      BY <1>1, <2>4, <3>1, <3>2, <3>3, <3>4 DEF InRow, IsIn
  <2> QED
    BY <2>6, <2>7, <2>8, <2>9 DEF IInv
<1> QED
  BY <1>2, <1>3

LEMMA BeginKeeps == ASSUME IInv, NEW m \in Messages, Begin(m) PROVE IInv'
<1>0. Types /\ Turns /\ Places /\ InRow
  BY DEF IInv
<1>1. /\ pc[m] = "waiting" /\ turn = NoMessage /\ stage = "none"
      /\ pc' = [pc EXCEPT ![m] = "turn"] /\ turn' = m /\ body' = m
      /\ stage' \in {"clean", "append"} /\ UNCHANGED <<queue, drained, begun, acked>>
  BY <1>0 DEF Begin, Idle, Turns, orderVars
<1>2. \A q \in Messages : pc'[q] = IF q = m THEN "turn" ELSE pc[q]
  BY <1>0, <1>1 DEF Types
<1>3. /\ \A i \in 1..Len(begun) : begun[i] # m /\ begun[i] \in Messages
      /\ \A i \in 1..Len(acked) : acked[i] # m /\ acked[i] \in Messages
  <2>1. \A i \in 1..Len(begun) : pc[begun[i]] # "waiting"
    BY <1>0 DEF Places
  <2>2. \A i \in 1..Len(acked) : pc[acked[i]] # "waiting"
    BY <1>0 DEF Places
  <2> QED
    BY <1>0, <1>1, <2>1, <2>2, Typed
<1>4. Types'
  BY <1>0, <1>1 DEF Types, Stages
<1>5. Turns'
  BY <1>0, <1>1, <1>2, ConstantsAssumption DEF Turns
<1>6. Places'
  <2>1. /\ \A i \in 1..Len(begun) : pc'[begun[i]] = pc[begun[i]]
        /\ \A i \in 1..Len(acked) : pc'[acked[i]] = pc[acked[i]]
    BY <1>2, <1>3
  <2>2. ~IsIn(m, begun)
    BY <1>3 DEF IsIn
  <2> QED
    BY <1>0, <1>1, <2>1, <2>2 DEF Places, IsIn
<1>7. ~Handling /\ ~Handling'
  BY <1>1 DEF Handling, BeforeAppend
<1>8. InRow'
  <2>1. Old' = Old /\ Gone' = Gone /\ Past' = Past
    BY <1>1, <1>7 DEF Old, Gone, Past
  <2> QED
    <3>1. \A i \in 1..Len(acked') : IsIn(acked'[i], begun') <=> i <= Past'
      BY <1>0, <1>1, <2>1 DEF InRow, IsIn
    <3>2. \A i, j \in 1..Len(acked'), a, b \in 1..Len(begun') :
             i < j /\ begun'[a] = acked'[i] /\ begun'[b] = acked'[j] => a < b
      <4>1. \A i, j \in 1..Len(acked), a, b \in 1..Len(begun) :
               i < j /\ begun[a] = acked[i] /\ begun[b] = acked[j] => a < b
        BY <1>0 DEF InRow
      <4>2. begun' = begun /\ acked' = acked
        BY <1>1
      <4> QED
        BY <4>1, <4>2
    <3>3. /\ Past' >= 0
          /\ \A i \in 1..Len(queue') : queue'[i] = acked'[Old' + i]
          /\ \A i \in 1..Len(drained') : drained'[i] = acked'[Gone' + i]
      BY <1>0, <1>1, <2>1 DEF InRow
    <3> QED
      BY <1>7, <3>1, <3>2, <3>3 DEF InRow
<1> QED
  BY <1>4, <1>5, <1>6, <1>8 DEF IInv

LEMMA AppendKeeps == ASSUME IInv, AppendUser PROVE IInv'
<1>0. Types /\ Turns /\ Places /\ InRow
  BY DEF IInv
<1>1. /\ stage = "appending" /\ stage' = "load" /\ begun' = Append(begun, body) /\ body \in Messages
      /\ UNCHANGED <<queue, drained, acked, turn, body, pc>>
  BY <1>0 DEF AppendUser, guardVars, Turns
<1>2. /\ Len(begun') = Len(begun) + 1 /\ begun'[Len(begun) + 1] = body
      /\ \A i \in 1..Len(begun) : begun'[i] = begun[i]
  BY <1>0, <1>1 DEF Types
<1>3. ~IsIn(body, begun) /\ pc[body] \in {"turn", "acked"}
  <2>1. CASE body = turn
    BY <1>0, <1>1, <2>1 DEF Places, Turns, BeforeAppend
  <2>2. CASE body # turn
    <3>1. Handling
      BY <1>1, <2>2 DEF Handling, BeforeAppend
    <3>2. Gone \in 1..Len(acked) /\ acked[Gone] = body /\ ~(Gone <= Past)
      BY <1>0, <3>1, Typed, Bounds DEF InRow
    <3>3. ~IsIn(acked[Gone], begun) /\ pc[acked[Gone]] = "acked"
      BY <1>0, <3>2 DEF InRow, Places
    <3> QED
      BY <3>2, <3>3
  <2> QED  BY <2>1, <2>2
<1>4. Types' /\ Turns'
  BY <1>0, <1>1 DEF Types, Turns, Stages
<1>5. Places'
  <2>1. \A i \in 1..Len(begun) : begun[i] # body
    BY <1>3 DEF IsIn
  <2>2. \A i, j \in 1..Len(begun') : begun'[i] = begun'[j] => i = j
    <3>1. begun \in Seq(Messages) /\ \A i, j \in 1..Len(begun) : begun[i] = begun[j] => i = j
      BY <1>0 DEF Places, Types
    <3> QED
      BY <1>1, <2>1, <3>1, AppendDistinct
  <2>3. \A i \in 1..Len(begun') : pc[begun'[i]] \in {"turn", "acked", "answered", "failed"}
    <3> SUFFICES ASSUME NEW i \in 1..Len(begun')
                 PROVE  pc[begun'[i]] \in {"turn", "acked", "answered", "failed"}
      OBVIOUS
    <3>1. CASE i \in 1..Len(begun)
      BY <1>0, <1>2, <3>1 DEF Places
    <3>2. CASE i = Len(begun) + 1
      BY <1>2, <1>3, <3>2
    <3> QED
      BY <1>0, <1>2, <3>1, <3>2, Typed
  <2> QED
    BY <1>0, <1>1, <2>2, <2>3 DEF Places, BeforeAppend
<1>6. /\ ~Handling' /\ Gone' = Gone /\ Old' = Old /\ Past' = Gone
  <2>1. ~Handling'
    BY <1>1 DEF Handling, BeforeAppend
  <2>2. Old' = Old /\ Gone' = Gone
    BY <1>1 DEF Gone, Old
  <2> QED
    BY <1>0, <2>1, <2>2, Typed DEF Past
<1>7. ASSUME NEW i \in 1..Len(acked) PROVE IsIn(acked[i], begun') <=> IsIn(acked[i], begun) \/ acked[i] = body
  <2>1. \A k \in 1..Len(begun') : k \in 1..Len(begun) \/ k = Len(begun) + 1
    BY <1>0, <1>2, Typed
  <2>2. \A k \in 1..Len(begun) : k \in 1..Len(begun')
    BY <1>0, <1>2, Typed
  <2>3. Len(begun) + 1 \in 1..Len(begun')
    BY <1>0, <1>2, Typed
  <2> QED
    BY <1>2, <2>1, <2>2, <2>3 DEF IsIn
<1>8. \A i \in 1..Len(acked) : acked[i] = body <=> Handling /\ i = Gone
  <2>1. CASE Handling
    <3>1. Gone \in 1..Len(acked) /\ acked[Gone] = body
      BY <1>0, <2>1, Bounds DEF InRow
    <3> QED  BY <1>0, <2>1, <3>1 DEF Places
  <2>2. CASE ~Handling
    <3>1. body = turn /\ pc[body] = "turn"
      BY <1>0, <1>1, <2>2 DEF Handling, BeforeAppend, Turns
    <3> QED  BY <1>0, <2>2, <3>1 DEF Places
  <2> QED  BY <2>1, <2>2
<1>9. InRow'
  <2>1. /\ Past' >= 0
        /\ \A i \in 1..Len(queue') : queue'[i] = acked'[Old' + i]
        /\ \A i \in 1..Len(drained') : drained'[i] = acked'[Gone' + i]
    BY <1>0, <1>1, <1>6, Bounds DEF InRow
  <2>2. ASSUME NEW i \in 1..Len(acked) PROVE IsIn(acked[i], begun') <=> i <= Gone
    <3>1. IsIn(acked[i], begun) <=> i <= Past
      BY <1>0 DEF InRow
    <3>2. acked[i] = body <=> Handling /\ i = Gone
      BY <1>8
    <3>3. IsIn(acked[i], begun') <=> i <= Past \/ (Handling /\ i = Gone)
      BY <1>7, <3>1, <3>2
    <3> QED
      BY <1>0, <3>3, Bounds
  <2>3. ASSUME NEW i \in 1..Len(acked), NEW j \in 1..Len(acked), NEW a \in 1..Len(begun'), NEW b \in 1..Len(begun'),
               i < j, begun'[a] = acked[i], begun'[b] = acked[j]
        PROVE  a < b
    <3>1. CASE a \in 1..Len(begun) /\ b \in 1..Len(begun)
      BY <1>0, <1>2, <2>3, <3>1 DEF InRow
    <3>2. CASE a \in 1..Len(begun) /\ b = Len(begun) + 1
      BY <1>0, <3>2, Typed
    <3>3. CASE a = Len(begun) + 1
      <4>1. i = Gone /\ Gone \in Int
        BY <1>0, <1>2, <1>8, <2>3, <3>3, Typed
      <4>2. ~IsIn(acked[j], begun')
        <5>1. ~(j <= Gone)
          BY <2>3, <4>1
        <5> QED
          BY <2>2, <5>1
      <4> QED
        BY <2>3, <4>2 DEF IsIn
    <3> QED
      BY <1>0, <1>2, <3>1, <3>2, <3>3, Typed
  <2> QED
    BY <1>1, <1>6, <2>1, <2>2, <2>3 DEF InRow, IsIn
<1> QED
  BY <1>4, <1>5, <1>9 DEF IInv

LEMMA DrainKeeps == ASSUME IInv, Drain PROVE IInv'
<1>1. /\ stage = "drain" /\ stage' = "next" /\ drained' = queue /\ queue' = <<>>
      /\ UNCHANGED <<begun, acked, turn, body, pc>>
  BY DEF Drain, orderVars
<1>2. Types /\ Turns /\ Places /\ InRow
  BY DEF IInv
<1>3. drained = <<>> /\ ~Handling /\ ~Handling'
  BY <1>1, <1>2 DEF Turns, Handling, BeforeAppend
<1>4. Types' /\ Turns'
  BY <1>1, <1>2 DEF Types, Turns, Stages
<1>5. Places'
  BY <1>1, <1>2 DEF Places, BeforeAppend
<1>6. Len(queue') = 0 /\ Len(drained) = 0
  BY <1>1, <1>3
<1>7. Gone = Old /\ Past = Old
  BY <1>2, <1>3, <1>6, Typed
<1>8. Old' = Len(acked) /\ Gone' = Old /\ Past' = Old
  <2>1. Old' = Len(acked)
    BY <1>1, <1>2, <1>6, Typed DEF Old
  <2>2. Gone' = Old
    BY <1>1, <1>2, <2>1, Typed DEF Gone
  <2> QED
    BY <1>2, <1>3, <2>1, <2>2, Typed DEF Past
<1>9. InRow'
  <2>1. \A i \in 1..Len(drained') : drained'[i] = acked'[Gone' + i]
    BY <1>1, <1>2, <1>8 DEF InRow
  <2>2. /\ Past' >= 0
        /\ \A i \in 1..Len(acked') : IsIn(acked'[i], begun') <=> i <= Past'
    BY <1>1, <1>2, <1>7, <1>8 DEF InRow, IsIn
  <2> QED
    BY <1>1, <1>2, <1>3, <1>6, <2>1, <2>2 DEF InRow
<1> QED
  BY <1>4, <1>5, <1>9 DEF IInv

LEMMA NextKeeps == ASSUME IInv, NextDrained PROVE IInv'
<1>1. /\ stage = "next" /\ stage' = "append" /\ drained # <<>>
      /\ body' = Head(drained) /\ drained' = Tail(drained)
      /\ UNCHANGED <<queue, begun, acked, turn, pc>>
  BY DEF NextDrained, guardVars, orderVars
<1>2. Types /\ Turns /\ Places /\ InRow
  BY DEF IInv
<1>3. drained \in Seq(Messages)
  BY <1>2 DEF Types
<1>4. /\ Len(drained) \in Nat \ {0} /\ body' = drained[1] /\ body' \in Messages
      /\ drained' \in Seq(Messages) /\ Len(drained') = Len(drained) - 1
      /\ \A i \in 1..Len(drained') : drained'[i] = drained[i + 1]
  BY <1>1, <1>3
<1>5. Old' = Old /\ Gone' = Gone + 1 /\ ~Handling /\ Past = Gone
  <2>1. ~Handling
    BY <1>1 DEF Handling, BeforeAppend
  <2>2. Old' = Old
    BY <1>1 DEF Old
  <2> QED
    BY <1>2, <1>4, <2>1, <2>2, Typed DEF Gone
<1>6. Gone + 1 \in 1..Len(acked) /\ acked[Gone + 1] = body'
  <2>1. 1 \in 1..Len(drained) /\ Gone + 1 \in 1..Len(acked)
    BY <1>2, <1>4, Typed, Bounds
  <2> QED
    BY <1>2, <1>4, <2>1 DEF InRow
<1>7. body' # turn
  <2>1. pc[body'] = "acked"
    BY <1>2, <1>6 DEF Places
  <2> QED
    BY <1>2, <1>4, <2>1 DEF Turns
<1>8. Handling' /\ Past' = Past
  <2>1. Handling'
    BY <1>1, <1>7 DEF Handling, BeforeAppend
  <2> QED
    BY <1>2, <1>5, <2>1, Typed DEF Past
<1>9. Types' /\ Turns'
  BY <1>1, <1>2, <1>4, <1>7 DEF Types, Turns, Stages
<1>10. Places'
  BY <1>1, <1>2, <1>7 DEF Places
<1>11. InRow'
  <2>1. \A i \in 1..Len(drained') : drained'[i] = acked'[Gone' + i]
    <3> SUFFICES ASSUME NEW i \in 1..Len(drained') PROVE drained'[i] = acked[Gone' + i]
      BY <1>1
    <3>1. i + 1 \in 1..Len(drained) /\ Gone' + i = Gone + (i + 1)
      BY <1>2, <1>4, <1>5, Typed
    <3>2. drained[i + 1] = acked[Gone + (i + 1)]
      BY <1>2, <3>1 DEF InRow
    <3> QED
      BY <1>4, <3>1, <3>2
  <2>2. /\ Past' >= 0
        /\ \A i \in 1..Len(acked') : IsIn(acked'[i], begun') <=> i <= Past'
    BY <1>1, <1>2, <1>8 DEF InRow, IsIn
  <2> QED
    BY <1>1, <1>2, <1>5, <1>6, <2>1, <2>2 DEF InRow
<1> QED
  BY <1>9, <1>10, <1>11 DEF IInv

LEMMA LeaveKeeps == ASSUME IInv, Leave PROVE IInv'
<1>1. /\ stage \in {"leave", "next"} /\ stage' = "none" /\ turn' = NoMessage /\ body' = NoMessage
      /\ \E place \in {"answered", "failed"} : pc' = [pc EXCEPT ![turn] = place]
      /\ UNCHANGED <<queue, drained, begun, acked>>
  BY DEF Leave, orderVars
<1>2. Types /\ Turns /\ Places /\ InRow
  BY DEF IInv
<1>3. turn \in Messages /\ drained = <<>>
  BY <1>1, <1>2 DEF Types, Turns, Leave
<1>4. \A m \in Messages : pc'[m] = pc[m] \/ (m = turn /\ pc'[m] \in {"answered", "failed"})
  BY <1>1, <1>2 DEF Types
<1>5. pc'[turn] \in {"answered", "failed"} /\ pc[turn] = "turn"
  BY <1>1, <1>2, <1>3 DEF Types, Turns
<1>6. Types'
  BY <1>1, <1>2 DEF Types, Stages
<1>7. Turns'
  BY <1>1, <1>2, <1>3, <1>4, <1>5, ConstantsAssumption DEF Turns
<1>8. Places'
  <2>1. \A i \in 1..Len(acked) : pc'[acked[i]] = "acked"
    BY <1>2, <1>4, <1>5, Typed DEF Places
  <2>2. \A i \in 1..Len(begun) : pc'[begun[i]] \in {"turn", "acked", "answered", "failed"}
    BY <1>2, <1>4, Typed DEF Places
  <2> QED
    BY <1>1, <1>2, <2>1, <2>2 DEF Places, BeforeAppend
<1>9. ~Handling /\ ~Handling'
  BY <1>1 DEF Handling, BeforeAppend
<1>10. Old' = Old /\ Gone' = Gone /\ Past' = Past
  BY <1>1, <1>9 DEF Old, Gone, Past
<1>11. InRow'
  BY <1>1, <1>2, <1>9, <1>10 DEF InRow, IsIn
<1> QED
  BY <1>6, <1>7, <1>8, <1>11 DEF IInv

LEMMA BodyEnds ==
    ASSUME IInv, NEW ok \in BOOLEAN, stage \in {"saving", "closing", "thinking"}, stage' = AfterBody(ok),
           UNCHANGED <<queue, drained, begun, acked, turn, body, pc>>
    PROVE  IInv'
<1>1. stage' \in {"next", "drain", "leave"} /\ (stage' # "next" => body = turn)
  BY DEF AfterBody
<1> QED
  BY <1>1, StageMoves DEF Stages, BeforeAppend

LEMMA Inductive == IInv /\ [Next]_vars => IInv'
<1> SUFFICES ASSUME IInv, [Next]_vars PROVE IInv'
  OBVIOUS
<1> USE DEF guardVars, turnVars, orderVars
<1>1. ASSUME NEW m \in Messages, Send(m) \/ GiveUp(m) PROVE IInv'
  BY <1>1, CallerMoves DEF Send, GiveUp
<1>2. ASSUME Fetch \/ Clean \/ Think \/ Tool PROVE IInv'
  BY <1>2, StageMoves DEF Fetch, Clean, Think, Tool, Stages, BeforeAppend
<1>3. CASE Save
  <2>1. CASE calls + 1 < MaxIterations
    BY <1>3, <2>1, StageMoves DEF Save, Stages, BeforeAppend
  <2>2. CASE ~(calls + 1 < MaxIterations)
    BY <1>3, <2>2, BodyEnds DEF Save, Return
  <2> QED  BY <2>1, <2>2
<1>4. CASE Close
  BY <1>4, BodyEnds DEF Close, Return
<1>5. CASE Stop
  BY <1>5, BodyEnds DEF Stop, Return
<1>6. ASSUME NEW n \in Nodes, UseNode(n) PROVE IInv'
  BY <1>6, OthersMove DEF UseNode
<1>7. CASE SumStep \/ Upload
  BY <1>7, OthersMove DEF SumStep, Select, SumFetch, SumPut, SumFail, Upload
<1>8. CASE UNCHANGED vars
  BY <1>8, OthersMove DEF vars
<1> QED
  BY <1>1, <1>2, <1>3, <1>4, <1>5, <1>6, <1>7, <1>8, EnqueueKeeps, BeginKeeps, AppendKeeps, DrainKeeps,
     NextKeeps, LeaveKeeps DEF Next, TurnStep

\* A queued message is handled at most once and in its turn, for any number of callers that
\* race with the end of a turn, and whatever fails (TryQueue, DrainQueue, processMessageLocked).
THEOREM QueueInOrder == Spec => []QueueHandledInOrder
<1>1. IInv => QueueHandledInOrder
  <2> SUFFICES ASSUME IInv PROVE QueueHandledInOrder
    OBVIOUS
  <2>1. Types /\ Places /\ InRow /\ DOMAIN begun = 1..Len(begun) /\ DOMAIN acked = 1..Len(acked)
    BY DEF IInv, Types
  <2>2. HandledOnce
    BY <2>1 DEF HandledOnce, Places
  <2>3. ASSUME NEW i \in 1..Len(acked), NEW j \in 1..Len(acked), i < j, acked[j] \in Range(begun)
        PROVE  \E a, b \in 1..Len(begun) : a < b /\ begun[a] = acked[i] /\ begun[b] = acked[j]
    <3>1. PICK b \in 1..Len(begun) : begun[b] = acked[j]
      BY <2>1, <2>3 DEF Range
    <3>2. j <= Past
      BY <2>1, <3>1 DEF InRow, IsIn
    <3>3. i <= Past
      BY <2>1, <2>3, <3>2, Typed
    <3>4. PICK a \in 1..Len(begun) : begun[a] = acked[i]
      BY <2>1, <3>3 DEF InRow, IsIn
    <3> QED
      BY <2>1, <2>3, <3>1, <3>4 DEF InRow
  <2> QED
    BY <2>1, <2>2, <2>3 DEF QueueHandledInOrder, QueueIsFifo
<1> QED
  BY <1>1, InitHolds, Inductive, PTL DEF Spec
=============================================================================
