------------------------ MODULE SessionHistoryProofs ------------------------
(***************************************************************************)
(* Proofs about what a session holds: the rows have their types, tool      *)
(* results follow their calls, the user messages are in the order in which *)
(* they were handled, and nothing is lost or replaced until a stale copy   *)
(* is put back.                                                            *)
(*                                                                         *)
(* First the operators: a history is what Kept leaves of a sequence, a     *)
(* loop over its entries, so its lemmas are by induction on the length, as *)
(* the absence of a least counterexample.  Then the rows, what each step   *)
(* makes of them, and one invariant for each theorem, on top of the IInv   *)
(* of SessionTurnProofs.  Every one of them speaks of the copies as well   *)
(* as of the row, for a copy is the row of a later state.                  *)
(***************************************************************************)
EXTENDS SessionTurnProofs, SequenceTheorems, FiniteSetTheorems

-----------------------------------------------------------------------------
(* Induction, and the loop that filters a sequence.                        *)

NatLess == {p \in Nat \X Nat : p[1] < p[2]}

LEMMA NatLessWellFounded == IsWellFoundedOn(NatLess, Nat)
<1>1. NatLess = OpToRel(<, Nat)
  BY Zenon DEF NatLess, OpToRel
<1> QED
  BY <1>1, NatLessThanWellFounded, Zenon

\* A set of naturals that is not empty has a least element.
LEMMA LeastNatural == ASSUME NEW S \in SUBSET Nat, S # {} PROVE \E m \in S : \A n \in S : m <= n
<1>1. PICK m \in S : \A n \in S : <<n, m>> \notin NatLess
  BY NatLessWellFounded, WFMin, Zenon
<1>2. ASSUME NEW n \in S PROVE m <= n
  <2>1. m \in Nat /\ n \in Nat /\ <<n, m>> \notin NatLess
    BY <1>1
  <2>2. ~(n < m)
    BY <2>1 DEF NatLess
  <2> QED
    BY <2>1, <2>2
<1> QED
  BY <1>2

\* Induction over sequences, for the set of those that have a property.
LEMMA SequenceInduction ==
    ASSUME NEW E, NEW T, <<>> \in T, \A s \in Seq(E), e \in E : s \in T => Append(s, e) \in T
    PROVE  Seq(E) \subseteq T
<1> DEFINE Bad == {n \in Nat : \E s \in Seq(E) : Len(s) = n /\ s \notin T}
<1> SUFFICES ASSUME Bad # {} PROVE FALSE
  OBVIOUS
<1>1. PICK m \in Bad : \A n \in Bad : m <= n
  <2> HIDE DEF Bad
  <2>1. Bad \in SUBSET Nat
    BY DEF Bad
  <2> QED
    BY <2>1, LeastNatural
<1>2. PICK s \in Seq(E) : Len(s) = m /\ s \notin T
  OBVIOUS
<1>3. s # <<>>
  BY <1>2
<1>4. PICK t \in Seq(E), e \in E : s = Append(t, e)
  BY <1>3, SequenceEmptyOrAppend
<1>5. Len(t) \in Nat /\ Len(t) < m
  BY <1>2, <1>4
<1>6. t \in T
  BY <1>1, <1>5
<1> QED
  BY <1>2, <1>4, <1>6

IsLoop(g, s, kinds, n) ==
    g = [k \in 0..n |->
            IF k = 0 THEN <<>>
            ELSE IF s[k].kind \in kinds THEN Append(g[k - 1], s[k]) ELSE g[k - 1]]

\* The loop has a result after any number of entries.
LEMMA LoopRuns == ASSUME NEW s, NEW kinds, NEW n \in Nat PROVE \E g : IsLoop(g, s, kinds, n)
<1> DEFINE Bad == {k \in Nat : ~ \E g : IsLoop(g, s, kinds, k)}
<1> SUFFICES ASSUME Bad # {} PROVE FALSE
  OBVIOUS
<1>1. PICK m \in Bad : \A k \in Bad : m <= k
  <2> HIDE DEF Bad
  <2>1. Bad \in SUBSET Nat
    BY DEF Bad
  <2> QED
    BY <2>1, LeastNatural
<1>2. CASE m = 0
  <2>1. IsLoop([k \in 0..0 |-> <<>>], s, kinds, 0)
    BY DEF IsLoop
  <2> QED
    BY <1>1, <1>2, <2>1
<1>3. CASE m # 0
  <2>1. m - 1 \in Nat /\ m - 1 \notin Bad
    BY <1>1, <1>3
  <2>2. PICK g : IsLoop(g, s, kinds, m - 1)
    BY <2>1
  <2> DEFINE h == [k \in 0..m |-> IF k = m THEN IF s[m].kind \in kinds THEN Append(g[m - 1], s[m]) ELSE g[m - 1]
                                  ELSE g[k]]
  <2>3. IsLoop(h, s, kinds, m)
    <3>1. ASSUME NEW k \in 0..m
          PROVE  h[k] = IF k = 0 THEN <<>>
                        ELSE IF s[k].kind \in kinds THEN Append(h[k - 1], s[k]) ELSE h[k - 1]
      <4>1. CASE k = m
        <5>1. m - 1 \in 0..m /\ m - 1 # m
          BY <2>1
        <5>2. h[m - 1] = g[m - 1]
          BY <5>1
        <5> QED
          BY <1>3, <4>1, <5>2
      <4>2. CASE k # m
        <5>1. k \in 0..(m - 1) /\ h[k] = g[k]
          BY <2>1, <4>2
        <5>2. k # 0 => k - 1 \in 0..m /\ k - 1 # m /\ h[k - 1] = g[k - 1]
          BY <2>1, <4>2
        <5>3. g[k] = IF k = 0 THEN <<>>
                     ELSE IF s[k].kind \in kinds THEN Append(g[k - 1], s[k]) ELSE g[k - 1]
          BY <2>2, <5>1 DEF IsLoop
        <5> QED
          BY <5>1, <5>2, <5>3
      <4> QED
        BY <4>1, <4>2
    <3>2. h = [k \in 0..m |-> h[k]]
      OBVIOUS
    <3> HIDE DEF h
    <3> QED
      BY <3>1, <3>2 DEF IsLoop
  <2> QED
    BY <1>1, <2>3
<1> QED
  BY <1>2, <1>3

\* Kept is what the loop has after the last entry.
LEMMA KeptIsLoop ==
    ASSUME NEW E, NEW s \in Seq(E), NEW kinds
    PROVE  \E g : IsLoop(g, s, kinds, Len(s)) /\ Kept(s, kinds) = g[Len(s)]
<1> DEFINE Result == CHOOSE g : IsLoop(g, s, kinds, Len(s))
<1>1. Kept(s, kinds) = Result[Len(s)]
  BY DEF Kept, IsLoop
<1>2. Len(s) \in Nat
  OBVIOUS
<1>3. IsLoop(Result, s, kinds, Len(s))
  BY <1>2, LoopRuns, Zenon
<1> QED
  BY <1>1, <1>3, Zenon

LEMMA LoopStep ==
    ASSUME NEW g, NEW s, NEW kinds, NEW n \in Nat, IsLoop(g, s, kinds, n), NEW k \in 0..n
    PROVE  g[k] = IF k = 0 THEN <<>>
                  ELSE IF s[k].kind \in kinds THEN Append(g[k - 1], s[k]) ELSE g[k - 1]
  BY DEF IsLoop

LEMMA KeptEmpty == ASSUME NEW kinds PROVE Kept(<<>>, kinds) = <<>>
<1>1. <<>> \in Seq({}) /\ Len(<<>>) = 0
  OBVIOUS
<1>2. PICK g : IsLoop(g, <<>>, kinds, 0) /\ Kept(<<>>, kinds) = g[0]
  BY <1>1, KeptIsLoop
<1> QED
  BY <1>2, LoopStep

\* One more entry: it is appended to what was kept, or left out.
LEMMA KeptAppend ==
    ASSUME NEW E, NEW s \in Seq(E), NEW e \in E, NEW kinds
    PROVE  Kept(Append(s, e), kinds) = IF e.kind \in kinds THEN Append(Kept(s, kinds), e) ELSE Kept(s, kinds)
<1> DEFINE t == Append(s, e)
<1>1. /\ Len(s) \in Nat /\ t \in Seq(E) /\ Len(t) = Len(s) + 1 /\ t[Len(s) + 1] = e
      /\ \A k \in 1..Len(s) : s[k] = t[k]
  OBVIOUS
<1> HIDE DEF t
<1>2. PICK g : IsLoop(g, s, kinds, Len(s)) /\ Kept(s, kinds) = g[Len(s)]
  BY KeptIsLoop
<1>3. PICK h : IsLoop(h, t, kinds, Len(t)) /\ Kept(t, kinds) = h[Len(t)]
  BY <1>1, KeptIsLoop
<1>4. g[Len(s)] = h[Len(s)]
  <2> DEFINE Bad == {k \in 0..Len(s) : g[k] # h[k]}
  <2>1. ASSUME Bad # {} PROVE FALSE
    <3>1. PICK j \in Bad : \A k \in Bad : j <= k
      <4>1. Bad \in SUBSET Nat
        BY <1>1
      <4> HIDE DEF Bad
      <4> QED
        BY <2>1, <4>1, LeastNatural
    <3>2. j \in 0..Len(s) /\ j \in 0..Len(t) /\ g[j] # h[j]
      BY <1>1
    <3>3. g[0] = <<>> /\ h[0] = <<>>
      BY <1>1, <1>2, <1>3, LoopStep
    <3>4. j - 1 \in 0..Len(s) /\ j - 1 \notin Bad
      BY <1>1, <3>1, <3>2, <3>3
    <3>5. g[j - 1] = h[j - 1] /\ s[j] = t[j] /\ j # 0
      BY <1>1, <3>2, <3>3, <3>4
    <3>6. g[j] = IF s[j].kind \in kinds THEN Append(g[j - 1], s[j]) ELSE g[j - 1]
      BY <1>1, <1>2, <3>2, <3>5, LoopStep
    <3>7. h[j] = IF t[j].kind \in kinds THEN Append(h[j - 1], t[j]) ELSE h[j - 1]
      BY <1>1, <1>3, <3>2, <3>5, LoopStep
    <3> QED
      BY <3>2, <3>5, <3>6, <3>7
  <2> QED
    BY <1>1, <2>1
<1>5. h[Len(t)] = IF t[Len(t)].kind \in kinds THEN Append(h[Len(t) - 1], t[Len(t)]) ELSE h[Len(t) - 1]
  <2>1. Len(t) \in Nat /\ Len(t) \in 0..Len(t) /\ Len(t) # 0
    BY <1>1
  <2> QED
    BY <1>3, <2>1, LoopStep
<1>6. Kept(t, kinds) = IF e.kind \in kinds THEN Append(Kept(s, kinds), e) ELSE Kept(s, kinds)
  BY <1>1, <1>2, <1>3, <1>4, <1>5
<1> QED
  BY <1>6 DEF t

\* What is kept is of the kinds asked for.
LEMMA KeptType ==
    ASSUME NEW E, NEW s \in Seq(E), NEW kinds
    PROVE  /\ Kept(s, kinds) \in Seq(E)
           /\ \A i \in 1..Len(Kept(s, kinds)) : Kept(s, kinds)[i].kind \in kinds
<1> DEFINE Good(q) == q \in Seq(E) /\ \A i \in 1..Len(q) : q[i].kind \in kinds
           T == {q \in Seq(E) : Good(Kept(q, kinds))}
<1>1. <<>> \in T
  <2>1. Good(<<>>) /\ <<>> \in Seq(E)
    OBVIOUS
  <2> HIDE DEF Good
  <2> QED
    BY <2>1, KeptEmpty
<1>2. ASSUME NEW q \in Seq(E), NEW e \in E, q \in T PROVE Append(q, e) \in T
  <2>1. Append(q, e) \in Seq(E) /\ Good(Kept(q, kinds))
    BY <1>2
  <2>2. e.kind \in kinds => Good(Append(Kept(q, kinds), e))
    <3> DEFINE k == Kept(q, kinds)
    <3> HIDE DEF k
    <3>1. Good(k)
      BY <2>1 DEF k
    <3>2. /\ Append(k, e) \in Seq(E) /\ Len(k) \in Nat /\ Len(Append(k, e)) = Len(k) + 1
          /\ Append(k, e)[Len(k) + 1] = e /\ \A i \in 1..Len(k) : Append(k, e)[i] = k[i]
      BY <3>1
    <3>3. e.kind \in kinds => Good(Append(k, e))
      BY <3>1, <3>2
    <3> QED
      BY <3>3 DEF k
  <2> HIDE DEF Good
  <2>3. Good(Kept(Append(q, e), kinds))
    <3>1. \/ e.kind \in kinds /\ Kept(Append(q, e), kinds) = Append(Kept(q, kinds), e)
          \/ Kept(Append(q, e), kinds) = Kept(q, kinds)
      BY KeptAppend
    <3> QED
      BY <2>1, <2>2, <3>1
  <2> QED
    BY <2>1, <2>3
<1> HIDE DEF T
<1>3. Seq(E) \subseteq T
  BY <1>1, <1>2, SequenceInduction
<1> QED
  BY <1>3 DEF T

\* Joining before an append or after it.
LEMMA JoinAppend ==
    ASSUME NEW E, NEW s \in Seq(E), NEW t \in Seq(E), NEW e \in E
    PROVE  /\ s \o t \in Seq(E) /\ Append(t, e) \in Seq(E)
           /\ s \o Append(t, e) = Append(s \o t, e)
<1>1. s \o t \in Seq(E) /\ <<e>> \in Seq(E) /\ Append(t, e) \in Seq(E)
  BY ConcatProperties
<1>2. Append(t, e) = t \o <<e>> /\ Append(s \o t, e) = (s \o t) \o <<e>>
  BY <1>1, AppendIsConcat
<1>3. (s \o t) \o <<e>> = s \o (t \o <<e>>)
  BY <1>1, ConcatAssociative
<1> QED
  BY <1>1, <1>2, <1>3

\* Keeping and joining commute.
LEMMA KeptConcat ==
    ASSUME NEW E, NEW s \in Seq(E), NEW t \in Seq(E), NEW kinds
    PROVE  Kept(s \o t, kinds) = Kept(s, kinds) \o Kept(t, kinds)
<1> DEFINE T == {q \in Seq(E) : Kept(s \o q, kinds) = Kept(s, kinds) \o Kept(q, kinds)}
<1>0. Kept(s, kinds) \in Seq(E)
  BY KeptType
<1>1. <<>> \in T
  <2>1. s \o <<>> = s /\ Kept(s, kinds) \o <<>> = Kept(s, kinds) /\ <<>> \in Seq(E)
    BY <1>0, ConcatEmptySeq
  <2> QED
    BY <2>1, KeptEmpty
<1>2. ASSUME NEW q \in Seq(E), NEW e \in E, q \in T PROVE Append(q, e) \in T
  <2>1. s \o Append(q, e) = Append(s \o q, e) /\ s \o q \in Seq(E) /\ Append(q, e) \in Seq(E)
    BY JoinAppend
  <2>2. Kept(q, kinds) \in Seq(E)
    BY KeptType
  <2>3. Kept(s, kinds) \o Append(Kept(q, kinds), e) = Append(Kept(s, kinds) \o Kept(q, kinds), e)
    BY <1>0, <2>2, JoinAppend
  <2>4. Kept(s \o q, kinds) = Kept(s, kinds) \o Kept(q, kinds)
    BY <1>2
  <2>5. Kept(s \o Append(q, e), kinds) = Kept(s, kinds) \o Kept(Append(q, e), kinds)
    <3> DEFINE j == s \o q
    <3>0. j \in Seq(E)
      BY <2>1
    <3> HIDE DEF j
    <3>4. Kept(Append(j, e), kinds) = IF e.kind \in kinds THEN Append(Kept(j, kinds), e) ELSE Kept(j, kinds)
      BY <3>0, KeptAppend
    <3>1. Kept(Append(s \o q, e), kinds)
             = IF e.kind \in kinds THEN Append(Kept(s \o q, kinds), e) ELSE Kept(s \o q, kinds)
      BY <3>4 DEF j
    <3>2. Kept(Append(q, e), kinds) = IF e.kind \in kinds THEN Append(Kept(q, kinds), e) ELSE Kept(q, kinds)
      BY KeptAppend
    <3> QED
      BY <2>1, <2>3, <2>4, <3>1, <3>2
  <2> QED
    BY <2>1, <2>5
<1> HIDE DEF T
<1>3. Seq(E) \subseteq T
  BY <1>1, <1>2, SequenceInduction
<1> QED
  BY <1>3 DEF T

\* Keeping more first changes nothing.
LEMMA KeptKept ==
    ASSUME NEW E, NEW s \in Seq(E), NEW kinds, NEW fewer \in SUBSET kinds
    PROVE  Kept(Kept(s, kinds), fewer) = Kept(s, fewer)
<1> DEFINE T == {q \in Seq(E) : Kept(Kept(q, kinds), fewer) = Kept(q, fewer)}
<1>1. <<>> \in T
  BY KeptEmpty
<1>2. ASSUME NEW q \in Seq(E), NEW e \in E, q \in T PROVE Append(q, e) \in T
  <2>1. Kept(q, kinds) \in Seq(E) /\ Append(q, e) \in Seq(E)
    BY KeptType
  <2>2. Kept(Kept(q, kinds), fewer) = Kept(q, fewer)
    BY <1>2
  <2>3. /\ Kept(Append(q, e), kinds) = IF e.kind \in kinds THEN Append(Kept(q, kinds), e) ELSE Kept(q, kinds)
        /\ Kept(Append(q, e), fewer) = IF e.kind \in fewer THEN Append(Kept(q, fewer), e) ELSE Kept(q, fewer)
    BY KeptAppend
  <2>5. Kept(Append(Kept(q, kinds), e), fewer)
           = IF e.kind \in fewer THEN Append(Kept(Kept(q, kinds), fewer), e) ELSE Kept(Kept(q, kinds), fewer)
    BY <2>1, KeptAppend
  <2>4. Kept(Kept(Append(q, e), kinds), fewer) = Kept(Append(q, e), fewer)
    BY <2>2, <2>3, <2>5
  <2> QED
    BY <2>1, <2>4
<1> HIDE DEF T
<1>3. Seq(E) \subseteq T
  BY <1>1, <1>2, SequenceInduction
<1> QED
  BY <1>3 DEF T

-----------------------------------------------------------------------------
(* Session rows: what a copy has in common with the one it was made from.  *)

Entries == [kind : Kinds, of : Messages]

\* The user messages of a session, the archived ones first.
Asked(s) == Users(s.archived \o s.msgs)

Paired(q) ==
    \A i \in 1..Len(q) : q[i].kind = "result" => i > 1 /\ q[i - 1] = Entry("call", q[i].of)

LEMMA Fields ==
    ASSUME NEW s \in Session
    PROVE  /\ s.msgs \in Seq(Entries) /\ s.archived \in Seq(Entries) /\ s.msgSeq \in Nat
           /\ s.fileSeq \in Nat /\ s.summarized \in BOOLEAN /\ s.opened \in SUBSET Nodes
  BY DEF Session, Entries

\* A finite set of naturals has a greatest element.
LEMMA GreatestNatural ==
    ASSUME NEW n \in Nat, NEW S \in SUBSET (0..n), S # {}
    PROVE  \E c \in S : \A d \in S : d <= c
<1> DEFINE R == {k \in 0..n : n - k \in S}
<1>1. R \in SUBSET Nat /\ R # {}
  <2>1. PICK c \in S : TRUE
    OBVIOUS
  <2>2. n - c \in 0..n /\ n - (n - c) = c
    OBVIOUS
  <2> QED
    BY <2>2
<1>2. PICK k \in R : \A j \in R : k <= j
  <2> HIDE DEF R
  <2> QED
    BY <1>1, LeastNatural
<1>3. ASSUME NEW d \in S PROVE d <= n - k
  <2>1. n - d \in R
    <3>1. n - d \in 0..n /\ n - (n - d) = d
      OBVIOUS
    <3> QED
      BY <3>1
  <2>2. k \in 0..n /\ d \in 0..n /\ k <= n - d
    BY <1>2, <2>1
  <2> QED
    BY <2>2
<1> QED
  BY <1>2, <1>3

\* The cut is inside the window, and what follows it is no tool result.
LEMMA CutIs ==
    ASSUME NEW q \in Seq(Entries)
    PROVE  /\ Cut(q) \in 0..Len(q)
           /\ Cut(q) = 0 \/ Cut(q) = Len(q) \/ q[Cut(q) + 1].kind # "result"
<1> DEFINE Cuts == {c \in 0..Len(q) - Retain : c = 0 \/ c = Len(q) \/ q[c + 1].kind # "result"}
<1>1. Len(q) \in Nat /\ Retain \in Nat
  BY ConstantsAssumption
<1>2. CASE Len(q) <= Retain
  BY <1>1, <1>2 DEF Cut
<1>3. CASE ~(Len(q) <= Retain)
  <2>1. Cut(q) = CHOOSE c \in Cuts : \A d \in Cuts : d <= c
    BY <1>3 DEF Cut
  <2>2. \E c \in Cuts : \A d \in Cuts : d <= c
    <3>1. Len(q) - Retain \in Nat /\ 0 \in Cuts /\ Cuts \in SUBSET (0..(Len(q) - Retain))
      BY <1>1, <1>3
    <3> HIDE DEF Cuts
    <3> QED
      BY <3>1, GreatestNatural
  <2>3. Cut(q) \in Cuts
    <3> HIDE DEF Cuts
    <3> QED
      BY <2>1, <2>2, Zenon
  <2> QED
    BY <1>1, <2>3
<1> QED
  BY <1>2, <1>3

LEMMA UsersJoin ==
    ASSUME NEW a \in Seq(Entries), NEW q \in Seq(Entries)
    PROVE  Users(a \o q) = Users(a) \o Users(q)
  BY KeptConcat DEF Users

LEMMA UsersAppend ==
    ASSUME NEW q \in Seq(Entries), NEW e \in Entries
    PROVE  Users(Append(q, e)) = IF e.kind = "user" THEN Append(Users(q), e) ELSE Users(q)
<1>1. Kept(Append(q, e), {"user"}) = IF e.kind \in {"user"} THEN Append(Kept(q, {"user"}), e)
                                     ELSE Kept(q, {"user"})
  BY KeptAppend
<1> QED
  BY <1>1 DEF Users

LEMMA JoinJoin ==
    ASSUME NEW E, NEW a \in Seq(E), NEW b \in Seq(E), NEW c \in Seq(E)
    PROVE  (a \o b) \o c = a \o (b \o c) /\ a \o b \in Seq(E)
<1>1. (a \o b) \o c = a \o (b \o c)
  BY ConcatAssociative
<1>2. a \o b \in Seq(E)
  BY ConcatProperties
<1> QED
  BY <1>1, <1>2

\* Archiving up to a cut leaves the whole as it was.
LEMMA CutAndJoined ==
    ASSUME NEW a \in Seq(Entries), NEW q \in Seq(Entries), NEW cut \in 0..Len(q)
    PROVE  /\ a \o SubSeq(q, 1, cut) \in Seq(Entries) /\ SubSeq(q, cut + 1, Len(q)) \in Seq(Entries)
           /\ (a \o SubSeq(q, 1, cut)) \o SubSeq(q, cut + 1, Len(q)) = a \o q
<1> DEFINE before == SubSeq(q, 1, cut)
           after == SubSeq(q, cut + 1, Len(q))
<1>1. Len(q) \in Nat /\ before \in Seq(Entries) /\ after \in Seq(Entries)
  OBVIOUS
<1>2. before \o after = q
  <2>1. 1 \in 1..Len(q) + 1 /\ cut \in (1 - 1)..Len(q) /\ Len(q) \in cut..Len(q)
    BY <1>1
  <2>2. before \o after = SubSeq(q, 1, Len(q))
    BY <2>1, ConcatAdjacentSubSeq
  <2>3. SubSeq(q, 1, Len(q)) = q
    BY SubSeqFull
  <2> QED
    BY <2>2, <2>3
<1>3. \A b, c \in Seq(Entries) : (a \o b) \o c = a \o (b \o c) /\ a \o b \in Seq(Entries)
  BY JoinJoin
<1> HIDE DEF before, after
<1>4. a \o before \in Seq(Entries) /\ (a \o before) \o after = a \o (before \o after)
  BY <1>1, <1>3, Zenon
<1>5. (a \o before) \o after = a \o q
  BY <1>2, <1>4
<1> QED
  BY <1>1, <1>4, <1>5 DEF before, after

\* NewSession has no history.
LEMMA NewIs == NewSession \in Session /\ Asked(NewSession) = <<>> /\ Paired(NewSession.msgs)
<1>1. NewSession \in Session /\ NewSession.msgs = <<>> /\ NewSession.archived = <<>>
  BY DEF NewSession, Session
<1>2. <<>> \o <<>> = <<>>
  BY ConcatEmptySeq, EmptySeq
<1> QED
  BY <1>1, <1>2, KeptEmpty DEF Asked, Users, Paired

\* One more entry.
LEMMA AddedIs ==
    ASSUME NEW s \in Session, NEW t \in Session, NEW e \in Entries,
           t.archived = s.archived, t.msgs = Append(s.msgs, e)
    PROVE  /\ Asked(t) = IF e.kind = "user" THEN Append(Asked(s), e) ELSE Asked(s)
           /\ e.kind # "result" /\ Paired(s.msgs) => Paired(t.msgs)
<1>1. s.archived \o t.msgs = Append(s.archived \o s.msgs, e) /\ s.archived \o s.msgs \in Seq(Entries)
  <2>1. s.archived \in Seq(Entries) /\ s.msgs \in Seq(Entries)
    BY Fields
  <2> DEFINE a == s.archived
             q == s.msgs
  <2>2. a \in Seq(Entries) /\ q \in Seq(Entries) /\ t.msgs = Append(q, e)
    BY <2>1
  <2> HIDE DEF a, q
  <2>3. a \o q \in Seq(Entries) /\ a \o Append(q, e) = Append(a \o q, e)
    BY <2>2, JoinAppend
  <2>4. a \o t.msgs = Append(a \o q, e)
    BY <2>2, <2>3, Zenon
  <2> QED
    BY <2>3, <2>4 DEF a, q
<1>2. Asked(t) = IF e.kind = "user" THEN Append(Asked(s), e) ELSE Asked(s)
  BY <1>1, UsersAppend DEF Asked
<1>3. ASSUME e.kind # "result", Paired(s.msgs) PROVE Paired(t.msgs)
  <2>1. s.msgs \in Seq(Entries)
    BY Fields
  <2>2. /\ Len(s.msgs) \in Nat /\ Len(t.msgs) = Len(s.msgs) + 1 /\ t.msgs[Len(s.msgs) + 1] = e
        /\ \A i \in 1..Len(s.msgs) : t.msgs[i] = s.msgs[i]
    BY <2>1
  <2> QED
    BY <1>3, <2>2 DEF Paired
<1> QED
  BY <1>2, <1>3

\* A tool result after its call.
LEMMA ResultIs ==
    ASSUME NEW q \in Seq(Entries), NEW m \in Messages, q # <<>>, q[Len(q)] = Entry("call", m), Paired(q)
    PROVE  Paired(Append(q, Entry("result", m)))
<1> DEFINE t == Append(q, Entry("result", m))
<1>1. /\ Len(q) \in Nat \ {0} /\ Len(t) = Len(q) + 1 /\ t[Len(q) + 1] = Entry("result", m)
      /\ \A i \in 1..Len(q) : t[i] = q[i]
  OBVIOUS
<1> HIDE DEF t
<1> SUFFICES ASSUME NEW i \in 1..Len(t), t[i].kind = "result"
             PROVE  i > 1 /\ t[i - 1] = Entry("call", t[i].of)
  BY DEF Paired, t
<1>2. CASE i \in 1..Len(q)
  <2>1. i > 1 /\ q[i - 1] = Entry("call", q[i].of)
    BY <1>1, <1>2 DEF Paired
  <2> QED
    BY <1>1, <1>2, <2>1
<1>3. CASE i = Len(q) + 1
  <2>1. t[i].of = m /\ i - 1 = Len(q) /\ Len(q) \in 1..Len(q)
    BY <1>1, <1>3 DEF Entry
  <2> QED
    BY <1>1, <1>3, <2>1
<1> QED
  BY <1>1, <1>2, <1>3

\* removeFunctionCalls loses no user message.
LEMMA CleanedIs ==
    ASSUME NEW s \in Session, NEW t, t = [s EXCEPT !.msgs = NoTools(@)]
    PROVE  /\ t \in Session /\ Asked(t) = Asked(s) /\ Paired(t.msgs)
           /\ t.msgSeq = s.msgSeq /\ t.fileSeq = s.fileSeq
<1>1. s.msgs \in Seq(Entries) /\ s.archived \in Seq(Entries)
  BY Fields
<1>2. NoTools(s.msgs) \in Seq(Entries)
  BY <1>1, KeptType DEF NoTools
<1>3. /\ t \in Session /\ t.msgs = NoTools(s.msgs) /\ t.archived = s.archived
      /\ t.msgSeq = s.msgSeq /\ t.fileSeq = s.fileSeq
  BY <1>2 DEF Session, Entries
<1>4. Asked(t) = Asked(s)
  <2>1. /\ Asked(t) = Users(s.archived) \o Users(NoTools(s.msgs))
        /\ Asked(s) = Users(s.archived) \o Users(s.msgs)
    <3> DEFINE a == s.archived
               q == s.msgs
               n == NoTools(s.msgs)
    <3>1. a \in Seq(Entries) /\ q \in Seq(Entries) /\ n \in Seq(Entries)
      BY <1>1, <1>2
    <3>2. Asked(t) = Users(a \o n) /\ Asked(s) = Users(a \o q)
      BY <1>3 DEF Asked
    <3> HIDE DEF a, q, n
    <3>3. Asked(t) = Users(a) \o Users(n) /\ Asked(s) = Users(a) \o Users(q)
      BY <3>1, <3>2, UsersJoin
    <3> QED
      BY <3>3 DEF a, q, n
  <2>2. Users(NoTools(s.msgs)) = Users(s.msgs)
    BY <1>1, KeptKept DEF Users, NoTools
  <2> QED
    BY <2>1, <2>2
<1>5. Paired(t.msgs)
  <2>1. \A i \in 1..Len(t.msgs) : t.msgs[i].kind \in {"user", "reply"}
    BY <1>1, <1>3, KeptType DEF NoTools
  <2> QED
    BY <2>1 DEF Paired
<1> QED
  BY <1>3, <1>4, <1>5

\* summarizeSession moves the older messages to the archive and loses none.
LEMMA SummarizedIs ==
    ASSUME NEW s \in Session, NEW t, t = Summarized(s)
    PROVE  /\ t \in Session /\ Asked(t) = Asked(s)
           /\ Paired(s.msgs) => Paired(t.msgs)
           /\ t.msgSeq = s.msgSeq /\ t.fileSeq = s.fileSeq
<1> DEFINE q == s.msgs
           cut == Cut(s.msgs)
           before == SubSeq(q, 1, cut)
           after == SubSeq(q, cut + 1, Len(q))
<1>1. q \in Seq(Entries) /\ s.archived \in Seq(Entries) /\ Len(q) \in Nat
  BY Fields
<1>2. cut \in 0..Len(q) /\ (cut = 0 \/ cut = Len(q) \/ q[cut + 1].kind # "result")
  BY <1>1, CutIs
<1>3. /\ before \in Seq(Entries) /\ after \in Seq(Entries) /\ Len(after) = Len(q) - cut
      /\ \A i \in 1..Len(after) : after[i] = q[cut + i]
  <2> HIDE DEF q, cut
  <2> QED
    BY <1>1, <1>2
<1>4. /\ s.archived \o before \in Seq(Entries)
      /\ (s.archived \o before) \o after = s.archived \o q
  BY <1>1, <1>2, CutAndJoined
<1>5. /\ t.msgs = after /\ t.archived = s.archived \o before
      /\ t.msgSeq = s.msgSeq /\ t.fileSeq = s.fileSeq
  BY DEF Summarized, Session
<1>6. t \in Session
  BY <1>3, <1>4 DEF Summarized, Session, Entries
<1>7. Asked(t) = Asked(s)
  BY <1>4, <1>5 DEF Asked
<1>8. ASSUME Paired(q) PROVE Paired(after)
  <2> HIDE DEF q, cut, before, after
  <2> SUFFICES ASSUME NEW i \in 1..Len(after), after[i].kind = "result"
               PROVE  i > 1 /\ after[i - 1] = Entry("call", after[i].of)
    BY DEF Paired
  <2>1. PICK k \in 1..Len(q) : k = cut + i /\ q[k] = after[i]
    BY <1>1, <1>2, <1>3
  <2>2. k > 1 /\ q[k - 1] = Entry("call", after[i].of)
    BY <1>8, <2>1 DEF Paired
  <2>3. i # 1
    BY <1>1, <1>2, <1>3, <2>1, <2>2
  <2>4. i - 1 \in 1..Len(after) /\ cut + (i - 1) = k - 1
    <3>1. cut \in Nat /\ Len(after) \in Nat
      BY <1>1, <1>2, <1>3
    <3>2. k = cut + i
      BY <2>1
    <3> QED
      BY <2>3, <3>1, <3>2
  <2>5. after[i - 1] = q[k - 1]
    BY <1>3, <2>4
  <2> QED
    BY <2>2, <2>4, <2>5
<1> QED
  BY <1>5, <1>6, <1>7, <1>8

-----------------------------------------------------------------------------
(* Types.                                                                  *)

Calling == {"thinking", "tool", "saving", "closing"}

Rows == session \in Session /\ copy \in Session /\ sumCopy \in Session

\* Numbers and sets: an iteration is counted only while the model is being called, and only
\* one who holds a copy is out of date.
Numbers ==
    /\ rowIds \subseteq Nat /\ rowsPut \in Nat /\ fileIds \subseteq Nat /\ filesPut \in Nat
    /\ openRow \subseteq Nodes
    /\ calls \in 0..MaxIterations
    /\ IF stage \in Calling THEN calls < MaxIterations ELSE calls = 0
    /\ stale \subseteq Holders /\ lostUpdate \in BOOLEAN

Others ==
    /\ inProgress \in BOOLEAN /\ Len(queue) <= QueueCap
    /\ sumPc \in {"idle", "listed", "thinking"}
    /\ ahead \in [Messages -> SUBSET Messages]
    /\ summaries \in 0..MaxSummaries /\ uploads \in 0..MaxUploads

LEMMA BodyIs == ASSUME IInv, stage # "none" PROVE body \in Messages
  BY DEF IInv, Turns

LEMMA EntryIs ==
    ASSUME NEW kind \in Kinds, NEW m \in Messages
    PROVE  /\ Entry(kind, m) \in Entries /\ Entry(kind, m).kind = kind /\ Entry(kind, m).of = m
  BY DEF Entry, Entries

\* The rows that the turn, a tool and an upload make are sessions.
LEMMA MadeIs ==
    ASSUME NEW s \in Session, NEW e \in Entries
    PROVE  /\ [s EXCEPT !.msgs = Append(@, e)] \in Session
           /\ [s EXCEPT !.msgs = Append(@, e), !.msgSeq = @ + 1] \in Session
<1>1. Append(s.msgs, e) \in Seq(Entries) /\ s.msgSeq + 1 \in Nat
  BY Fields
<1> QED
  BY <1>1 DEF Session, Entries

LEMMA TouchedIs ==
    ASSUME NEW s \in Session
    PROVE  /\ [s EXCEPT !.fileSeq = @ + 1] \in Session
           /\ \A n \in Nodes : /\ [s EXCEPT !.opened = @ \cup {n}] \in Session
                               /\ [s EXCEPT !.opened = @ \ {n}] \in Session
<1>1. [s EXCEPT !.fileSeq = @ + 1] \in Session
  <2>1. s.fileSeq + 1 \in Nat
    BY Fields
  <2> QED
    BY <2>1 DEF Session
<1>2. ASSUME NEW n \in Nodes
      PROVE  [s EXCEPT !.opened = @ \cup {n}] \in Session /\ [s EXCEPT !.opened = @ \ {n}] \in Session
  <2>1. s.opened \cup {n} \in SUBSET Nodes /\ s.opened \ {n} \in SUBSET Nodes
    BY DEF Session
  <2> QED
    BY <2>1 DEF Session
<1> QED
  BY <1>1, <1>2

LEMMA RowsStep == ASSUME IInv, Rows, [Next]_vars PROVE Rows'
<1> USE DEF storeVars, guardVars, turnVars, sumVars, orderVars, raceVars, boundVars, fileVars
<1>0. NewSession \in Session
  BY NewIs
<1>1. CASE Fetch \/ SumFetch \/ SumFail
  BY <1>0, <1>1 DEF Fetch, SumFetch, SumFail, Rows
<1>2. CASE Clean
  <2>1. session' = [copy EXCEPT !.msgs = NoTools(@)] /\ copy' = NewSession /\ UNCHANGED sumCopy
    BY <1>2 DEF Clean, Put
  <2>2. session' \in Session
    BY <2>1, CleanedIs DEF Rows
  <2> QED
    BY <1>0, <2>1, <2>2 DEF Rows
<1>3. CASE AppendUser
  <2>1. /\ session' = [copy EXCEPT !.msgs = Append(@, Entry("user", body)), !.msgSeq = @ + 1]
        /\ copy' = NewSession /\ UNCHANGED sumCopy
    BY <1>3 DEF AppendUser, Put
  <2>2. Entry("user", body) \in Entries
    BY <1>3, BodyIs, EntryIs DEF AppendUser, Kinds
  <2> QED
    BY <1>0, <2>1, <2>2, MadeIs DEF Rows
<1>4. CASE Think
  <2>1. PICK answer \in {"reply", "call"} :
           copy' = [copy EXCEPT !.msgs = Append(@, Entry(answer, body)), !.msgSeq = @ + 1]
    BY <1>4 DEF Think
  <2>2. Entry(answer, body) \in Entries
    BY <1>4, BodyIs, EntryIs DEF Think, Kinds
  <2>3. UNCHANGED <<session, sumCopy>>
    BY <1>4 DEF Think
  <2> QED
    BY <2>1, <2>2, <2>3, MadeIs DEF Rows
<1>5. CASE Tool
  <2>1. /\ copy' = [copy EXCEPT !.msgs = Append(@, Entry("result", body))]
        /\ session' = session \/ session' = [session EXCEPT !.fileSeq = @ + 1]
        /\ UNCHANGED sumCopy
    BY <1>5 DEF Tool, RecordFile, Put
  <2>2. Entry("result", body) \in Entries
    BY <1>5, BodyIs, EntryIs DEF Tool, Kinds
  <2> QED
    BY <2>1, <2>2, MadeIs, TouchedIs DEF Rows
<1>6. ASSUME NEW n \in Nodes, UseNode(n) PROVE Rows'
  <2>1. /\ \/ session' = session
           \/ session' = [session EXCEPT !.opened = @ \cup {n}]
           \/ session' = [session EXCEPT !.opened = @ \ {n}]
        /\ UNCHANGED <<copy, sumCopy>>
    BY <1>6 DEF UseNode, OpenFile, CloseFile, Put
  <2> QED
    BY <2>1, TouchedIs DEF Rows
<1>7. CASE Save \/ Close
  BY <1>0, <1>7 DEF Save, Close, Return, Put, Rows
<1>8. CASE Stop
  BY <1>0, <1>8 DEF Stop, Return, Rows
<1>9. CASE SumPut
  <2>1. session' = Summarized(sumCopy) /\ sumCopy' = NewSession /\ UNCHANGED copy
    BY <1>9 DEF SumPut, Put
  <2>2. session' \in Session
    BY <2>1, SummarizedIs DEF Rows
  <2> QED
    BY <1>0, <2>1, <2>2 DEF Rows
<1>10. CASE Upload
  <2>1. session' = [session EXCEPT !.fileSeq = @ + 1] /\ UNCHANGED <<copy, sumCopy>>
    BY <1>10 DEF Upload, RecordFile, Put
  <2> QED
    BY <2>1, TouchedIs DEF Rows
<1>11. CASE \/ \E m \in Messages : Send(m) \/ Enqueue(m) \/ GiveUp(m) \/ Begin(m)
            \/ Drain \/ NextDrained \/ Leave \/ Select \/ UNCHANGED vars
  BY <1>11 DEF Send, Enqueue, GiveUp, Begin, Drain, NextDrained, Leave, Select, vars, Rows
<1> QED
  BY <1>1, <1>2, <1>3, <1>4, <1>5, <1>6, <1>7, <1>8, <1>9, <1>10, <1>11 DEF Next, TurnStep, SumStep

LEMMA NumbersStep == ASSUME IInv, Rows, Numbers, [Next]_vars PROVE Numbers'
<1> USE DEF storeVars, guardVars, turnVars, sumVars, orderVars, raceVars, boundVars, fileVars, Holders, Calling
<1>0. MaxIterations \in Nat \ {0} /\ session.msgSeq \in Nat /\ copy.msgSeq \in Nat /\ session.fileSeq \in Nat
  BY ConstantsAssumption, Fields DEF Rows
<1>1. CASE Fetch
  BY <1>0, <1>1 DEF Fetch, Numbers
<1>2. CASE Clean
  BY <1>0, <1>2 DEF Clean, Put, Numbers
<1>3. CASE AppendUser
  BY <1>0, <1>3 DEF AppendUser, Put, PutRow, Numbers
<1>4. CASE Think
  BY <1>0, <1>4 DEF Think, PutRow, Numbers
<1>5. CASE Tool
  BY <1>0, <1>5 DEF Tool, RecordFile, Put, Numbers
<1>6. ASSUME NEW n \in Nodes, UseNode(n) PROVE Numbers'
  BY <1>0, <1>6 DEF UseNode, OpenFile, CloseFile, Put, Numbers
<1>7. CASE Save \/ Close
  <2>1. UNCHANGED <<rowIds, rowsPut, fileIds, filesPut, openRow>> /\ UNCHANGED sumPc
    BY <1>7 DEF Save, Close
  <2>2. stage \in Calling /\ calls \in Nat /\ calls < MaxIterations
    <3>1. stage \in Calling
      BY <1>7 DEF Save, Close
    <3>2. calls \in 0..MaxIterations /\ calls < MaxIterations
      BY <3>1 DEF Numbers
    <3> QED
      BY <1>0, <3>1, <3>2
  <2>3. \/ calls' = calls + 1 /\ stage' = "thinking" /\ calls + 1 < MaxIterations
        \/ calls' = 0 /\ stage' \in {"next", "drain", "leave"}
    BY <1>7 DEF Save, Close, Return, AfterBody
  <2>4. calls' \in 0..MaxIterations /\ IF stage' \in Calling THEN calls' < MaxIterations ELSE calls' = 0
    BY <1>0, <2>2, <2>3
  <2>5. stale' = Holders \ {"turn"} /\ lostUpdate' = (lostUpdate \/ "turn" \in stale)
    BY <1>7 DEF Save, Close, Put
  <2>6. stale' \subseteq Holders'
    BY <2>1, <2>5
  <2>7. lostUpdate' \in BOOLEAN
    BY <2>5
  <2> QED
    BY <2>1, <2>4, <2>6, <2>7 DEF Numbers
<1>8. CASE Stop
  BY <1>0, <1>8 DEF Stop, Return, AfterBody, Numbers
<1>9. CASE SumPut
  BY <1>0, <1>9 DEF SumPut, Put, Numbers
<1>10. CASE Upload
  BY <1>0, <1>10 DEF Upload, RecordFile, Put, Numbers
<1>11. ASSUME NEW m \in Messages, Send(m) \/ Enqueue(m) \/ GiveUp(m) \/ Begin(m) PROVE Numbers'
  BY <1>0, <1>11 DEF Send, Enqueue, GiveUp, Begin, Idle, IInv, Turns, Numbers
<1>12. CASE Drain \/ NextDrained \/ Leave
  BY <1>0, <1>12 DEF Drain, NextDrained, Leave, Numbers
<1>13. CASE Select \/ SumFetch \/ SumFail \/ UNCHANGED vars
  BY <1>0, <1>13 DEF Select, SumFetch, SumFail, vars, Numbers
<1> QED
  BY <1>1, <1>2, <1>3, <1>4, <1>5, <1>6, <1>7, <1>8, <1>9, <1>10, <1>11, <1>12, <1>13
  DEF Next, TurnStep, SumStep

LEMMA OthersStep == ASSUME IInv, Others, [Next]_vars PROVE Others'
<1> USE DEF storeVars, guardVars, turnVars, sumVars, orderVars, raceVars, boundVars, fileVars
<1>0. queue \in Seq(Messages) /\ acked \in Seq(Messages) /\ QueueCap \in Nat
      /\ MaxSummaries \in Nat /\ MaxUploads \in Nat
  BY ConstantsAssumption DEF IInv, Types
<1>1. ASSUME NEW m \in Messages, Send(m) PROVE Others'
  <2>1. Range(acked) \ Range(begun) \in SUBSET Messages
    BY <1>0, RangeOfSeq
  <2> QED
    BY <1>1, <2>1 DEF Send, Others
<1>2. ASSUME NEW m \in Messages, Enqueue(m) PROVE Others'
  BY <1>0, <1>2 DEF Enqueue, Others
<1>3. ASSUME NEW m \in Messages, GiveUp(m) \/ Begin(m) PROVE Others'
  BY <1>3 DEF GiveUp, Begin, Others
<1>4. CASE Drain \/ NextDrained \/ Leave
  <2>1. (queue' = queue \/ queue' = <<>>) /\ inProgress' \in BOOLEAN
        /\ UNCHANGED <<sumPc, ahead, summaries, uploads>>
    BY <1>4 DEF Drain, NextDrained, Leave, Others
  <2>2. Len(queue') <= QueueCap
    BY <1>0, <2>1 DEF Others
  <2> QED
    BY <2>1, <2>2 DEF Others
<1>5. CASE SumStep
  BY <1>0, <1>5 DEF SumStep, Select, SumFetch, SumPut, SumFail, Others
<1>6. CASE Upload
  BY <1>0, <1>6 DEF Upload, Others
<1>7. ASSUME NEW n \in Nodes, UseNode(n) PROVE Others'
  BY <1>7 DEF UseNode, Others
<1>8. CASE \/ Fetch \/ Clean \/ AppendUser \/ Think \/ Tool \/ Save \/ Close \/ Stop
           \/ UNCHANGED vars
  BY <1>8 DEF Fetch, Clean, AppendUser, Think, Tool, Save, Close, Stop, vars, Others
<1> QED
  BY <1>1, <1>2, <1>3, <1>4, <1>5, <1>6, <1>7, <1>8 DEF Next, TurnStep

Typing == IInv /\ Rows /\ Numbers /\ Others

LEMMA TypingIs == Spec => []Typing
<1>1. Init => Typing
  <2> SUFFICES ASSUME Init PROVE Typing
    OBVIOUS
  <2>1. IInv
    BY InitHolds
  <2>2. Rows
    BY NewIs DEF Init, Rows
  <2>3. Numbers
    <3>1. 0 \in 0..MaxIterations
      BY ConstantsAssumption
    <3>2. stage \notin Calling /\ calls = 0
      BY DEF Init, Calling
    <3>3. rowIds \subseteq Nat /\ fileIds \subseteq Nat /\ openRow \subseteq Nodes /\ stale \subseteq Holders
      BY DEF Init
    <3>4. rowsPut \in Nat /\ filesPut \in Nat /\ lostUpdate \in BOOLEAN
      BY DEF Init
    <3> QED
      BY <3>1, <3>2, <3>3, <3>4 DEF Numbers
  <2>4. Others
    <3>1. Len(queue) <= QueueCap /\ summaries \in 0..MaxSummaries /\ uploads \in 0..MaxUploads
      BY ConstantsAssumption DEF Init
    <3>2. ahead \in [Messages -> SUBSET Messages]
      BY DEF Init
    <3> QED
      BY <3>1, <3>2 DEF Init, Others
  <2> QED
    BY <2>1, <2>2, <2>3, <2>4 DEF Typing
<1>2. Typing /\ [Next]_vars => Typing'
  BY Inductive, RowsStep, NumbersStep, OthersStep DEF Typing
<1> QED
  BY <1>1, <1>2, PTL DEF Spec

\* Every variable keeps its type; an iteration never passes MaxIterations.
THEOREM TypeCorrect == Spec => []TypeOK
<1>1. Typing => TypeOK
  <2> SUFFICES ASSUME Typing PROVE TypeOK
    OBVIOUS
  <2>1. stale \subseteq {"turn", "summary"}
    BY DEF Typing, Numbers, Holders
  <2> QED
    BY <2>1 DEF Typing, IInv, Types, Rows, Numbers, Others, TypeOK
<1> QED
  BY <1>1, TypingIs, PTL

-----------------------------------------------------------------------------
(* What a step makes of the rows.                                          *)

Same(s, t) == t.msgs = s.msgs /\ t.archived = s.archived /\ t.msgSeq = s.msgSeq

\* Only five steps change the messages of the session, and only two those of a copy.
LEMMA RowMoves ==
    ASSUME Rows, [Next]_vars
    PROVE  /\ Clean \/ AppendUser \/ Save \/ Close \/ SumPut \/ Same(session, session')
           /\ Think \/ Tool \/ copy' \in {copy, session, NewSession}
           /\ sumCopy' \in {sumCopy, session, NewSession}
           /\ AppendUser \/ begun' = begun
           /\ stage' = "tool" => Think \/ (stage = "tool" /\ UNCHANGED <<copy, body>>)
<1> USE DEF storeVars, guardVars, turnVars, sumVars, orderVars, raceVars, boundVars, fileVars
<1> DEFINE Goal == /\ Clean \/ AppendUser \/ Save \/ Close \/ SumPut \/ Same(session, session')
                   /\ Think \/ Tool \/ copy' \in {copy, session, NewSession}
                   /\ sumCopy' \in {sumCopy, session, NewSession}
                   /\ AppendUser \/ begun' = begun
                   /\ stage' = "tool" => Think \/ (stage = "tool" /\ UNCHANGED <<copy, body>>)
<1>0. /\ Same(session, session)
      /\ Same(session, [session EXCEPT !.fileSeq = @ + 1])
      /\ \A n \in Nodes : /\ Same(session, [session EXCEPT !.opened = @ \cup {n}])
                          /\ Same(session, [session EXCEPT !.opened = @ \ {n}])
  BY DEF Same, Rows, Session
<1>1. CASE Fetch
  BY <1>0, <1>1 DEF Fetch
<1>2. CASE Clean \/ AppendUser
  BY <1>2 DEF Clean, AppendUser
<1>3. CASE Think
  BY <1>0, <1>3 DEF Think
<1>4. CASE Tool
  <2>1. session' = session \/ session' = [session EXCEPT !.fileSeq = @ + 1]
    BY <1>4 DEF Tool, RecordFile, Put
  <2>2. Same(session, session')
    BY <1>0, <2>1
  <2> QED
    BY <1>4, <2>2 DEF Tool
<1>5. CASE Save
  BY <1>5 DEF Save, Return, AfterBody
<1>6. CASE Close
  BY <1>6 DEF Close, Return, AfterBody
<1>7. CASE Stop
  BY <1>0, <1>7 DEF Stop, Return, AfterBody
<1>8. CASE Drain \/ NextDrained \/ Leave
  BY <1>0, <1>8 DEF Drain, NextDrained, Leave
<1>9. CASE SumPut
  BY <1>9 DEF SumPut
<1>10. CASE Select \/ SumFetch \/ SumFail \/ UNCHANGED vars
  BY <1>0, <1>10 DEF Select, SumFetch, SumFail, vars
<1>11. CASE Upload
  <2>1. Same(session, session')
    BY <1>0, <1>11 DEF Upload, RecordFile, Put
  <2> QED
    BY <1>11, <2>1 DEF Upload
<1>12. ASSUME NEW n \in Nodes, UseNode(n) PROVE Goal
  <2>1. Same(session, session')
    BY <1>0, <1>12 DEF UseNode, OpenFile, CloseFile, Put
  <2> QED
    BY <1>12, <2>1 DEF UseNode
<1>13. ASSUME NEW m \in Messages, Send(m) \/ Enqueue(m) \/ GiveUp(m) \/ Begin(m) PROVE Goal
  BY <1>0, <1>13 DEF Send, Enqueue, GiveUp, Begin
<1> QED
  BY <1>1, <1>2, <1>3, <1>4, <1>5, <1>6, <1>7, <1>8, <1>9, <1>10, <1>11, <1>12, <1>13
  DEF Next, TurnStep, SumStep

LEMMA SameIs ==
    ASSUME NEW s, NEW t, Same(s, t)
    PROVE  Asked(t) = Asked(s) /\ (Paired(s.msgs) <=> Paired(t.msgs))
  BY DEF Same, Asked

\* What the steps that change a history put: a cleaned copy, a copy with the user's message,
\* the copy, a summarized copy.
LEMMA PutIs ==
    /\ Clean => session' = [copy EXCEPT !.msgs = NoTools(@)]
    /\ AppendUser => session' = [copy EXCEPT !.msgs = Append(@, Entry("user", body)), !.msgSeq = @ + 1]
    /\ Save \/ Close => session' = copy
    /\ SumPut => session' = Summarized(sumCopy)
  BY DEF Clean, AppendUser, Save, Close, SumPut, Put

\* What the user's message, and an answer, add to a copy.
LEMMA UserAdded ==
    ASSUME Typing, AppendUser
    PROVE  /\ body \in Messages /\ session' \in Session /\ Entry("user", body).of = body
           /\ Asked(session') = Append(Asked(copy), Entry("user", body))
           /\ Paired(copy.msgs) => Paired(session'.msgs)
           /\ session'.msgSeq = copy.msgSeq + 1 /\ session'.fileSeq = copy.fileSeq
<1> DEFINE e == Entry("user", body)
<1>1. body \in Messages /\ e \in Entries /\ e.kind = "user" /\ e.of = body /\ copy \in Session
  BY BodyIs, EntryIs DEF Typing, Rows, AppendUser, Kinds
<1> HIDE DEF e
<1> DEFINE t == [copy EXCEPT !.msgs = Append(@, e), !.msgSeq = @ + 1]
<1>2. session' = t
  BY PutIs DEF e
<1>3. t \in Session
  BY <1>1, MadeIs
<1>4. t.msgs = Append(copy.msgs, e) /\ t.archived = copy.archived
      /\ t.msgSeq = copy.msgSeq + 1 /\ t.fileSeq = copy.fileSeq
  BY <1>1 DEF Session
<1> HIDE DEF t
<1>5. Asked(t) = Append(Asked(copy), e) /\ (Paired(copy.msgs) => Paired(t.msgs))
  BY <1>1, <1>3, <1>4, AddedIs
<1> QED
  BY <1>1, <1>2, <1>3, <1>4, <1>5 DEF e

LEMMA AnswerAdded ==
    ASSUME Typing, Think
    PROVE  /\ body \in Messages /\ copy' \in Session /\ Asked(copy') = Asked(copy)
           /\ Paired(copy.msgs) => Paired(copy'.msgs)
           /\ stage' = "tool" => copy'.msgs # <<>> /\ copy'.msgs[Len(copy'.msgs)] = Entry("call", body)
           /\ copy'.msgSeq = copy.msgSeq + 1 /\ copy'.fileSeq = copy.fileSeq
<1>1. PICK answer \in {"reply", "call"} :
         /\ copy' = [copy EXCEPT !.msgs = Append(@, Entry(answer, body)), !.msgSeq = @ + 1]
         /\ stage' = IF answer = "reply" THEN "closing" ELSE "tool"
  BY DEF Think
<1> DEFINE e == Entry(answer, body)
<1>2. body \in Messages /\ e \in Entries /\ e.kind = answer /\ copy \in Session
  BY BodyIs, EntryIs DEF Typing, Rows, Think, Kinds
<1>3. copy' = [copy EXCEPT !.msgs = Append(@, e), !.msgSeq = @ + 1] /\ (stage' = "tool" => e = Entry("call", body))
  BY <1>1
<1> HIDE DEF e
<1> DEFINE t == [copy EXCEPT !.msgs = Append(@, e), !.msgSeq = @ + 1]
<1>4. t \in Session
  BY <1>2, MadeIs
<1>5. t.msgs = Append(copy.msgs, e) /\ t.archived = copy.archived
      /\ t.msgSeq = copy.msgSeq + 1 /\ t.fileSeq = copy.fileSeq
  BY <1>2 DEF Session
<1>6. copy' = t
  BY <1>3
<1> HIDE DEF t
<1>7. Asked(t) = Asked(copy) /\ (Paired(copy.msgs) => Paired(t.msgs))
  BY <1>2, <1>4, <1>5, AddedIs
<1>8. t.msgs # <<>> /\ t.msgs[Len(t.msgs)] = e
  <2> DEFINE q == copy.msgs
  <2>1. q \in Seq(Entries) /\ t.msgs = Append(q, e)
    BY <1>2, <1>5, Fields
  <2> HIDE DEF q
  <2> QED
    BY <1>2, <2>1
<1> QED
  BY <1>2, <1>3, <1>4, <1>5, <1>6, <1>7, <1>8

LEMMA ResultAdded ==
    ASSUME Typing, Tool
    PROVE  /\ body \in Messages /\ copy' \in Session /\ Asked(copy') = Asked(copy)
           /\ copy'.msgs = Append(copy.msgs, Entry("result", body))
           /\ copy'.msgSeq = copy.msgSeq /\ copy'.fileSeq = copy.fileSeq
<1> DEFINE e == Entry("result", body)
<1>1. body \in Messages /\ e \in Entries /\ e.kind = "result" /\ copy \in Session
  BY BodyIs, EntryIs DEF Typing, Rows, Tool, Kinds
<1>2. copy' = [copy EXCEPT !.msgs = Append(@, e)]
  BY DEF Tool
<1> HIDE DEF e
<1> DEFINE t == [copy EXCEPT !.msgs = Append(@, e)]
<1>3. t \in Session
  BY <1>1, MadeIs
<1>4. t.msgs = Append(copy.msgs, e) /\ t.archived = copy.archived
      /\ t.msgSeq = copy.msgSeq /\ t.fileSeq = copy.fileSeq
  BY <1>1 DEF Session
<1>5. copy' = t
  BY <1>2
<1> HIDE DEF t
<1>6. Asked(t) = Asked(copy)
  BY <1>1, <1>3, <1>4, AddedIs
<1> QED
  BY <1>1, <1>3, <1>4, <1>5, <1>6 DEF e

-----------------------------------------------------------------------------
(* Tool results follow their calls.                                        *)

\* The copies as well as the row, and the call that a tool is about to answer is the last
\* entry of the turn's copy.
Pairs ==
    /\ Paired(session.msgs) /\ Paired(copy.msgs) /\ Paired(sumCopy.msgs)
    /\ stage = "tool" => copy.msgs # <<>> /\ copy.msgs[Len(copy.msgs)] = Entry("call", body)

LEMMA PairsStep == ASSUME Typing, Pairs, [Next]_vars PROVE Pairs'
<1>0. Rows /\ session \in Session /\ copy \in Session /\ sumCopy \in Session
  BY DEF Typing, Rows
<1>1. Paired(session'.msgs)
  <2>1. CASE Clean
    BY <1>0, <2>1, PutIs, CleanedIs
  <2>2. CASE AppendUser
    BY <2>2, UserAdded DEF Pairs
  <2>3. CASE Save \/ Close
    BY <2>3, PutIs DEF Pairs
  <2>4. CASE SumPut
    BY <1>0, <2>4, PutIs, SummarizedIs DEF Pairs
  <2>5. CASE Same(session, session')
    BY <2>5, SameIs DEF Pairs
  <2> QED
    BY <1>0, <2>1, <2>2, <2>3, <2>4, <2>5, RowMoves
<1>2. Paired(copy'.msgs)
  <2>1. CASE Think
    BY <2>1, AnswerAdded DEF Pairs
  <2>2. CASE Tool
    <3>1. stage = "tool" /\ copy.msgs \in Seq(Entries)
      BY <1>0, <2>2, Fields DEF Tool
    <3> DEFINE q == copy.msgs
    <3>2. q \in Seq(Entries) /\ Paired(q) /\ q # <<>> /\ q[Len(q)] = Entry("call", body)
      BY <3>1 DEF Pairs
    <3>3. body \in Messages /\ copy'.msgs = Append(q, Entry("result", body))
      BY <2>2, ResultAdded
    <3> HIDE DEF q
    <3> QED
      BY <3>2, <3>3, ResultIs
  <2>3. CASE copy' \in {copy, session, NewSession}
    BY <2>3, NewIs DEF Pairs
  <2> QED
    BY <1>0, <2>1, <2>2, <2>3, RowMoves
<1>3. Paired(sumCopy'.msgs)
  BY <1>0, RowMoves, NewIs DEF Pairs
<1>4. ASSUME stage' = "tool"
      PROVE  copy'.msgs # <<>> /\ copy'.msgs[Len(copy'.msgs)] = Entry("call", body')
  <2>1. CASE Think
    <3>1. body' = body
      BY <2>1 DEF Think
    <3> QED
      BY <1>4, <2>1, <3>1, AnswerAdded
  <2>2. CASE stage = "tool" /\ UNCHANGED <<copy, body>>
    BY <2>2 DEF Pairs
  <2> QED
    BY <1>0, <1>4, <2>1, <2>2, RowMoves
<1> QED
  BY <1>1, <1>2, <1>3, <1>4 DEF Pairs

\* However turns fail, the window is cut and the session is cleaned, a tool result in the
\* active window follows its call.
THEOREM ResultsFollowCalls == Spec => []ToolResultsPaired
<1>1. Init => Pairs
  BY NewIs DEF Init, Pairs
<1>2. Typing /\ Pairs /\ [Next]_vars => Pairs'
  BY PairsStep
<1>3. Typing /\ Pairs => ToolResultsPaired
  <2> SUFFICES ASSUME Typing, Pairs PROVE ToolResultsPaired
    OBVIOUS
  <2>1. session.msgs \in Seq(Entries)
    BY Fields DEF Typing, Rows
  <2>2. DOMAIN session.msgs = 1..Len(session.msgs)
    BY <2>1
  <2> QED
    BY <2>2 DEF Pairs, Paired, ToolResultsPaired
<1> QED
  BY <1>1, <1>2, <1>3, TypingIs, PTL DEF Spec

-----------------------------------------------------------------------------
(* A history is in the order in which the messages were handled.           *)

Follows(q, b) ==
    /\ \A i \in 1..Len(q) : \E x \in 1..Len(b) : b[x] = q[i].of
    /\ \A i, j \in 1..Len(q) : i < j =>
          \E x, y \in 1..Len(b) : x < y /\ b[x] = q[i].of /\ b[y] = q[j].of

LEMMA AskedType == ASSUME NEW s \in Session PROVE Asked(s) \in Seq(Entries)
<1>1. s.archived \in Seq(Entries) /\ s.msgs \in Seq(Entries)
  BY Fields
<1>2. s.archived \o s.msgs \in Seq(Entries)
  BY <1>1, ConcatProperties
<1> QED
  BY <1>2, KeptType DEF Asked, Users

LEMMA FollowsGrows ==
    ASSUME NEW q \in Seq(Entries), NEW b \in Seq(Messages), NEW m \in Messages, Follows(q, b)
    PROVE  Follows(q, Append(b, m))
<1> DEFINE c == Append(b, m)
<1>1. /\ Len(b) \in Nat /\ Len(c) = Len(b) + 1
      /\ \A x \in 1..Len(b) : c[x] = b[x] /\ x \in 1..Len(c)
  OBVIOUS
<1> HIDE DEF c
<1>2. ASSUME NEW i \in 1..Len(q) PROVE \E x \in 1..Len(c) : c[x] = q[i].of
  BY <1>1 DEF Follows
<1>3. ASSUME NEW i \in 1..Len(q), NEW j \in 1..Len(q), i < j
      PROVE  \E x, y \in 1..Len(c) : x < y /\ c[x] = q[i].of /\ c[y] = q[j].of
  <2>1. PICK x, y \in 1..Len(b) : x < y /\ b[x] = q[i].of /\ b[y] = q[j].of
    BY <1>3 DEF Follows
  <2> QED
    BY <1>1, <2>1
<1>4. Follows(q, c)
  BY <1>2, <1>3 DEF Follows
<1> QED
  BY <1>4 DEF c

\* A message joins the history as it is handled.
LEMMA FollowsAppend ==
    ASSUME NEW q \in Seq(Entries), NEW b \in Seq(Messages), NEW e \in Entries, Follows(q, b)
    PROVE  Follows(Append(q, e), Append(b, e.of))
<1> DEFINE r == Append(q, e)
           m == e.of
           c == Append(b, m)
<1>0. m \in Messages
  BY DEF Entries
<1>1. /\ Len(q) \in Nat /\ Len(r) = Len(q) + 1 /\ r[Len(r)] = e
      /\ \A i \in 1..Len(q) : r[i] = q[i]
  OBVIOUS
<1>2. /\ Len(b) \in Nat /\ Len(c) = Len(b) + 1 /\ c[Len(c)] = m
      /\ \A x \in 1..Len(b) : c[x] = b[x] /\ x \in 1..Len(c)
  <2> HIDE DEF m
  <2> QED
    BY <1>0
<1>3. r[Len(r)].of = m
  BY <1>1
<1> HIDE DEF r, m, c
<1>4. ASSUME NEW i \in 1..Len(r) PROVE \E x \in 1..Len(c) : c[x] = r[i].of
  <2>1. CASE i \in 1..Len(q)
    <3>1. PICK x \in 1..Len(b) : b[x] = q[i].of
      BY <2>1 DEF Follows
    <3> QED
      BY <1>1, <1>2, <2>1, <3>1
  <2>2. CASE i = Len(r)
    <3>1. Len(c) \in 1..Len(c)
      BY <1>2
    <3> QED
      BY <1>2, <1>3, <2>2, <3>1
  <2> QED
    BY <1>1, <2>1, <2>2
<1>5. ASSUME NEW i \in 1..Len(r), NEW j \in 1..Len(r), i < j
      PROVE  \E x, y \in 1..Len(c) : x < y /\ c[x] = r[i].of /\ c[y] = r[j].of
  <2>0. i \in 1..Len(q)
    BY <1>1, <1>5
  <2>1. CASE j \in 1..Len(q)
    <3>1. PICK x, y \in 1..Len(b) : x < y /\ b[x] = q[i].of /\ b[y] = q[j].of
      BY <1>5, <2>0, <2>1 DEF Follows
    <3> QED
      BY <1>1, <1>2, <2>0, <2>1, <3>1
  <2>2. CASE j = Len(r)
    <3>1. PICK x \in 1..Len(b) : b[x] = q[i].of
      BY <2>0 DEF Follows
    <3>2. x \in 1..Len(c) /\ Len(c) \in 1..Len(c) /\ x < Len(c) /\ c[x] = r[i].of /\ c[Len(c)] = r[j].of
      BY <1>1, <1>2, <1>3, <2>0, <2>2, <3>1
    <3> QED
      BY <3>2
  <2> QED
    BY <1>1, <2>1, <2>2
<1>6. Follows(r, c)
  BY <1>4, <1>5 DEF Follows
<1> QED
  BY <1>6 DEF r, m, c

\* Not only the row but the copies too, which are put back one day.
Orders ==
    Follows(Asked(session), begun) /\ Follows(Asked(copy), begun) /\ Follows(Asked(sumCopy), begun)

LEMMA OrdersStep == ASSUME Typing, Orders, [Next]_vars PROVE Orders'
<1>0. /\ Rows /\ session \in Session /\ copy \in Session /\ sumCopy \in Session
      /\ begun \in Seq(Messages) /\ NewSession \in Session
  BY NewIs DEF Typing, Rows, IInv, Types
<1>1. Follows(Asked(NewSession), begun) /\ Follows(Asked(NewSession), begun')
  BY NewIs DEF Follows
<1>2. CASE AppendUser
  <2>1. UNCHANGED sumCopy /\ copy' = NewSession /\ begun' = Append(begun, body)
    BY <1>2 DEF AppendUser, sumVars
  <2>2. body \in Messages /\ Asked(session') = Append(Asked(copy), Entry("user", body))
    BY <1>2, UserAdded
  <2>3. Entry("user", body) \in Entries /\ Entry("user", body).of = body
    BY <2>2, EntryIs DEF Kinds
  <2> DEFINE q == Asked(copy)
             e == Entry("user", body)
  <2>4. q \in Seq(Entries) /\ e \in Entries /\ Follows(q, begun) /\ e.of = body
    BY <1>0, <2>3, AskedType DEF Orders
  <2> HIDE DEF q, e
  <2>5. Follows(Append(q, e), Append(begun, e.of))
    BY <1>0, <2>4, FollowsAppend
  <2>6. Follows(Asked(session'), begun')
    BY <2>1, <2>2, <2>4, <2>5 DEF q, e
  <2>7. Follows(Asked(sumCopy), Append(begun, body))
    BY <1>0, <2>2, AskedType, FollowsGrows DEF Orders
  <2> QED
    BY <1>1, <2>1, <2>6, <2>7 DEF Orders
<1>3. CASE begun' = begun /\ ~AppendUser
  <2>1. Follows(Asked(session'), begun)
    <3>1. CASE Clean
      BY <1>0, <3>1, PutIs, CleanedIs DEF Orders
    <3>2. CASE Save \/ Close
      BY <3>2, PutIs DEF Orders
    <3>3. CASE SumPut
      BY <1>0, <3>3, PutIs, SummarizedIs DEF Orders
    <3>4. CASE Same(session, session')
      BY <3>4, SameIs DEF Orders
    <3> QED
      BY <1>0, <1>3, <3>1, <3>2, <3>3, <3>4, RowMoves
  <2>2. Follows(Asked(copy'), begun)
    <3>1. CASE Think
      BY <3>1, AnswerAdded DEF Orders
    <3>2. CASE Tool
      BY <3>2, ResultAdded DEF Orders
    <3>3. CASE copy' \in {copy, session, NewSession}
      BY <1>1, <3>3 DEF Orders
    <3> QED
      BY <1>0, <3>1, <3>2, <3>3, RowMoves
  <2>3. Follows(Asked(sumCopy'), begun)
    BY <1>0, <1>1, RowMoves DEF Orders
  <2> QED
    BY <1>3, <2>1, <2>2, <2>3 DEF Orders
<1> QED
  BY <1>0, <1>2, <1>3, RowMoves

\* Whatever copies overtake one another, the session's user messages are in the order in
\* which they were handled: a late Put may lose messages, never repeat or swap them.
THEOREM HistoryStaysInOrder == Spec => []HistoryInOrder
<1>1. Init => Orders
  BY NewIs DEF Init, Orders, Follows
<1>2. Typing /\ Orders /\ [Next]_vars => Orders'
  BY OrdersStep
<1>3. Typing /\ Orders => HistoryInOrder
  <2> SUFFICES ASSUME Typing, Orders PROVE HistoryInOrder
    OBVIOUS
  <2>1. History = Asked(session) /\ Asked(session) \in Seq(Entries) /\ begun \in Seq(Messages)
    BY AskedType DEF History, Asked, Typing, Rows, IInv, Types
  <2> DEFINE q == Asked(session)
  <2>2. q = History /\ q \in Seq(Entries) /\ Follows(q, begun)
    BY <2>1 DEF Orders
  <2> HIDE DEF q
  <2>3. DOMAIN q = 1..Len(q) /\ DOMAIN begun = 1..Len(begun)
    BY <2>1, <2>2
  <2>4. ASSUME NEW i \in DOMAIN History, NEW j \in DOMAIN History, i < j
        PROVE  \E a, b \in DOMAIN begun : a < b /\ begun[a] = History[i].of /\ begun[b] = History[j].of
    <3>1. i \in 1..Len(q) /\ j \in 1..Len(q)
      BY <2>2, <2>3
    <3>2. PICK x, y \in 1..Len(begun) : x < y /\ begun[x] = q[i].of /\ begun[y] = q[j].of
      BY <2>2, <2>4, <3>1 DEF Follows
    <3>3. x \in DOMAIN begun /\ y \in DOMAIN begun /\ q = History
      BY <2>2, <2>3
    <3> QED
      BY <3>2, <3>3, Zenon
  <2> QED
    BY <2>4 DEF HistoryInOrder
<1> QED
  BY <1>1, <1>2, <1>3, TypingIs, PTL DEF Spec

-----------------------------------------------------------------------------
(* As long as nobody put a stale copy back.                                *)

Holding  == {"cleaning", "appending"} \cup Calling   \* the turn has a copy,
Numbered == {"tool", "saving", "closing"}            \* and has numbered an answer on it

\* The session has asked what was begun, no more and no less.
AllAsked == [i \in 1..Len(Asked(session)) |-> Asked(session)[i].of] = begun

\* A copy that nobody overtook agrees with the row.
Current ==
    /\ stage \in Holding /\ "turn" \notin stale =>
          Asked(copy) = Asked(session) /\ copy.fileSeq = session.fileSeq
    /\ sumPc = "thinking" /\ "summary" \notin stale => sumCopy = session

\* The ids given so far are not above the counter that gives the next one: the copy's,
\* while it is ahead of the row's.
Counters ==
    /\ stage \in Holding \ Numbered => copy.msgSeq = session.msgSeq
    /\ \A id \in rowIds : id <= IF stage \in Numbered THEN copy.msgSeq ELSE session.msgSeq
    /\ \A id \in fileIds : id <= session.fileSeq

Counted ==
    /\ IsFiniteSet(rowIds) /\ Cardinality(rowIds) = rowsPut
    /\ IsFiniteSet(fileIds) /\ Cardinality(fileIds) = filesPut

Fresh == AllAsked /\ Current /\ Counters /\ Counted

Freshness == lostUpdate \/ Fresh

\* An id above all those given is a new one.
LEMMA OneMore ==
    ASSUME NEW S \in SUBSET Nat, NEW n \in Nat, NEW c \in Nat, IsFiniteSet(S),
           Cardinality(S) = c, \A id \in S : id <= n
    PROVE  /\ IsFiniteSet(S \cup {n + 1}) /\ Cardinality(S \cup {n + 1}) = c + 1
           /\ \A id \in S \cup {n + 1} : id <= n + 1
<1>1. n + 1 \notin S
  <2>1. ~(n + 1 <= n)
    OBVIOUS
  <2> QED
    BY <2>1
<1>2. IsFiniteSet(S \cup {n + 1}) /\ Cardinality(S \cup {n + 1}) = c + 1
  BY <1>1, FS_AddElement
<1>3. ASSUME NEW id \in S PROVE id <= n + 1
  <2>1. id \in Nat /\ id <= n
    OBVIOUS
  <2> QED
    BY <2>1
<1> QED
  BY <1>2, <1>3

LEMMA LostStaysLost == ASSUME [Next]_vars, ~lostUpdate' PROVE ~lostUpdate
  BY DEF Next, TurnStep, SumStep, Send, Enqueue, GiveUp, Begin, UseNode, OpenFile, CloseFile, Fetch,
     Clean, AppendUser, Think, Tool, Save, Close, Stop, Drain, NextDrained, Leave, Select, SumFetch,
     SumPut, SumFail, Upload, RecordFile, Put, raceVars, vars

\* What a Put leaves: who put was not overtaken, and the copies of the others are.
LEMMA FreshPut ==
    ASSUME NEW who, NEW s, Put(who, s), ~lostUpdate'
    PROVE  /\ session' = s /\ who \notin stale
           /\ stage \in Holding /\ who # "turn" => "turn" \in stale'
           /\ sumPc = "thinking" /\ who # "summary" => "summary" \in stale'
<1>1. session' = s /\ stale' = Holders \ {who} /\ who \notin stale
  BY DEF Put
<1>2. stage \in Holding => "turn" \in Holders
  BY DEF Holding, Calling, Holders
<1>3. sumPc = "thinking" => "summary" \in Holders
  BY DEF Holders
<1> QED
  BY <1>1, <1>2, <1>3

\* A file is recorded: the next id, and every copy is overtaken.
LEMMA FileRecorded ==
    ASSUME Typing, Fresh, RecordFile, ~lostUpdate', rowIds' = rowIds, rowsPut' = rowsPut
    PROVE  /\ Same(session, session') /\ Counted'
           /\ \A id \in fileIds' : id <= session'.fileSeq
           /\ stage \in Holding => "turn" \in stale'
           /\ sumPc = "thinking" => "summary" \in stale'
<1>1. Put("file", [session EXCEPT !.fileSeq = @ + 1])
  BY DEF RecordFile
<1>2. session \in Session /\ session.fileSeq \in Nat
  BY Fields DEF Typing, Rows
<1>3. session' = [session EXCEPT !.fileSeq = @ + 1]
  BY <1>1, FreshPut
<1>4. Same(session, session') /\ session'.fileSeq = session.fileSeq + 1
  BY <1>2, <1>3 DEF Same, Session
<1> DEFINE n == session.fileSeq
<1>5. /\ fileIds \in SUBSET Nat /\ filesPut \in Nat /\ n \in Nat /\ IsFiniteSet(fileIds)
      /\ Cardinality(fileIds) = filesPut /\ \A id \in fileIds : id <= n
  BY <1>2 DEF Typing, Numbers, Fresh, Counters, Counted
<1>6. fileIds' = fileIds \cup {n + 1} /\ filesPut' = filesPut + 1 /\ session'.fileSeq = n + 1
  BY <1>4 DEF RecordFile
<1> HIDE DEF n
<1>7. /\ IsFiniteSet(fileIds') /\ Cardinality(fileIds') = filesPut'
      /\ \A id \in fileIds' : id <= session'.fileSeq
  BY <1>5, <1>6, OneMore
<1>8. IsFiniteSet(rowIds') /\ Cardinality(rowIds') = rowsPut'
  BY DEF Fresh, Counted
<1> QED
  BY <1>1, <1>4, <1>7, <1>8, FreshPut DEF Counted

\* A message is numbered from a counter that is not below the ids given.
LEMMA MessageNumbered ==
    ASSUME Typing, Fresh, NEW n \in Nat, n = session.msgSeq, PutRow(n + 1), UNCHANGED <<fileIds, filesPut>>,
           stage \notin Numbered
    PROVE  Counted' /\ \A id \in rowIds' : id <= n + 1
<1>1. /\ rowIds \in SUBSET Nat /\ rowsPut \in Nat /\ IsFiniteSet(rowIds)
      /\ Cardinality(rowIds) = rowsPut /\ \A id \in rowIds : id <= n
  BY DEF Typing, Numbers, Fresh, Counters, Counted
<1>2. rowIds' = rowIds \cup {n + 1} /\ rowsPut' = rowsPut + 1
  BY DEF PutRow
<1>3. /\ IsFiniteSet(rowIds') /\ Cardinality(rowIds') = rowsPut'
      /\ \A id \in rowIds' : id <= n + 1
  BY <1>1, <1>2, OneMore
<1> QED
  BY <1>3 DEF Fresh, Counted

\* The turn puts its copy with changes that no counter sees, and gives the copy up.
LEMMA FreshClean == ASSUME Typing, Fresh, Clean, ~lostUpdate' PROVE Fresh'
<1>0. stage = "cleaning" /\ stage' = "append" /\ copy \in Session
  BY DEF Clean, Typing, Rows
<1>1. /\ "turn" \notin stale
      /\ sumPc = "thinking" => "summary" \in stale'
      /\ UNCHANGED <<begun, sumPc, rowIds, rowsPut, fileIds, filesPut>>
  BY FreshPut DEF Clean, sumVars, orderVars, fileVars
<1>2. Asked(session') = Asked(copy) /\ session'.msgSeq = copy.msgSeq /\ session'.fileSeq = copy.fileSeq
  BY <1>0, PutIs, CleanedIs
<1>3. Asked(copy) = Asked(session) /\ copy.msgSeq = session.msgSeq /\ copy.fileSeq = session.fileSeq
  BY <1>0, <1>1 DEF Fresh, Current, Counters, Holding, Numbered
<1>4. AllAsked'
  BY <1>1, <1>2, <1>3 DEF Fresh, AllAsked
<1>5. Current'
  BY <1>0, <1>1 DEF Current, Holding, Calling
<1>6. Counters'
  BY <1>0, <1>1, <1>2, <1>3 DEF Fresh, Counters, Holding, Calling, Numbered
<1>7. Counted'
  BY <1>1 DEF Fresh, Counted
<1> QED
  BY <1>4, <1>5, <1>6, <1>7 DEF Fresh

LEMMA FreshAppend == ASSUME Typing, Fresh, AppendUser, ~lostUpdate' PROVE Fresh'
<1>0. stage = "appending" /\ stage' = "load" /\ copy \in Session /\ session \in Session
  BY DEF AppendUser, Typing, Rows
<1>1. /\ "turn" \notin stale
      /\ sumPc = "thinking" => "summary" \in stale'
      /\ UNCHANGED <<sumPc, fileIds, filesPut>> /\ begun' = Append(begun, body)
      /\ PutRow(copy.msgSeq + 1)
  BY FreshPut DEF AppendUser, sumVars, fileVars
<1>2. /\ body \in Messages /\ Asked(session') = Append(Asked(copy), Entry("user", body))
      /\ Entry("user", body).of = body
      /\ session'.msgSeq = copy.msgSeq + 1 /\ session'.fileSeq = copy.fileSeq
  BY UserAdded
<1>3. Asked(copy) = Asked(session) /\ copy.msgSeq = session.msgSeq /\ copy.fileSeq = session.fileSeq
  BY <1>0, <1>1 DEF Fresh, Current, Counters, Holding, Numbered
<1>4. AllAsked'
  <2> DEFINE q == Asked(session)
             e == Entry("user", body)
  <2>1. /\ q \in Seq(Entries) /\ e \in Entries /\ e.of = body /\ Asked(session') = Append(q, e)
        /\ begun = [i \in 1..Len(q) |-> q[i].of] /\ begun \in Seq(Messages)
    BY <1>0, <1>2, <1>3, AskedType, EntryIs DEF Fresh, AllAsked, Typing, IInv, Types, Kinds
  <2> HIDE DEF q, e
  <2> DEFINE r == Append(q, e)
             b == Append(begun, body)
  <2>2. /\ Len(q) \in Nat /\ Len(r) = Len(q) + 1 /\ r[Len(q) + 1] = e
        /\ \A i \in 1..Len(q) : r[i] = q[i]
    BY <2>1
  <2>3. /\ Len(begun) = Len(q) /\ b \in Seq(Messages) /\ Len(b) = Len(q) + 1
        /\ b[Len(q) + 1] = body /\ \A i \in 1..Len(q) : b[i] = q[i].of
    BY <1>2, <2>1, <2>2
  <2>4. b = [i \in 1..Len(b) |-> b[i]]
    <3> HIDE DEF b
    <3>1. b \in [1..Len(b) -> Messages]
      BY <2>3, LenProperties
    <3> QED
      BY <3>1
  <2> HIDE DEF r, b
  <2>5. \A i \in 1..Len(r) : r[i].of = b[i]
    BY <2>1, <2>2, <2>3
  <2>6. [i \in 1..Len(r) |-> r[i].of] = b
    BY <2>2, <2>3, <2>4, <2>5
  <2>7. Asked(session') = r /\ begun' = b
    BY <1>1, <2>1 DEF r, b
  <2> QED
    BY <2>6, <2>7 DEF AllAsked
<1>5. Current'
  BY <1>0, <1>1 DEF Current, Holding, Calling
<1>6. Counted' /\ \A id \in rowIds' : id <= copy.msgSeq + 1
  <2>1. copy.msgSeq \in Nat /\ stage \notin Numbered
    BY <1>0, Fields DEF Numbered
  <2> QED
    BY <1>1, <1>3, <2>1, MessageNumbered
<1>7. Counters'
  BY <1>0, <1>1, <1>2, <1>3, <1>6 DEF Fresh, Counters, Holding, Calling, Numbered
<1> QED
  BY <1>4, <1>5, <1>6, <1>7 DEF Fresh

LEMMA FreshThink == ASSUME Typing, Fresh, Think, ~lostUpdate' PROVE Fresh'
<1>0. stage = "thinking" /\ stage' \in {"closing", "tool"} /\ copy \in Session
  BY DEF Think, Typing, Rows
<1>1. /\ UNCHANGED <<session, begun, sumPc, sumCopy, stale, fileIds, filesPut>>
      /\ PutRow(copy.msgSeq + 1)
  BY DEF Think, sumVars, fileVars, orderVars, raceVars
<1>2. Asked(copy') = Asked(copy) /\ copy'.msgSeq = copy.msgSeq + 1 /\ copy'.fileSeq = copy.fileSeq
  BY AnswerAdded
<1>3. copy.msgSeq = session.msgSeq /\ stage \in Holding /\ stage' \in Numbered
  BY <1>0 DEF Fresh, Counters, Holding, Calling, Numbered
<1>4. AllAsked'
  BY <1>1 DEF Fresh, AllAsked
<1>5. Current'
  BY <1>1, <1>2, <1>3 DEF Fresh, Current
<1>6. Counted' /\ \A id \in rowIds' : id <= copy.msgSeq + 1
  <2>1. copy.msgSeq \in Nat /\ stage \notin Numbered
    BY <1>0, Fields DEF Numbered
  <2> QED
    BY <1>1, <1>3, <2>1, MessageNumbered
<1>7. Counters'
  BY <1>1, <1>2, <1>3, <1>6 DEF Fresh, Counters
<1> QED
  BY <1>4, <1>5, <1>6, <1>7 DEF Fresh

LEMMA FreshTool == ASSUME Typing, Fresh, Tool, ~lostUpdate' PROVE Fresh'
<1>0. stage \in Numbered /\ stage \in Holding /\ stage' \in Numbered
  BY DEF Tool, Holding, Calling, Numbered
<1>1. /\ UNCHANGED <<begun, sumPc, sumCopy, rowIds, rowsPut>>
      /\ RecordFile \/ UNCHANGED <<session, fileIds, filesPut, stale>>
  BY DEF Tool, sumVars, fileVars, orderVars, raceVars
<1>2. Asked(copy') = Asked(copy) /\ copy'.msgSeq = copy.msgSeq /\ copy'.fileSeq = copy.fileSeq
  BY ResultAdded
<1>3. CASE RecordFile
  <2>1. /\ Same(session, session') /\ Counted' /\ \A id \in fileIds' : id <= session'.fileSeq
        /\ "turn" \in stale'
        /\ sumPc = "thinking" => "summary" \in stale'
    BY <1>0, <1>1, <1>3, FileRecorded
  <2>2. AllAsked'
    BY <1>1, <2>1, SameIs DEF Fresh, AllAsked
  <2>3. Current'
    BY <1>1, <2>1 DEF Current
  <2>4. Counters'
    BY <1>0, <1>1, <1>2, <2>1 DEF Fresh, Counters
  <2> QED
    BY <2>1, <2>2, <2>3, <2>4 DEF Fresh
<1>4. CASE UNCHANGED <<session, fileIds, filesPut, stale>>
  <2>1. AllAsked' /\ Counted'
    BY <1>1, <1>4 DEF Fresh, AllAsked, Counted
  <2>2. Current'
    BY <1>0, <1>1, <1>2, <1>4 DEF Fresh, Current
  <2>3. Counters'
    BY <1>0, <1>1, <1>2, <1>4 DEF Fresh, Counters
  <2> QED
    BY <2>1, <2>2, <2>3 DEF Fresh
<1> QED
  BY <1>1, <1>3, <1>4

LEMMA FreshNode == ASSUME Typing, Fresh, NEW n \in Nodes, UseNode(n), ~lostUpdate' PROVE Fresh'
<1>0. /\ stage \in Numbered /\ stage \in Holding /\ UNCHANGED stage
      /\ UNCHANGED <<begun, sumPc, sumCopy, copy, rowIds, rowsPut, fileIds, filesPut>>
  BY DEF UseNode, turnVars, sumVars, orderVars, Holding, Calling, Numbered
<1>1. CASE UNCHANGED <<session, raceVars>>
  BY <1>0, <1>1 DEF raceVars, Fresh, AllAsked, Current, Counters, Counted
<1>2. ASSUME NEW s, Put("file", s), s = [session EXCEPT !.opened = @ \cup {n}] \/ s = [session EXCEPT !.opened = @ \ {n}]
      PROVE  Fresh'
  <2>2. session' = s /\ "turn" \in stale' /\ (sumPc = "thinking" => "summary" \in stale')
    BY <1>0, <1>2, FreshPut
  <2>3. Same(session, s) /\ s.fileSeq = session.fileSeq
    BY <1>2 DEF Typing, Rows, Session, Same
  <2>4. AllAsked' /\ Counted'
    BY <1>0, <2>2, <2>3, SameIs DEF Fresh, AllAsked, Counted
  <2>5. Current'
    BY <1>0, <2>2 DEF Current
  <2>6. Counters'
    BY <1>0, <2>2, <2>3 DEF Fresh, Counters
  <2> QED
    BY <2>4, <2>5, <2>6 DEF Fresh
<1> QED
  BY <1>1, <1>2 DEF UseNode, OpenFile, CloseFile

\* The copy is put as it is.
LEMMA FreshSave == ASSUME Typing, Fresh, Save \/ Close, ~lostUpdate' PROVE Fresh'
<1>0. /\ stage \in Numbered /\ stage \in Holding /\ Put("turn", copy)
      /\ UNCHANGED <<begun, sumPc, rowIds, rowsPut, fileIds, filesPut>>
  BY DEF Save, Close, sumVars, orderVars, fileVars, Holding, Calling, Numbered
<1>1. session' = copy /\ "turn" \notin stale /\ (sumPc = "thinking" => "summary" \in stale')
  BY <1>0, FreshPut
<1>2. Asked(copy) = Asked(session) /\ copy.fileSeq = session.fileSeq
  BY <1>0, <1>1 DEF Fresh, Current
<1>3. \/ stage' = "thinking" /\ copy' = copy
      \/ stage' \in {"next", "drain", "leave"}
  BY DEF Save, Close, Return, AfterBody
<1>4. stage' \notin Numbered /\ (stage' \in Holding => copy' = copy)
  BY <1>3 DEF Holding, Calling, Numbered
<1>5. AllAsked' /\ Counted'
  BY <1>0, <1>1, <1>2 DEF Fresh, AllAsked, Counted
<1>6. Current'
  BY <1>0, <1>1, <1>4 DEF Current
<1>7. Counters'
  BY <1>0, <1>1, <1>2, <1>4 DEF Fresh, Counters
<1> QED
  BY <1>5, <1>6, <1>7 DEF Fresh

LEMMA FreshSum == ASSUME Typing, Fresh, SumPut, ~lostUpdate' PROVE Fresh'
<1>0. /\ Put("summary", Summarized(sumCopy)) /\ sumPc = "thinking" /\ sumPc' = "idle"
      /\ UNCHANGED <<begun, stage, copy, rowIds, rowsPut, fileIds, filesPut>>
  BY DEF SumPut, turnVars, orderVars, fileVars
<1>1. session' = Summarized(sumCopy) /\ "summary" \notin stale /\ (stage \in Holding => "turn" \in stale')
  BY <1>0, FreshPut
<1>2. sumCopy = session /\ session \in Session
  BY <1>0, <1>1 DEF Fresh, Current, Typing, Rows
<1>3. Asked(session') = Asked(session) /\ session'.msgSeq = session.msgSeq /\ session'.fileSeq = session.fileSeq
  BY <1>1, <1>2, SummarizedIs
<1>4. AllAsked' /\ Counted'
  BY <1>0, <1>3 DEF Fresh, AllAsked, Counted
<1>5. Current'
  BY <1>0, <1>1 DEF Current
<1>6. Counters'
  BY <1>0, <1>3 DEF Fresh, Counters
<1> QED
  BY <1>4, <1>5, <1>6 DEF Fresh

LEMMA FreshUpload == ASSUME Typing, Fresh, Upload, ~lostUpdate' PROVE Fresh'
<1>0. RecordFile /\ UNCHANGED <<begun, stage, copy, sumPc, sumCopy, rowIds, rowsPut>>
  BY DEF Upload, turnVars, sumVars, orderVars
<1>1. /\ Same(session, session') /\ Counted' /\ \A id \in fileIds' : id <= session'.fileSeq
      /\ stage \in Holding => "turn" \in stale'
      /\ sumPc = "thinking" => "summary" \in stale'
  BY <1>0, FileRecorded
<1>2. session'.msgSeq = session.msgSeq
  BY <1>1 DEF Same
<1>3. AllAsked'
  BY <1>0, <1>1, SameIs DEF Fresh, AllAsked
<1>4. Current'
  BY <1>0, <1>1 DEF Current
<1>5. Counters'
  BY <1>0, <1>1, <1>2 DEF Fresh, Counters
<1> QED
  BY <1>1, <1>3, <1>4, <1>5 DEF Fresh

\* The other steps put nothing.
LEMMA FreshQuiet ==
    ASSUME Typing, Fresh, UNCHANGED <<session, begun, rowIds, rowsPut, fileIds, filesPut>>,
           \/ UNCHANGED <<stage, copy>>
           \/ copy' = session /\ stage' \notin Numbered
           \/ stage' \notin Holding,
           UNCHANGED <<sumPc, sumCopy>> \/ sumCopy' = session \/ sumPc' # "thinking",
           stage' \in Holding /\ "turn" \in stale => "turn" \in stale',
           sumPc' = "thinking" /\ "summary" \in stale => "summary" \in stale',
           stage \in Numbered => stage' = stage
    PROVE  Fresh'
<1>1. AllAsked' /\ Counted'
  BY DEF Fresh, AllAsked, Counted
<1>2. Current'
  BY DEF Fresh, Current
<1>3. Counters'
  BY DEF Fresh, Counters, Holding, Calling, Numbered
<1> QED
  BY <1>1, <1>2, <1>3 DEF Fresh

LEMMA FreshStep == ASSUME Typing, Fresh, [Next]_vars, ~lostUpdate' PROVE Fresh'
<1> USE DEF storeVars, guardVars, turnVars, sumVars, orderVars, raceVars, boundVars, fileVars
<1>1. CASE Fetch
  <2>1. /\ copy' = session /\ stage' \notin Numbered /\ stage \notin Numbered
        /\ UNCHANGED <<session, begun, rowIds, rowsPut, fileIds, filesPut, sumPc, sumCopy, stale>>
    BY <1>1 DEF Fetch, Numbered
  <2> QED
    BY <2>1, FreshQuiet
<1>2. CASE Stop
  <2>1. /\ stage' \notin Holding /\ stage \notin Numbered /\ stale' = stale \ {"turn"}
        /\ UNCHANGED <<session, begun, rowIds, rowsPut, fileIds, filesPut, sumPc, sumCopy>>
    BY <1>2 DEF Stop, Return, AfterBody, Holding, Calling, Numbered
  <2> QED
    BY <2>1, FreshQuiet
<1>3. CASE Drain \/ NextDrained \/ Leave
  <2>1. /\ stage' \notin Holding /\ stage \notin Numbered
        /\ UNCHANGED <<session, begun, rowIds, rowsPut, fileIds, filesPut, sumPc, sumCopy, stale>>
    BY <1>3 DEF Drain, NextDrained, Leave, Holding, Calling, Numbered
  <2> QED
    BY <2>1, FreshQuiet
<1>4. CASE Select \/ SumFetch \/ SumFail
  <2>1. /\ sumPc' # "thinking" \/ sumCopy' = session
        /\ UNCHANGED <<session, begun, rowIds, rowsPut, fileIds, filesPut, stage, copy>>
        /\ stale' = stale \/ (stale' = stale \ {"summary"} /\ sumPc' # "thinking")
    BY <1>4 DEF Select, SumFetch, SumFail
  <2> QED
    BY <2>1, FreshQuiet
<1>5. ASSUME NEW m \in Messages, Send(m) \/ Enqueue(m) \/ GiveUp(m) \/ Begin(m) PROVE Fresh'
  <2>1. /\ UNCHANGED stage \/ (stage = "none" /\ stage' \in {"clean", "append"})
        /\ UNCHANGED <<session, begun, rowIds, rowsPut, fileIds, filesPut, copy, sumPc, sumCopy, stale>>
    BY <1>5 DEF Send, Enqueue, GiveUp, Begin, Idle, Typing, IInv, Turns
  <2>2. UNCHANGED stage \/ (stage \notin Numbered /\ stage' \notin Holding)
    BY <2>1 DEF Holding, Calling, Numbered
  <2> QED
    BY <2>1, <2>2, FreshQuiet
<1>6. CASE UNCHANGED vars
  BY <1>6, FreshQuiet DEF vars
<1>7. CASE Clean \/ AppendUser \/ Think \/ Tool \/ Save \/ Close
  BY <1>7, FreshClean, FreshAppend, FreshThink, FreshTool, FreshSave
<1>8. CASE SumPut \/ Upload
  BY <1>8, FreshSum, FreshUpload
<1>9. ASSUME NEW n \in Nodes, UseNode(n) PROVE Fresh'
  BY <1>9, FreshNode
<1> QED
  BY <1>1, <1>2, <1>3, <1>4, <1>5, <1>6, <1>7, <1>8, <1>9 DEF Next, TurnStep, SumStep

\* Unless a stale copy was put back, the session holds every message handled so far, and no
\* message row and no file row has replaced another.
THEOREM NothingIsReplaced == Spec => []NothingReplaced
<1>1. Init => Freshness
  <2> SUFFICES ASSUME Init PROVE Fresh
    BY DEF Freshness
  <2>1. Asked(session) = <<>> /\ begun = <<>> /\ stage = "none" /\ sumPc = "idle"
    BY NewIs DEF Init
  <2>2. AllAsked
    BY <2>1 DEF AllAsked
  <2>3. Current /\ Counters
    BY <2>1 DEF Init, Current, Counters, Holding, Calling, Numbered
  <2>4. Counted
    BY FS_EmptySet DEF Init, Counted
  <2> QED
    BY <2>2, <2>3, <2>4 DEF Fresh
<1>2. Typing /\ Freshness /\ [Next]_vars => Freshness'
  BY FreshStep, LostStaysLost DEF Freshness
<1>3. Typing /\ Freshness => NothingReplaced
  <2> SUFFICES ASSUME Typing, Freshness, ~lostUpdate
               PROVE  [i \in DOMAIN History |-> History[i].of] = begun
                      /\ Cardinality(rowIds) = rowsPut /\ Cardinality(fileIds) = filesPut
    BY DEF NothingReplaced, NothingLost, IdsUnique
  <2>1. Fresh /\ History = Asked(session) /\ Asked(session) \in Seq(Entries)
    BY AskedType DEF Freshness, History, Asked, Typing, Rows
  <2>2. DOMAIN Asked(session) = 1..Len(Asked(session))
    BY <2>1
  <2>3. [i \in DOMAIN History |-> History[i].of] = begun
    BY <2>1, <2>2 DEF Fresh, AllAsked
  <2> QED
    BY <2>1, <2>3 DEF Fresh, Counted
<1> QED
  BY <1>1, <1>2, <1>3, TypingIs, PTL DEF Spec
=============================================================================
