------------------------- MODULE BrowserJobsProofs -------------------------
(***************************************************************************)
(* Theorems about BrowserJobs, for every number of jobs, sessions, slots   *)
(* and calls: cancellation at any await, pruning and shutdown included;    *)
(* the last one is that it implements JobContract.                         *)
(***************************************************************************)
EXTENDS BrowserJobs, FiniteSetTheorems, TLAPS

\* The tasks that hold a slot.
InUse == {j \in Jobs : place[j] \in Holding \cup {"lock"}}

\* Slots are counted by those who hold them.
Slots == IsFiniteSet(InUse) /\ slots + Cardinality(InUse) = MaxConcurrentJobs

\* A job's status, its task's place and its entry in the table agree: what has ended may
\* be pruned, and nothing else.
Life ==
    \A j \in Jobs :
        /\ IsTerminal(j) => place[j] = "ended"
        /\ status[j] = "none" => place[j] = "none"
        /\ j \in jobs => place[j] # "none"
        /\ place[j] \notin {"none", "ended"} => j \in jobs /\ session[j] \in Sessions
        /\ j \in cancelling => place[j] \notin {"none", "ended"}
        /\ j \in stale => IsTerminal(j)

\* A task that is under way has, or will find, its session's lock, and no other has it.
Locked ==
    /\ \A j \in Jobs : place[j] \in Queued => locks[session[j]] # 0
    /\ \A j \in Jobs : place[j] \in Holding \cup {"lock"} => lockOf[j] = locks[session[j]]
    /\ \A j \in Jobs : place[j] \in Holding \cup {"lock"} => lockOf[j] # 0
    /\ \A i, j \in Jobs :
          place[i] \in Holding /\ place[j] \in Holding /\ lockOf[i] = lockOf[j] => i = j

\* What a call of cancel or get may rely on between two awaits.
Told ==
    /\ \A c \in Cancellers : canceller[c] # "idle" => cancels[c] \in Jobs
    /\ \A c \in Cancellers : canceller[c] = "marking" =>
          place[cancels[c]] = "ended" /\ status[cancels[c]] \notin {"none", "succeeded", "failed"}
    /\ \A c \in Cancellers : canceller[c] = "returned" => IsTerminal(cancels[c])
    /\ \A c \in Getters : getter[c] # "idle" => waitsFor[c] \in Jobs
    /\ \A c \in Getters : getter[c] = "waiting" => ~IsTerminal(waitsFor[c])

Types ==
    /\ jobs \subseteq Jobs /\ stale \subseteq jobs
    /\ session \in [Jobs -> Sessions \cup {NoSession}]
    /\ status \in [Jobs -> Terminal \cup {"none", "queued", "running"}]
    /\ place \in [Jobs -> Places]
    /\ cancelling \subseteq jobs
    /\ slots \in Nat
    /\ made \in Nat /\ locks \in [Sessions -> 0..made] /\ lockOf \in [Jobs -> 0..made]
    /\ browser \subseteq Sessions
    /\ getter \in [Getters -> {"idle", "waiting", "notified"}]
    /\ waitsFor \in [Getters -> Jobs \cup {NoJob}]
    /\ canceller \in [Cancellers -> {"idle", "awaiting", "marking", "returned"}]
    /\ cancels \in [Cancellers -> Jobs \cup {NoJob}]
    /\ down \in BOOLEAN

IInv == Types /\ Slots /\ Life /\ Locked /\ Told

-----------------------------------------------------------------------------
LEMMA InitHolds == Init => IInv
<1> SUFFICES ASSUME Init PROVE IInv
  OBVIOUS
<1>1. Types
  <2>1. made = 0 /\ locks \in [Sessions -> 0..made] /\ lockOf \in [Jobs -> 0..made]
    BY DEF Init
  <2>2. place \in [Jobs -> Places] /\ status \in [Jobs -> Terminal \cup {"none", "queued", "running"}]
    BY DEF Init, Places
  <2>3. session \in [Jobs -> Sessions \cup {NoSession}] /\ slots \in Nat
    BY ConstantsAssumption DEF Init
  <2>4. /\ getter \in [Getters -> {"idle", "waiting", "notified"}]
        /\ waitsFor \in [Getters -> Jobs \cup {NoJob}]
        /\ canceller \in [Cancellers -> {"idle", "awaiting", "marking", "returned"}]
        /\ cancels \in [Cancellers -> Jobs \cup {NoJob}]
    BY DEF Init
  <2>5. jobs = {} /\ stale = {} /\ cancelling = {} /\ browser = {} /\ down = FALSE
    BY DEF Init
  <2> QED
    BY <2>1, <2>2, <2>3, <2>4, <2>5 DEF Types
<1>2. Slots
  <2>1. InUse = {}
    BY DEF Init, InUse, Holding
  <2> QED
    BY <2>1, FS_EmptySet, ConstantsAssumption DEF Init, Slots
<1>3. Life /\ Locked /\ Told
  BY DEF Init, Life, Locked, Told, IsTerminal, Terminal, Queued, Holding
<1> QED
  BY <1>1, <1>2, <1>3 DEF IInv

\* Leaving the two blocks gives back what the task held.
LEMMA ReleasedSlots ==
    ASSUME Types, NEW j \in Jobs
    PROVE  Released(j) = IF j \in InUse THEN slots + 1 ELSE slots
  BY DEF Released, InUse

\* The last transition of a task is to the status its place says.
LEMMA ConcludeTo ==
    ASSUME NEW j \in Jobs, Conclude(j)
    PROVE  \E new \in Terminal :
              Transition(j, new) /\ (place[j] = "cancelled" <=> new = "cancelled")
<1>1. CASE place[j] = "succeeding"
  BY <1>1 DEF Conclude, Terminal
<1>2. CASE place[j] = "failing"
  BY <1>2 DEF Conclude, Terminal
<1>3. CASE place[j] = "cancelled"
  BY <1>3 DEF Conclude, Terminal
<1> QED
  BY <1>1, <1>2, <1>3 DEF Conclude

LEMMA TypesStep == IInv /\ [Next]_vars => Types'
<1> SUFFICES ASSUME IInv, [Next]_vars PROVE Types'
  OBVIOUS
<1> USE DEF IInv, Types, Moves
<1>1. ASSUME NEW j \in Jobs, AwaitSlot(j) \/ TakeLock(j) PROVE Types'
  BY <1>1 DEF AwaitSlot, TakeLock, jobVars, lockVars, callVars, Places, Queued, Holding
<1>2. ASSUME NEW j \in Jobs, TakeSlot(j) PROVE Types'
  <2>1. session[j] \in Sessions
    BY <1>2 DEF TakeSlot, Life
  <2> QED
    BY <1>2, <2>1 DEF TakeSlot, jobVars, callVars, Places, Queued, Holding
<1>3. ASSUME NEW j \in Jobs, StartRunning(j) PROVE Types'
  BY <1>3 DEF StartRunning, Transition, lockVars, Places, Queued, Holding
<1>4. ASSUME NEW j \in Jobs, RunReturns(j) PROVE Types'
  <2>1. session[j] \in Sessions
    BY <1>4 DEF RunReturns, Life
  <2> QED
    BY <1>4, <2>1 DEF RunReturns, jobVars, lockVars, callVars, Places, Queued, Holding
<1>5. ASSUME NEW j \in Jobs, RunFails(j) PROVE Types'
  <2>1. session[j] \in Sessions
    BY <1>5 DEF RunFails, Life
  <2>2. slots' \in Nat /\ browser' \subseteq Sessions
    BY <1>5, <2>1 DEF RunFails, Released
  <2> QED
    BY <1>5, <2>2 DEF RunFails, jobVars, callVars, Places, Queued, Holding
<1>6. ASSUME NEW j \in Jobs, Conclude(j) PROVE Types'
  <2>1. PICK new \in Terminal : Transition(j, new)
    BY <1>6, ConcludeTo
  <2>2. slots' \in Nat
    BY <1>6 DEF Conclude, Released
  <2>3. /\ status' \in [Jobs -> Terminal \cup {"none", "queued", "running"}]
        /\ getter' \in [Getters -> {"idle", "waiting", "notified"}]
    BY <2>1 DEF Transition
  <2>4. /\ place' = [place EXCEPT ![j] = "ended"] /\ lockOf' = [lockOf EXCEPT ![j] = 0]
        /\ UNCHANGED <<jobs, session, stale, cancelling, locks, made, browser, waitsFor, canceller, cancels, down>>
    BY <1>6 DEF Conclude
  <2> QED
    BY <2>2, <2>3, <2>4 DEF Places
<1>7. ASSUME NEW j \in Jobs, Cancelled(j) PROVE Types'
  <2>1. session[j] \in Sessions
    BY <1>7 DEF Cancelled, Life, Holding
  <2>2. slots' \in Nat /\ browser' \subseteq Sessions
    BY <1>7, <2>1 DEF Cancelled, Released
  <2> QED
    BY <1>7, <2>2 DEF Cancelled, jobVars, callVars, Places
<1>8. ASSUME NEW j \in Jobs, Dies(j) PROVE Types'
  BY <1>8 DEF Dies, jobVars, lockVars, callVars, Places
<1>9. ASSUME NEW j \in Jobs, NEW s \in Sessions, Create(j, s) PROVE Types'
  <2>1. cancelling \cap stale = {}
    BY DEF Life
  <2>2. KeptLocks \in [Sessions -> 0..made]
    BY DEF KeptLocks
  <2>3. made' \in Nat /\ made <= made' /\ (KeptLocks[s] = 0 => made' = made + 1)
    BY <1>9 DEF Create
  <2>4. locks' \in [Sessions -> 0..made']
    BY <1>9, <2>2, <2>3 DEF Create
  <2>5. lockOf' \in [Jobs -> 0..made']
    BY <1>9, <2>3 DEF Create
  <2>6. jobs' \subseteq Jobs /\ stale' \subseteq jobs' /\ cancelling' \subseteq jobs'
    BY <1>9, <2>1 DEF Create, Kept
  <2> QED
    BY <1>9, <2>3, <2>4, <2>5, <2>6 DEF Create, callVars, Places, Queued
<1>10. ASSUME NEW c \in Getters, GetLoops(c) \/ GetTimesOut(c) \/ \E j \in Jobs : Get(c, j) PROVE Types'
  BY <1>10 DEF GetLoops, GetTimesOut, Get, GetReturns, jobVars, lockVars
<1>11. ASSUME NEW c \in Cancellers, NEW j \in Jobs, Cancel(c, j) PROVE Types'
  BY <1>11 DEF Cancel, jobVars, lockVars
<1>12. ASSUME NEW c \in Cancellers, CancelAwaited(c) PROVE Types'
  BY <1>12 DEF CancelAwaited, jobVars, lockVars
<1>13. ASSUME NEW c \in Cancellers, CancelMarks(c) PROVE Types'
  BY <1>13 DEF CancelMarks, Transition, lockVars, Terminal
<1>14. ASSUME NEW j \in Jobs, Age(j) PROVE Types'
  BY <1>14 DEF Age, lockVars, callVars
<1>15. CASE Shutdown
  BY <1>15 DEF Shutdown, jobVars, lockVars, callVars
<1>16. CASE UNCHANGED vars
  BY <1>16 DEF vars, jobVars, lockVars, callVars
<1> QED
  BY <1>1, <1>2, <1>3, <1>4, <1>5, <1>6, <1>7, <1>8, <1>9, <1>10, <1>11, <1>12, <1>13, <1>14,
     <1>15, <1>16 DEF Next, JobStep, CallStep

LEMMA SlotsStep == IInv /\ [Next]_vars => Slots'
<1> SUFFICES ASSUME IInv, [Next]_vars PROVE Slots'
  OBVIOUS
<1> USE DEF IInv, Types, Moves
<1>0. Cardinality(InUse) \in Nat
  BY FS_CardinalityType DEF Slots
<1>1. ASSUME InUse' = InUse, slots' = slots PROVE Slots'
  BY <1>1 DEF Slots
<1>2. ASSUME NEW j \in Jobs, NEW to, Moves(j, to), slots' = Released(j), to \notin Holding \cup {"lock"}
      PROVE  Slots'
  <2>1. InUse' = InUse \ {j}
    BY <1>2 DEF InUse
  <2>2. IsFiniteSet(InUse \ {j})
        /\ Cardinality(InUse \ {j}) = IF j \in InUse THEN Cardinality(InUse) - 1 ELSE Cardinality(InUse)
    BY FS_RemoveElement DEF Slots
  <2>3. slots' = IF j \in InUse THEN slots + 1 ELSE slots
    BY <1>2, ReleasedSlots
  <2> QED
    BY <1>0, <2>1, <2>2, <2>3, ConstantsAssumption DEF Slots
<1>3. ASSUME NEW j \in Jobs, NEW to, Moves(j, to), slots' = slots,
             to \in Holding \cup {"lock"} <=> place[j] \in Holding \cup {"lock"}
      PROVE  Slots'
  <2>1. InUse' = InUse
    BY <1>3 DEF InUse
  <2> QED  BY <1>1, <1>3, <2>1
<1>4. ASSUME NEW j \in Jobs, AwaitSlot(j) \/ TakeLock(j) \/ StartRunning(j) \/ RunReturns(j) PROVE Slots'
  BY <1>3, <1>4 DEF AwaitSlot, TakeLock, StartRunning, RunReturns, lockVars, Holding
<1>5. ASSUME NEW j \in Jobs, TakeSlot(j) PROVE Slots'
  <2>1. InUse' = InUse \cup {j} /\ j \notin InUse
    BY <1>5 DEF TakeSlot, InUse, Holding
  <2>2. IsFiniteSet(InUse \cup {j}) /\ Cardinality(InUse \cup {j}) = Cardinality(InUse) + 1
    BY <2>1, FS_AddElement DEF Slots
  <2> QED
    BY <1>0, <1>5, <2>1, <2>2, ConstantsAssumption DEF TakeSlot, Slots
<1>6. ASSUME NEW j \in Jobs, RunFails(j) \/ Conclude(j) \/ Cancelled(j) PROVE Slots'
  BY <1>2, <1>6 DEF RunFails, Conclude, Cancelled, Holding
<1>7. ASSUME NEW j \in Jobs, Dies(j) PROVE Slots'
  BY <1>3, <1>7 DEF Dies, lockVars, Holding
<1>8. ASSUME NEW j \in Jobs, NEW s \in Sessions, Create(j, s) PROVE Slots'
  <2>1. place[j] = "none"
    BY <1>8 DEF Create, Life
  <2> QED
    BY <1>3, <1>8, <2>1 DEF Create, Holding
<1>9. ASSUME UNCHANGED <<place, slots>> PROVE Slots'
  BY <1>1, <1>9 DEF InUse
<1>10. ASSUME CallStep \/ Shutdown \/ (\E j \in Jobs : Age(j)) \/ UNCHANGED vars PROVE Slots'
  BY <1>9, <1>10 DEF CallStep, GetLoops, GetTimesOut, Get, Cancel, CancelAwaited, CancelMarks, Shutdown,
                     Age, vars, lockVars
<1> QED
  BY <1>4, <1>5, <1>6, <1>7, <1>8, <1>10 DEF Next, JobStep

LEMMA LifeStep == IInv /\ [Next]_vars => Life'
<1> SUFFICES ASSUME IInv, [Next]_vars PROVE Life'
  OBVIOUS
<1> USE DEF IInv, Types, Life, IsTerminal, Terminal, Moves
\* A task moves on, not to its end.
<1>1. ASSUME NEW j \in Jobs, NEW to, Moves(j, to), to \notin {"none", "ended"},
             place[j] \notin {"none", "ended"}, UNCHANGED <<jobs, session, stale, status>>,
             cancelling' \subseteq cancelling
      PROVE  Life'
  BY <1>1
<1>2. ASSUME NEW j \in Jobs, AwaitSlot(j) \/ TakeSlot(j) \/ TakeLock(j) \/ RunReturns(j) \/ RunFails(j)
                             \/ Cancelled(j)
      PROVE  Life'
  BY <1>1, <1>2 DEF AwaitSlot, TakeSlot, TakeLock, RunReturns, RunFails, Cancelled, jobVars, Holding
<1>3. ASSUME NEW j \in Jobs, StartRunning(j) PROVE Life'
  BY <1>3 DEF StartRunning, Transition
<1>4. ASSUME NEW j \in Jobs, Conclude(j) PROVE Life'
  <2>1. PICK new \in Terminal : Transition(j, new)
    BY <1>4, ConcludeTo
  <2> QED
    BY <1>4, <2>1 DEF Conclude, Transition
<1>5. ASSUME NEW j \in Jobs, Dies(j) PROVE Life'
  BY <1>5 DEF Dies, jobVars
<1>6. ASSUME NEW j \in Jobs, NEW s \in Sessions, Create(j, s) PROVE Life'
  BY <1>6 DEF Create, Kept
<1>7. ASSUME UNCHANGED <<jobVars, place, cancelling>> PROVE Life'
  BY <1>7 DEF jobVars
<1>8. ASSUME NEW c \in Getters, GetLoops(c) \/ GetTimesOut(c) \/ \E j \in Jobs : Get(c, j) PROVE Life'
  BY <1>7, <1>8 DEF GetLoops, GetTimesOut, Get
<1>9. ASSUME NEW c \in Cancellers, NEW j \in Jobs, Cancel(c, j) PROVE Life'
  BY <1>9 DEF Cancel, jobVars
<1>10. ASSUME NEW c \in Cancellers, CancelAwaited(c) PROVE Life'
  BY <1>7, <1>10 DEF CancelAwaited
<1>11. ASSUME NEW c \in Cancellers, CancelMarks(c) PROVE Life'
  BY <1>11 DEF CancelMarks, Transition, Told
<1>12. ASSUME NEW j \in Jobs, Age(j) PROVE Life'
  BY <1>12 DEF Age
<1>13. CASE Shutdown
  BY <1>13 DEF Shutdown, jobVars
<1>14. CASE UNCHANGED vars
  BY <1>7, <1>14 DEF vars
<1> QED
  BY <1>2, <1>3, <1>4, <1>5, <1>6, <1>8, <1>9, <1>10, <1>11, <1>12, <1>13, <1>14
  DEF Next, JobStep, CallStep

LEMMA LockedStep == IInv /\ [Next]_vars => Locked'
<1> SUFFICES ASSUME IInv, [Next]_vars PROVE Locked'
  OBVIOUS
<1> USE DEF IInv, Types, Locked, Queued, Holding, Moves
<1>1. ASSUME UNCHANGED <<session, place, locks, lockOf>> PROVE Locked'
  BY <1>1
\* A task that has its lock keeps it, or stays in the queue.
<1>2. ASSUME NEW j \in Jobs, NEW to, Moves(j, to), UNCHANGED <<session, locks, lockOf>>,
             (to \in Queued /\ place[j] \in Queued) \/ (to \in Holding /\ place[j] \in Holding)
             \/ to \in {"failing", "cancelled", "none", "ended"}
      PROVE  Locked'
  BY <1>2
<1>3. ASSUME NEW j \in Jobs, AwaitSlot(j) \/ StartRunning(j) \/ RunReturns(j) \/ Dies(j) PROVE Locked'
  BY <1>2, <1>3 DEF AwaitSlot, StartRunning, RunReturns, Dies, jobVars, lockVars
<1>4. ASSUME NEW j \in Jobs, TakeSlot(j) PROVE Locked'
  BY <1>4 DEF TakeSlot, jobVars
<1>5. ASSUME NEW j \in Jobs, TakeLock(j) PROVE Locked'
  <2>1. \A i \in Jobs : place[i] \in Holding => lockOf[i] # lockOf[j]
    BY <1>5 DEF TakeLock, Holder
  <2>2. UNCHANGED <<session, locks, lockOf>> /\ place[j] = "lock" /\ place' = [place EXCEPT ![j] = "starting"]
    BY <1>5 DEF TakeLock, jobVars, lockVars
  <2> QED
    BY <2>1, <2>2
\* Lock and slot are given back.
<1>6. ASSUME NEW j \in Jobs, RunFails(j) \/ Conclude(j) \/ Cancelled(j) PROVE Locked'
  <2>1. /\ lockOf' = [lockOf EXCEPT ![j] = 0] /\ UNCHANGED <<session, locks>>
        /\ \A i \in Jobs : i # j => place'[i] = place[i]
        /\ place'[j] \in {"failing", "cancelled", "ended"}
    BY <1>6 DEF RunFails, Conclude, Cancelled, jobVars
  <2> QED
    BY <2>1
\* Pruning leaves the locks of every job that is under way.
<1>7. ASSUME NEW j \in Jobs, NEW s \in Sessions, Create(j, s) PROVE Locked'
  <2>1. \A i \in Jobs : place[i] \in Queued \cup Holding \cup {"lock"}
                       => KeptLocks[session[i]] = locks[session[i]] /\ session[i] \in Sessions
    BY DEF KeptLocks, Kept, Life, IsTerminal
  <2>2. \A q \in Sessions : KeptLocks[q] # 0 => locks'[q] = KeptLocks[q]
    BY <1>7 DEF Create, KeptLocks
  <2>3. locks'[s] # 0 /\ place[j] = "none"
    BY <1>7 DEF Create, KeptLocks, Life
  <2>4. /\ session' = [session EXCEPT ![j] = s] /\ place' = [place EXCEPT ![j] = "new"]
        /\ lockOf' = lockOf
    BY <1>7 DEF Create
  <2>5. \A i \in Jobs : i # j => session'[i] = session[i] /\ place'[i] = place[i]
    BY <2>4
  <2>6. \A i \in Jobs : i # j /\ place[i] \in Queued \cup Holding \cup {"lock"} /\ locks[session[i]] # 0
                       => locks'[session'[i]] = locks[session[i]]
    BY <2>1, <2>2, <2>5
  <2>7. session'[j] = s /\ place'[j] = "new"
    BY <2>4
  <2> QED
    BY <2>3, <2>4, <2>5, <2>6, <2>7
<1>8. ASSUME CallStep \/ Shutdown \/ (\E j \in Jobs : Age(j)) \/ UNCHANGED vars PROVE Locked'
  BY <1>1, <1>8 DEF CallStep, GetLoops, GetTimesOut, Get, Cancel, CancelAwaited, CancelMarks, Shutdown,
                    Age, vars, lockVars, jobVars
<1> QED
  BY <1>3, <1>4, <1>5, <1>6, <1>7, <1>8 DEF Next, JobStep

\* What calls rely on is not taken from them: a terminal status stays, an end is final.
LEMMA TerminalStep ==
    ASSUME IInv, [Next]_vars, NEW j \in Jobs, IsTerminal(j)
    PROVE  status'[j] = status[j]
<1> USE DEF IInv, Types, Life, IsTerminal, Terminal
<1>1. ASSUME NEW i \in Jobs, StartRunning(i) PROVE status'[j] = status[j]
  BY <1>1 DEF StartRunning, Transition
<1>2. ASSUME NEW i \in Jobs, Conclude(i) PROVE status'[j] = status[j]
  <2>1. PICK new \in Terminal : Transition(i, new)
    BY <1>2, ConcludeTo
  <2>2. i # j
    BY <1>2 DEF Conclude
  <2> QED
    BY <2>1, <2>2 DEF Transition
<1>3. ASSUME NEW i \in Jobs,
             \/ AwaitSlot(i) \/ TakeSlot(i) \/ TakeLock(i) \/ RunReturns(i) \/ RunFails(i) \/ Cancelled(i)
             \/ Dies(i) \/ Age(i)
      PROVE  status'[j] = status[j]
  BY <1>3 DEF AwaitSlot, TakeSlot, TakeLock, RunReturns, RunFails, Cancelled, Dies, Age, jobVars
<1>4. ASSUME NEW i \in Jobs, NEW s \in Sessions, Create(i, s) PROVE status'[j] = status[j]
  BY <1>4 DEF Create
<1>5. ASSUME NEW c \in Cancellers, CancelMarks(c) PROVE status'[j] = status[j]
  BY <1>5 DEF CancelMarks, Transition, Told
<1>6. ASSUME NEW c \in Getters, GetLoops(c) \/ GetTimesOut(c) \/ \E i \in Jobs : Get(c, i)
      PROVE  status'[j] = status[j]
  BY <1>6 DEF GetLoops, GetTimesOut, Get, jobVars
<1>7. ASSUME NEW c \in Cancellers, CancelAwaited(c) \/ \E i \in Jobs : Cancel(c, i)
      PROVE  status'[j] = status[j]
  BY <1>7 DEF CancelAwaited, Cancel, jobVars
<1>8. CASE Shutdown \/ UNCHANGED vars
  BY <1>8 DEF Shutdown, vars, jobVars
<1> QED
  BY <1>1, <1>2, <1>3, <1>4, <1>5, <1>6, <1>7, <1>8 DEF Next, JobStep, CallStep

LEMMA EndedStep ==
    ASSUME IInv, [Next]_vars, NEW j \in Jobs, place[j] = "ended"
    PROVE  /\ place'[j] = "ended"
           /\ status'[j] = status[j] \/ status'[j] = "cancelled"
<1> USE DEF IInv, Types, Life, Moves
<1>1. ASSUME NEW i \in Jobs, AwaitSlot(i) \/ TakeSlot(i) \/ TakeLock(i) \/ RunReturns(i) \/ RunFails(i)
                             \/ Cancelled(i) \/ Dies(i) \/ Age(i)
      PROVE  place'[j] = "ended" /\ status'[j] = status[j]
  BY <1>1 DEF AwaitSlot, TakeSlot, TakeLock, RunReturns, RunFails, Cancelled, Dies, Age, jobVars, Holding
<1>2. ASSUME NEW i \in Jobs, StartRunning(i) PROVE place'[j] = "ended" /\ status'[j] = status[j]
  BY <1>2 DEF StartRunning, Transition
<1>3. ASSUME NEW i \in Jobs, Conclude(i) PROVE place'[j] = "ended" /\ status'[j] = status[j]
  <2>1. PICK new \in Terminal : Transition(i, new)
    BY <1>3, ConcludeTo
  <2>2. i # j /\ place' = [place EXCEPT ![i] = "ended"]
    BY <1>3 DEF Conclude
  <2> QED
    BY <2>1, <2>2 DEF Transition
<1>4. ASSUME NEW i \in Jobs, NEW s \in Sessions, Create(i, s)
      PROVE  place'[j] = "ended" /\ status'[j] = status[j]
  BY <1>4 DEF Create
<1>5. ASSUME NEW c \in Cancellers, CancelMarks(c)
      PROVE  place'[j] = "ended" /\ (status'[j] = status[j] \/ status'[j] = "cancelled")
  BY <1>5 DEF CancelMarks, Transition
<1>6. ASSUME CallStep, \A c \in Cancellers : ~CancelMarks(c) PROVE place'[j] = "ended" /\ status'[j] = status[j]
  BY <1>6 DEF CallStep, GetLoops, GetTimesOut, Get, CancelAwaited, Cancel, jobVars
<1>7. CASE Shutdown \/ UNCHANGED vars
  BY <1>7 DEF Shutdown, vars, jobVars
<1> QED
  BY <1>1, <1>2, <1>3, <1>4, <1>5, <1>6, <1>7 DEF Next, JobStep

LEMMA ToldStep == IInv /\ [Next]_vars => Told'
<1> SUFFICES ASSUME IInv, [Next]_vars PROVE Told'
  OBVIOUS
<1> USE DEF IInv, Types
\* The calls of cancel.
<1>1. ASSUME NEW c \in Cancellers
      PROVE  /\ canceller'[c] # "idle" => cancels'[c] \in Jobs
             /\ canceller'[c] = "marking" => /\ place'[cancels'[c]] = "ended"
                                            /\ status'[cancels'[c]] \notin {"none", "succeeded", "failed"}
             /\ canceller'[c] = "returned" => IsTerminal(cancels[c])'
  <2>1. CASE canceller'[c] = canceller[c] /\ cancels'[c] = cancels[c]
    BY <2>1, EndedStep, TerminalStep DEF Told, IsTerminal
  <2>2. ASSUME NEW j \in Jobs, Cancel(c, j)
        PROVE  /\ cancels'[c] = j /\ canceller'[c] # "marking"
               /\ canceller'[c] = "returned" => IsTerminal(j)'
    BY <2>2 DEF Cancel, jobVars, IsTerminal
  <2>3. CASE CancelAwaited(c)
    BY <2>3 DEF CancelAwaited, Told, jobVars, IsTerminal, Terminal, Life
  <2>4. CASE CancelMarks(c)
    BY <2>4 DEF CancelMarks, Transition, Told, IsTerminal, Terminal
  <2>5. \/ canceller'[c] = canceller[c] /\ cancels'[c] = cancels[c]
        \/ CancelAwaited(c) \/ CancelMarks(c) \/ \E j \in Jobs : Cancel(c, j)
    <3>1. CASE CallStep
      BY <3>1 DEF CallStep, GetLoops, GetTimesOut, Get, CancelAwaited, CancelMarks, Cancel
    <3>2. ASSUME NEW j \in Jobs, JobStep(j) \/ Age(j) \/ \E s \in Sessions : Create(j, s)
          PROVE  UNCHANGED <<canceller, cancels>>
      BY <3>2 DEF JobStep, AwaitSlot, TakeSlot, TakeLock, StartRunning, RunReturns, RunFails, Conclude,
                  Cancelled, Dies, Age, Create, callVars
    <3>3. CASE Shutdown \/ UNCHANGED vars
      BY <3>3 DEF Shutdown, vars, callVars
    <3> QED
      BY <3>1, <3>2, <3>3 DEF Next
  <2> QED
    BY <2>1, <2>2, <2>3, <2>4, <2>5 DEF IsTerminal
\* The calls of get.
<1>2. ASSUME NEW c \in Getters
      PROVE  /\ getter'[c] # "idle" => waitsFor'[c] \in Jobs
             /\ getter'[c] = "waiting" => ~IsTerminal(waitsFor[c])'
  <2> USE DEF IsTerminal
  <2>1. ASSUME getter'[c] = getter[c], waitsFor'[c] = waitsFor[c],
               \A j \in Jobs : status'[j] \in Terminal => status[j] \in Terminal
        PROVE  /\ getter'[c] # "idle" => waitsFor'[c] \in Jobs
               /\ getter'[c] = "waiting" => ~IsTerminal(waitsFor[c])'
    BY <2>1 DEF Told
  <2>2. ASSUME NEW j \in Jobs, NEW new, Transition(j, new), waitsFor' = waitsFor
        PROVE  /\ getter'[c] # "idle" => waitsFor'[c] \in Jobs
               /\ getter'[c] = "waiting" => ~IsTerminal(waitsFor[c])'
    BY <2>2 DEF Transition, Told
  <2>3. ASSUME NEW j \in Jobs, \/ AwaitSlot(j) \/ TakeSlot(j) \/ TakeLock(j) \/ RunReturns(j)
                               \/ RunFails(j) \/ Cancelled(j) \/ Dies(j) \/ Age(j)
        PROVE  UNCHANGED <<getter, waitsFor, status>>
    BY <2>3 DEF AwaitSlot, TakeSlot, TakeLock, RunReturns, RunFails, Cancelled, Dies, Age, jobVars, callVars
  <2>4. ASSUME NEW j \in Jobs, NEW s \in Sessions, Create(j, s)
        PROVE  /\ UNCHANGED <<getter, waitsFor>>
               /\ \A i \in Jobs : status'[i] \in Terminal => status[i] \in Terminal
    BY <2>4 DEF Create, callVars, Terminal
  <2>5. ASSUME NEW j \in Jobs, StartRunning(j) PROVE Transition(j, "running") /\ waitsFor' = waitsFor
    BY <2>5 DEF StartRunning
  <2>6. ASSUME NEW j \in Jobs, Conclude(j)
        PROVE  waitsFor' = waitsFor /\ \E new \in Terminal : Transition(j, new)
    <3>1. waitsFor' = waitsFor
      BY <2>6 DEF Conclude
    <3> QED  BY <2>6, <3>1, ConcludeTo
  <2>7. ASSUME NEW d \in Getters, GetLoops(d) \/ GetTimesOut(d) \/ \E j \in Jobs : Get(d, j)
        PROVE  /\ getter'[c] # "idle" => waitsFor'[c] \in Jobs
               /\ getter'[c] = "waiting" => ~IsTerminal(waitsFor[c])'
    BY <2>7 DEF GetLoops, GetTimesOut, Get, GetReturns, Told, jobVars
  <2>8. ASSUME NEW d \in Cancellers, CancelAwaited(d) \/ \E j \in Jobs : Cancel(d, j)
        PROVE  UNCHANGED <<getter, waitsFor, status>>
    BY <2>8 DEF CancelAwaited, Cancel, jobVars
  <2>9. ASSUME NEW d \in Cancellers, CancelMarks(d)
        PROVE  cancels[d] \in Jobs /\ Transition(cancels[d], "cancelled") /\ waitsFor' = waitsFor
    BY <2>9 DEF CancelMarks, Told
  <2>10. CASE Shutdown \/ UNCHANGED vars
    BY <2>1, <2>10 DEF Shutdown, vars, callVars, jobVars
  <2> QED
    BY <2>1, <2>2, <2>3, <2>4, <2>5, <2>6, <2>7, <2>8, <2>9, <2>10 DEF Next, JobStep, CallStep
<1> QED
  BY <1>1, <1>2 DEF Told, IsTerminal

-----------------------------------------------------------------------------
LEMMA Inductive == Spec => []IInv
<1>1. IInv /\ [Next]_vars => IInv'
  BY TypesStep, SlotsStep, LifeStep, LockedStep, ToldStep DEF IInv
<1> QED
  BY InitHolds, <1>1, PTL DEF Spec

\* Types, with the bound on the slots that the accounting gives.
THEOREM TypeCorrect == Spec => []TypeOK
<1>1. IInv => TypeOK
  <2> SUFFICES ASSUME IInv PROVE TypeOK
    OBVIOUS
  <2>1. Cardinality(InUse) \in Nat
    BY FS_CardinalityType DEF IInv, Slots
  <2>2. slots \in 0..MaxConcurrentJobs
    BY <2>1, ConstantsAssumption DEF IInv, Types, Slots
  <2> QED
    BY <2>2 DEF IInv, Types, TypeOK
<1> QED
  BY <1>1, Inductive, PTL

\* "Jobs sharing a profile are serialized by JobManager", for any order of create, prune
\* and cancel (_session_locks, _prune_locked).
THEOREM ProfilesAreSerialized == Spec => []ProfileNotShared
<1>1. IInv => ProfileNotShared
  BY DEF IInv, Locked, Holding, ProfileNotShared
<1> QED
  BY <1>1, Inductive, PTL

\* The semaphore's slots are those of the tasks inside its block, whatever ends them.
THEOREM SlotsReturn == Spec => []SlotsAccounted
<1>1. IInv => SlotsAccounted
  BY DEF IInv, Slots, InUse, SlotsAccounted
<1> QED
  BY <1>1, Inductive, PTL

\* A queued task finds its session's lock: pruning never takes it away (_execute).
THEOREM LocksAreKept == Spec => []LockFound
<1>1. IInv => LockFound
  BY DEF IInv, Locked, LockFound
<1> QED
  BY <1>1, Inductive, PTL

\* Whoever waits for a job or cancels it learns its end (get, cancel, _transition).
THEOREM EveryoneIsTold == Spec => []EndIsTold
<1>1. IInv => EndIsTold
  BY DEF IInv, Told, EndIsTold, CancelIsTerminal, NoMissedChange
<1> QED
  BY <1>1, Inductive, PTL

\* A terminal status is never changed again.
THEOREM TerminalStays == Spec => TerminalIsFinal
<1>1. IInv /\ [Next]_vars => [\A j \in Jobs : IsTerminal(j) => status'[j] = status[j]]_vars
  BY TerminalStep
<1> QED
  BY <1>1, Inductive, PTL DEF Spec, TerminalIsFinal

-----------------------------------------------------------------------------
(* The refinement of JobContract.                                          *)

\* The table is within its size and shows every job that is not over.
Table ==
    /\ IsFiniteSet(jobs) /\ Cardinality(jobs) <= MaxJobs
    /\ \A j \in Jobs : status[j] \in {"queued", "running"} => j \in jobs

\* What get reports of a job is behind its task, by one transition at most.
Stages ==
    \A j \in Jobs :
        /\ place[j] \in Queued \cup {"lock", "starting"} => status[j] = "queued"
        /\ place[j] \in {"running", "succeeding", "failing"} => status[j] = "running"
        /\ place[j] = "cancelled" => status[j] \in {"queued", "running"}

\* A get asks for a job that was created.
Asked == \A c \in Getters : getter[c] # "idle" => status[waitsFor[c]] # "none"

CInv == IInv /\ Table /\ Stages /\ Asked

LEMMA TableStep == ASSUME IInv, Table, [Next]_vars PROVE Table'
<1> USE DEF IInv, Types, Table
<1>1. ASSUME UNCHANGED jobs, \A j \in Jobs : status'[j] \in {"queued", "running"} => j \in jobs
      PROVE  Table'
  BY <1>1
<1>2. ASSUME NEW j \in Jobs, NEW s \in Sessions, Create(j, s) PROVE Table'
  <2>1. jobs' = Kept \cup {j} /\ Cardinality(Kept) < MaxJobs /\ status' = [status EXCEPT ![j] = "queued"]
    BY <1>2 DEF Create
  <2>2. IsFiniteSet(Kept) /\ Cardinality(Kept) \in Nat
    BY FS_Subset, FS_CardinalityType DEF Kept
  <2>3. IsFiniteSet(Kept \cup {j}) /\ Cardinality(Kept \cup {j}) <= Cardinality(Kept) + 1
    <3>1. IsFiniteSet(Kept \cup {j}) /\ Cardinality(Kept \cup {j}) =
             IF j \in Kept THEN Cardinality(Kept) ELSE Cardinality(Kept) + 1
      BY <2>2, FS_AddElement
    <3> QED
      BY <2>2, <3>1
  <2>4. Cardinality(jobs') <= MaxJobs
    BY <2>1, <2>2, <2>3, FS_CardinalityType, ConstantsAssumption
  <2>5. \A i \in Jobs : status'[i] \in {"queued", "running"} => i \in jobs'
    BY <2>1 DEF Kept, Life, IsTerminal, Terminal
  <2> QED
    BY <2>1, <2>3, <2>4, <2>5
<1>3. ASSUME NEW j \in Jobs, StartRunning(j) PROVE Table'
  <2>1. j \in jobs
    BY <1>3 DEF StartRunning, Life
  <2> QED
    BY <1>1, <1>3, <2>1 DEF StartRunning, Transition
<1>4. ASSUME NEW j \in Jobs, Conclude(j) PROVE Table'
  <2>1. PICK new \in Terminal : Transition(j, new)
    BY <1>4, ConcludeTo
  <2> QED
    BY <1>1, <1>4, <2>1 DEF Conclude, Transition, Terminal
<1>5. ASSUME NEW c \in Cancellers, CancelMarks(c) PROVE Table'
  BY <1>1, <1>5 DEF CancelMarks, Transition
<1>6. ASSUME UNCHANGED <<jobs, status>> PROVE Table'
  BY <1>6
<1>7. ASSUME NEW j \in Jobs,
             \/ AwaitSlot(j) \/ TakeSlot(j) \/ TakeLock(j) \/ RunReturns(j) \/ RunFails(j) \/ Cancelled(j)
             \/ Dies(j) \/ Age(j)
      PROVE  Table'
  BY <1>6, <1>7 DEF AwaitSlot, TakeSlot, TakeLock, RunReturns, RunFails, Cancelled, Dies, Age, jobVars
<1>8. CASE \/ \E c \in Getters : GetLoops(c) \/ GetTimesOut(c) \/ \E j \in Jobs : Get(c, j)
           \/ \E c \in Cancellers : CancelAwaited(c) \/ \E j \in Jobs : Cancel(c, j)
           \/ Shutdown \/ UNCHANGED vars
  BY <1>6, <1>8 DEF GetLoops, GetTimesOut, Get, CancelAwaited, Cancel, Shutdown, vars, jobVars
<1> QED
  BY <1>2, <1>3, <1>4, <1>5, <1>7, <1>8 DEF Next, JobStep, CallStep

LEMMA StagesStep == ASSUME IInv, Stages, [Next]_vars PROVE Stages'
<1> USE DEF IInv, Types, Stages, Queued, Moves
\* A task moves within what its status allows.
<1>1. ASSUME NEW j \in Jobs, NEW to, Moves(j, to), UNCHANGED status,
             \/ place[j] \in Queued /\ to \in Queued \cup {"lock"}
             \/ place[j] = "lock" /\ to = "starting"
             \/ place[j] = "running" /\ to \in {"succeeding", "failing"}
             \/ place[j] \in {"slot", "lock"} \cup Holding /\ to = "cancelled"
             \/ to = "ended"
      PROVE  Stages'
  BY <1>1 DEF Holding
<1>2. ASSUME NEW j \in Jobs,
             AwaitSlot(j) \/ TakeSlot(j) \/ TakeLock(j) \/ RunReturns(j) \/ RunFails(j) \/ Cancelled(j) \/ Dies(j)
      PROVE  Stages'
  BY <1>1, <1>2 DEF AwaitSlot, TakeSlot, TakeLock, RunReturns, RunFails, Cancelled, Dies, jobVars
<1>3. ASSUME NEW j \in Jobs, NEW new, NEW to, Transition(j, new), Moves(j, to),
             to = "ended" \/ (to = "running" /\ new = "running")
      PROVE  Stages'
  BY <1>3 DEF Transition
<1>4. ASSUME NEW j \in Jobs, StartRunning(j) PROVE Stages'
  BY <1>3, <1>4 DEF StartRunning
<1>5. ASSUME NEW j \in Jobs, Conclude(j) PROVE Stages'
  <2>1. PICK new \in Terminal : Transition(j, new)
    BY <1>5, ConcludeTo
  <2> QED
    BY <1>3, <1>5, <2>1 DEF Conclude
<1>6. ASSUME NEW c \in Cancellers, CancelMarks(c) PROVE Stages'
  <2>1. cancels[c] \in Jobs /\ place[cancels[c]] = "ended"
    BY <1>6 DEF CancelMarks, Told
  <2> QED
    BY <1>6, <2>1 DEF CancelMarks, Transition
<1>7. ASSUME NEW j \in Jobs, NEW s \in Sessions, Create(j, s) PROVE Stages'
  BY <1>7 DEF Create
<1>8. CASE \/ \E c \in Getters : GetLoops(c) \/ GetTimesOut(c) \/ \E j \in Jobs : Get(c, j)
           \/ \E c \in Cancellers : CancelAwaited(c) \/ \E j \in Jobs : Cancel(c, j)
           \/ (\E j \in Jobs : Age(j)) \/ Shutdown \/ UNCHANGED vars
  <2>1. UNCHANGED <<place, status>>
    BY <1>8 DEF GetLoops, GetTimesOut, Get, CancelAwaited, Cancel, Age, Shutdown, vars, jobVars
  <2> QED
    BY <2>1
<1> QED
  BY <1>2, <1>4, <1>5, <1>6, <1>7, <1>8 DEF Next, JobStep, CallStep

LEMMA AskedStep == ASSUME IInv, Asked, [Next]_vars PROVE Asked'
<1> USE DEF IInv, Types, Asked
<1>1. \A j \in Jobs : status[j] # "none" => status'[j] # "none"
  <2>1. ASSUME NEW i \in Jobs, NEW new \in Terminal \cup {"running"}, Transition(i, new)
        PROVE  \A j \in Jobs : status[j] # "none" => status'[j] # "none"
    BY <2>1 DEF Transition, Terminal
  <2>2. ASSUME NEW i \in Jobs, StartRunning(i) \/ Conclude(i)
        PROVE  \E new \in Terminal \cup {"running"} : Transition(i, new)
    BY <2>2, ConcludeTo DEF StartRunning
  <2>3. ASSUME NEW c \in Cancellers, CancelMarks(c)
        PROVE  cancels[c] \in Jobs /\ Transition(cancels[c], "cancelled")
    BY <2>3 DEF CancelMarks, Told
  <2>4. ASSUME NEW i \in Jobs, NEW s \in Sessions, Create(i, s)
        PROVE  \A j \in Jobs : status[j] # "none" => status'[j] # "none"
    BY <2>4 DEF Create
  <2>5. ASSUME NEW i \in Jobs,
               \/ AwaitSlot(i) \/ TakeSlot(i) \/ TakeLock(i) \/ RunReturns(i) \/ RunFails(i)
               \/ Cancelled(i) \/ Dies(i) \/ Age(i)
        PROVE  UNCHANGED status
    BY <2>5 DEF AwaitSlot, TakeSlot, TakeLock, RunReturns, RunFails, Cancelled, Dies, Age, jobVars
  <2>6. CASE \/ \E c \in Getters : GetLoops(c) \/ GetTimesOut(c) \/ \E j \in Jobs : Get(c, j)
             \/ \E c \in Cancellers : CancelAwaited(c) \/ \E j \in Jobs : Cancel(c, j)
             \/ Shutdown \/ UNCHANGED vars
    BY <2>6 DEF GetLoops, GetTimesOut, Get, CancelAwaited, Cancel, Shutdown, vars, jobVars
  <2>7. "cancelled" \in Terminal \cup {"running"}
    BY DEF Terminal
  <2> QED
    BY <2>1, <2>2, <2>3, <2>4, <2>5, <2>6, <2>7 DEF Next, JobStep, CallStep
<1>2. ASSUME \A c \in Getters : getter'[c] # "idle" => getter[c] # "idle" /\ waitsFor'[c] = waitsFor[c]
      PROVE  Asked'
  BY <1>1, <1>2 DEF Told
<1>3. ASSUME NEW i \in Jobs, NEW new, Transition(i, new), UNCHANGED waitsFor PROVE Asked'
  BY <1>2, <1>3 DEF Transition
<1>4. ASSUME NEW i \in Jobs, StartRunning(i) \/ Conclude(i) PROVE Asked'
  <2>1. UNCHANGED waitsFor
    BY <1>4 DEF StartRunning, Conclude
  <2>2. \E new : Transition(i, new)
    BY <1>4, ConcludeTo DEF StartRunning
  <2> QED
    BY <1>3, <2>1, <2>2
<1>5. ASSUME NEW c \in Cancellers, CancelMarks(c) PROVE Asked'
  BY <1>3, <1>5 DEF CancelMarks, Told
<1>6. ASSUME NEW c \in Getters, NEW j \in Jobs, Get(c, j) PROVE Asked'
  <2>1. status'[j] # "none"
    BY <1>1, <1>6 DEF Get, Life
  <2> QED
    BY <1>1, <1>6, <2>1 DEF Get, Told
<1>7. ASSUME NEW c \in Getters, GetLoops(c) \/ GetTimesOut(c) PROVE Asked'
  BY <1>2, <1>7 DEF GetLoops, GetTimesOut, GetReturns
<1>8. ASSUME UNCHANGED <<getter, waitsFor>> PROVE Asked'
  BY <1>2, <1>8
<1>9. CASE \/ \E i \in Jobs : \/ AwaitSlot(i) \/ TakeSlot(i) \/ TakeLock(i) \/ RunReturns(i)
                             \/ RunFails(i) \/ Cancelled(i) \/ Dies(i) \/ Age(i)
                             \/ \E s \in Sessions : Create(i, s)
           \/ \E c \in Cancellers : CancelAwaited(c) \/ \E j \in Jobs : Cancel(c, j)
           \/ Shutdown \/ UNCHANGED vars
  BY <1>8, <1>9 DEF AwaitSlot, TakeSlot, TakeLock, RunReturns, RunFails, Cancelled, Dies, Age, Create,
                    CancelAwaited, Cancel, Shutdown, vars, callVars
<1> QED
  BY <1>4, <1>5, <1>6, <1>7, <1>9 DEF Next, JobStep, CallStep

\* What the mapping shows, as values of the variables of the contract.
AsleepFn   == [c \in Getters |-> Asleep(c)]
ReportedFn == [c \in Cancellers |-> Reported(c)]
Shown      == <<jobs, session, status, Using, AsleepFn, ReportedFn>>

\* The contract has FiniteSets of its own.
LEMMA SameSize == ASSUME NEW S PROVE Contract!Cardinality(S) = Cardinality(S)
  BY DEF Cardinality, Contract!Cardinality

\* A step of the contract, or one that it does not see.
Step == Contract!Next \/ UNCHANGED Shown

\* What cancels have returned stays true.
LEMMA ReportsStay ==
    ASSUME CInv, [Next]_vars, UNCHANGED <<canceller, cancels>>
    PROVE  UNCHANGED ReportedFn
<1>1. ASSUME NEW c \in Cancellers PROVE Reported(c)' = Reported(c)
  <2>1. CASE canceller[c] = "returned"
    <3>1. cancels[c] \in Jobs /\ IsTerminal(cancels[c])
      BY <2>1 DEF CInv, IInv, Told
    <3>2. status'[cancels[c]] = status[cancels[c]]
      BY <3>1, TerminalStep DEF CInv
    <3> QED
      BY <3>2 DEF Reported
  <2>2. CASE canceller[c] # "returned"
    BY <2>2 DEF Reported
  <2> QED
    BY <2>1, <2>2
<1> QED
  BY <1>1 DEF ReportedFn

\* A transition is a change of the contract: everybody who sleeps on the job is woken.
LEMMA Becoming ==
    ASSUME CInv, NEW j \in Jobs, NEW new, Transition(j, new), UNCHANGED waitsFor
    PROVE  /\ status' = [status EXCEPT ![j] = new]
           /\ AsleepFn' = [c \in Getters |-> IF AsleepFn[c] = j THEN NoJob ELSE AsleepFn[c]]
<1>1. ASSUME NEW c \in Getters
      PROVE  Asleep(c)' = IF Asleep(c) = j THEN NoJob ELSE Asleep(c)
  <2>1. j # NoJob
    BY ConstantsAssumption
  <2>2. getter'[c] = IF getter[c] = "waiting" /\ waitsFor[c] = j THEN "notified" ELSE getter[c]
    BY DEF Transition
  <2> QED
    BY <2>1, <2>2 DEF Asleep
<1> QED
  BY <1>1 DEF Transition, AsleepFn

LEMMA MapCreate == ASSUME CInv, NEW j \in Jobs, NEW s \in Sessions, Create(j, s) PROVE Step
<1> USE DEF CInv, IInv, Types
<1>1. /\ jobs' = Kept \cup {j} /\ Cardinality(Kept) < MaxJobs
      /\ status[j] = "none" /\ status' = [status EXCEPT ![j] = "queued"]
      /\ session' = [session EXCEPT ![j] = s]
      /\ place' = [place EXCEPT ![j] = "new"] /\ UNCHANGED callVars
  BY DEF Create, Moves
<1>2. UNCHANGED ReportedFn
  BY <1>1, ReportsStay DEF Next, callVars
<1>3. UNCHANGED <<Using, AsleepFn>>
  <2>1. place[j] = "none"
    BY <1>1 DEF Life
  <2> QED
    BY <1>1, <2>1 DEF Using, AsleepFn, Asleep, callVars
<1>4. Cardinality(jobs') <= MaxJobs
  BY TableStep DEF Next, Table
<1>5. \A i \in jobs : status[i] \in {"succeeded", "failed", "cancelled"} \/ i \in jobs'
  BY <1>1 DEF Kept, Life, IsTerminal, Terminal
<1>6. Contract!Submit(j, s)
  BY <1>1, <1>2, <1>3, <1>4, <1>5, SameSize DEF Contract!Submit, Contract!Over, Kept, AsleepFn, ReportedFn
<1> QED
  BY <1>6 DEF Contract!Next, Step

\* The job has its slot and its session's lock: the profile is free, and so is one of the
\* places beside it.
LEMMA MapStart == ASSUME CInv, NEW j \in Jobs, StartRunning(j) PROVE Step
<1> USE DEF CInv, IInv, Types
<1>1. /\ place[j] = "starting" /\ place' = [place EXCEPT ![j] = "running"]
      /\ Transition(j, "running") /\ UNCHANGED <<jobs, session, waitsFor, canceller, cancels>>
  BY DEF StartRunning, Moves
<1>2. status[j] = "queued" /\ j \in jobs
  BY <1>1 DEF Stages, Life
<1>3. UNCHANGED ReportedFn
  BY <1>1, ReportsStay DEF Next, JobStep
<1>4. /\ status' = [status EXCEPT ![j] = "running"]
      /\ AsleepFn' = [c \in Getters |-> IF AsleepFn[c] = j THEN NoJob ELSE AsleepFn[c]]
  BY <1>1, Becoming
<1>5. j \notin Using /\ Using' = Using \cup {j}
  BY <1>1 DEF Using
<1>6. \A i \in Using : session[i] # session[j]
  <2>1. ASSUME NEW i \in Using, session[i] = session[j] PROVE FALSE
    <3>1. i \in Jobs /\ place[i] \in Holding /\ place[j] \in Holding /\ i # j
      BY <1>1, <1>5 DEF Using, Holding
    <3>2. lockOf[i] = lockOf[j]
      BY <2>1, <3>1 DEF Locked
    <3> QED
      BY <3>1, <3>2 DEF Locked
  <2> QED
    BY <2>1
<1>7. Cardinality(Using) < MaxConcurrentJobs
  <2>1. Using \subseteq InUse \ {j} /\ j \in InUse
    BY <1>1 DEF Using, InUse, Holding
  <2>2. /\ IsFiniteSet(InUse) /\ IsFiniteSet(InUse \ {j})
        /\ Cardinality(InUse \ {j}) = Cardinality(InUse) - 1
    BY <2>1, FS_RemoveElement DEF Slots
  <2>3. Cardinality(Using) <= Cardinality(InUse) - 1 /\ Cardinality(Using) \in Nat
    BY <2>1, <2>2, FS_Subset, FS_CardinalityType
  <2>4. Cardinality(InUse) <= MaxConcurrentJobs /\ Cardinality(InUse) \in Nat
    BY <2>2, FS_CardinalityType, ConstantsAssumption DEF Slots
  <2> QED
    BY <2>3, <2>4, ConstantsAssumption
<1>8. Contract!Begin(j)
  BY <1>1, <1>2, <1>3, <1>4, <1>5, <1>6, <1>7, SameSize DEF Contract!Begin, Contract!Becomes, AsleepFn, ReportedFn
<1> QED
  BY <1>8 DEF Contract!Next, Step

\* The task goes on, out of the runner or nowhere a caller can see.
LEMMA MapTask ==
    ASSUME CInv, NEW j \in Jobs,
           \/ AwaitSlot(j) \/ TakeSlot(j) \/ TakeLock(j) \/ RunReturns(j) \/ RunFails(j) \/ Cancelled(j)
           \/ Dies(j)
    PROVE  Step
<1> USE DEF CInv, IInv, Types
<1>1. PICK to \in Places \ {"running"} : place' = [place EXCEPT ![j] = to]
  BY DEF AwaitSlot, TakeSlot, TakeLock, RunReturns, RunFails, Cancelled, Dies, Moves, Places, Queued, Holding
<1>2. UNCHANGED <<jobVars, callVars>>
  BY DEF AwaitSlot, TakeSlot, TakeLock, RunReturns, RunFails, Cancelled, Dies
<1>3. UNCHANGED <<jobs, session, status, AsleepFn, ReportedFn>>
  BY <1>2 DEF jobVars, callVars, AsleepFn, Asleep, ReportedFn, Reported
<1>4. Using' = Using \ {j}
  BY <1>1 DEF Using
<1>5. CASE j \notin Using
  BY <1>3, <1>4, <1>5 DEF Shown, Step
<1>6. CASE j \in Using
  <2>1. status[j] = "running"
    BY <1>6 DEF Using, Stages
  <2>2. Contract!LetGo(j)
    BY <1>3, <1>4, <1>6, <2>1 DEF Contract!LetGo, AsleepFn, ReportedFn
  <2> QED
    BY <2>2 DEF Contract!Next, Step
<1> QED
  BY <1>5, <1>6

LEMMA MapConclude == ASSUME CInv, NEW j \in Jobs, Conclude(j) PROVE Step
<1> USE DEF CInv, IInv, Types
<1>1. PICK end \in Terminal : Transition(j, end) /\ (place[j] = "cancelled" <=> end = "cancelled")
  BY ConcludeTo
<1>2. /\ place[j] \in {"succeeding", "failing", "cancelled"} /\ place' = [place EXCEPT ![j] = "ended"]
      /\ UNCHANGED <<jobs, session, waitsFor, canceller, cancels>>
  BY DEF Conclude, Moves
<1>3. UNCHANGED ReportedFn
  BY <1>2, ReportsStay DEF Next, JobStep
<1>4. /\ status' = [status EXCEPT ![j] = end]
      /\ AsleepFn' = [c \in Getters |-> IF AsleepFn[c] = j THEN NoJob ELSE AsleepFn[c]]
  BY <1>1, <1>2, Becoming
<1>5. j \notin Using /\ UNCHANGED Using
  BY <1>2 DEF Using
<1>6. /\ j \in jobs /\ status[j] \notin {"succeeded", "failed", "cancelled"}
      /\ end # "cancelled" => status[j] = "running"
  BY <1>1, <1>2 DEF Life, Stages
<1>7. Contract!End(j, end)
  BY <1>2, <1>3, <1>4, <1>5, <1>6 DEF Contract!End, Contract!Becomes, Contract!Over, AsleepFn, ReportedFn
<1> QED
  BY <1>7 DEF Contract!Next, Step, Terminal

\* The calls of get see nothing but themselves.
LEMMA MapGet ==
    ASSUME CInv, NEW c \in Getters, GetLoops(c) \/ GetTimesOut(c) \/ \E j \in Jobs : Get(c, j)
    PROVE  Step
<1> USE DEF CInv, IInv, Types
<1>1. UNCHANGED <<jobs, session, status, Using, ReportedFn>>
  <2>1. UNCHANGED <<jobs, session, status, place, canceller, cancels>>
    BY DEF GetLoops, GetTimesOut, Get, jobVars
  <2> QED
    BY <2>1 DEF Using, ReportedFn, Reported
<1>2. \A d \in Getters \ {c} : Asleep(d)' = Asleep(d)
  BY DEF GetLoops, GetTimesOut, Get, GetReturns, Asleep
<1>3. CASE Asleep(c)' = NoJob
  <2>1. AsleepFn' = [AsleepFn EXCEPT ![c] = NoJob]
    BY <1>2, <1>3 DEF AsleepFn
  <2>2. Contract!TimeOut(c)
    BY <1>1, <2>1 DEF Contract!TimeOut, AsleepFn, ReportedFn
  <2> QED
    BY <2>2 DEF Contract!Next, Step
<1>4. CASE Asleep(c)' # NoJob
  <2>1. PICK j \in Jobs : Asleep(c) = NoJob /\ Asleep(c)' = j /\ ~IsTerminal(j) /\ j \in jobs
    <3>1. CASE GetLoops(c)
      <4>1. /\ getter[c] = "notified" /\ ~IsTerminal(waitsFor[c])
            /\ getter'[c] = "waiting" /\ waitsFor' = waitsFor
        BY <1>4, <3>1 DEF GetLoops, GetReturns, Asleep
      <4>2. waitsFor[c] \in jobs
        <5>1. waitsFor[c] \in Jobs
          BY <4>1 DEF Told
        <5> QED
          BY <4>1, <5>1 DEF Table, Asked, IsTerminal, Terminal
      <4> QED
        BY <4>1, <4>2 DEF Asleep
    <3>2. CASE GetTimesOut(c)
      BY <1>4, <3>2 DEF GetTimesOut, GetReturns, Asleep
    <3>3. ASSUME NEW i \in Jobs, Get(c, i)
          PROVE  Asleep(c) = NoJob /\ Asleep(c)' = i /\ ~IsTerminal(i) /\ i \in jobs
      BY <3>3 DEF Get, Asleep
    <3> QED
      BY <3>1, <3>2, <3>3
  <2>2. AsleepFn[c] = NoJob /\ AsleepFn' = [AsleepFn EXCEPT ![c] = j]
    BY <1>2, <2>1 DEF AsleepFn
  <2>3. Contract!Sleep(c, j)
    BY <1>1, <2>1, <2>2 DEF Contract!Sleep, Contract!Over, IsTerminal, Terminal, AsleepFn, ReportedFn
  <2> QED
    BY <2>3 DEF Contract!Next, Step
<1> QED
  BY <1>3, <1>4

\* cancel returns the end of the job, at once, when the task has ended, or after it has
\* set the status itself.
LEMMA MapCancel ==
    ASSUME CInv, NEW c \in Cancellers, CancelAwaited(c) \/ CancelMarks(c) \/ \E j \in Jobs : Cancel(c, j)
    PROVE  Step
<1> USE DEF CInv, IInv, Types
<1>0. [Next]_vars
  BY DEF Next, CallStep
<1>1. UNCHANGED <<jobs, session, Using, waitsFor>>
  BY DEF CancelAwaited, CancelMarks, Cancel, jobVars, Using
<1>2. /\ canceller[c] # "returned"
      /\ \A d \in Cancellers \ {c} : canceller'[d] = canceller[d] /\ cancels'[d] = cancels[d]
  BY DEF CancelAwaited, CancelMarks, Cancel
<1>3. \A d \in Cancellers \ {c} : Reported(d)' = Reported(d)
  <2>1. ASSUME NEW d \in Cancellers \ {c}, canceller[d] = "returned" PROVE Reported(d)' = Reported(d)
    <3>1. cancels[d] \in Jobs /\ IsTerminal(cancels[d])
      BY <2>1 DEF Told
    <3>2. status'[cancels[d]] = status[cancels[d]]
      BY <1>0, <3>1, TerminalStep
    <3> QED
      BY <1>2, <3>2 DEF Reported
  <2> QED
    BY <1>2, <2>1 DEF Reported
<1>4. ReportedFn[c] = <<>>
  BY <1>2 DEF ReportedFn, Reported
<1> DEFINE j == cancels'[c]
<1>5. CASE canceller'[c] # "returned"
  <2>1. UNCHANGED <<status, AsleepFn>>
    BY <1>5 DEF CancelAwaited, CancelMarks, Cancel, jobVars, AsleepFn, Asleep
  <2>2. UNCHANGED ReportedFn
    BY <1>2, <1>3, <1>5 DEF ReportedFn, Reported
  <2> QED
    BY <1>1, <2>1, <2>2 DEF Shown, Step
<1>6. CASE canceller'[c] = "returned"
  <2>1. j \in Jobs /\ ReportedFn' = [ReportedFn EXCEPT ![c] = <<j, status'[j]>>]
    <3>1. j \in Jobs
      BY <1>6 DEF CancelAwaited, CancelMarks, Cancel, Told
    <3>2. Reported(c)' = <<j, status'[j]>>
      BY <1>6 DEF Reported
    <3> QED
      BY <1>3, <3>1, <3>2 DEF ReportedFn
  <2>2. CASE IsTerminal(j)
    <3>1. UNCHANGED <<status, AsleepFn>>
      <4>1. CASE CancelMarks(c)
        <5>1. j = cancels[c] /\ status[j] = "cancelled" /\ Transition(j, "cancelled")
          BY <2>1, <2>2, <4>1 DEF CancelMarks, Told, IsTerminal, Terminal
        <5>2. status' = status
          BY <2>1, <5>1 DEF Transition
        <5>3. \A d \in Getters : getter'[d] = getter[d]
          BY <2>2, <5>1 DEF Transition, Told
        <5> QED
          BY <1>1, <5>2, <5>3 DEF AsleepFn, Asleep
      <4>2. CASE ~CancelMarks(c)
        BY <4>2 DEF CancelAwaited, Cancel, jobVars, AsleepFn, Asleep
      <4> QED
        BY <4>1, <4>2
    <3>2. Contract!Report(c, j)
      BY <1>1, <1>4, <2>1, <2>2, <3>1
      DEF Contract!Report, Contract!Tells, Contract!Over, IsTerminal, Terminal, AsleepFn, ReportedFn
    <3> QED
      BY <2>1, <3>2 DEF Contract!Next, Step
  <2>3. CASE ~IsTerminal(j)
    <3>1. CancelMarks(c) /\ j = cancels[c] /\ Transition(j, "cancelled")
      BY <1>6, <2>3 DEF CancelAwaited, CancelMarks, Cancel
    <3>2. /\ status' = [status EXCEPT ![j] = "cancelled"]
          /\ AsleepFn' = [d \in Getters |-> IF AsleepFn[d] = j THEN NoJob ELSE AsleepFn[d]]
      BY <1>1, <2>1, <3>1, Becoming
    <3>3. status'[j] = "cancelled"
      BY <2>1, <3>2
    <3>4. j \in jobs /\ j \notin Using
      BY <2>1, <2>3, <3>1 DEF CancelMarks, Told, Using, Table, IsTerminal, Terminal
    <3>5. Contract!End(j, "cancelled")
      BY <1>1, <1>4, <2>1, <2>3, <3>2, <3>3, <3>4
      DEF Contract!End, Contract!Tells, Contract!Becomes, Contract!Over, IsTerminal, Terminal, AsleepFn, ReportedFn
    <3> QED
      BY <2>1, <3>5 DEF Contract!Next, Step
  <2> QED
    BY <2>2, <2>3
<1> QED
  BY <1>5, <1>6

LEMMA MapOthers == ASSUME CInv, (\E j \in Jobs : Age(j)) \/ Shutdown \/ UNCHANGED vars PROVE Step
<1>1. UNCHANGED <<jobs, session, status, place, callVars>>
  BY DEF Age, Shutdown, vars, jobVars
<1> QED
  BY <1>1 DEF Shown, Step, Using, AsleepFn, Asleep, ReportedFn, Reported, callVars

\* The manager implements what it promises (create, get, cancel), whichever await a
\* cancellation, a timeout or a shutdown hits, for any number of jobs, sessions and calls.
THEOREM Implements == Spec => KeepsContract
<1>1. Init => CInv
  <2>1. ASSUME Init PROVE Table /\ Stages /\ Asked
    BY <2>1, FS_EmptySet, ConstantsAssumption DEF Init, Table, Stages, Asked, Queued
  <2> QED
    BY <2>1, InitHolds DEF CInv
<1>2. CInv /\ [Next]_vars => CInv'
  BY TypesStep, SlotsStep, LifeStep, LockedStep, ToldStep, TableStep, StagesStep, AskedStep DEF CInv, IInv
<1>3. Init => Contract!Init
  <2>1. ASSUME Init
        PROVE  Using = {} /\ AsleepFn = [c \in Getters |-> NoJob] /\ ReportedFn = [c \in Cancellers |-> <<>>]
    BY <2>1 DEF Init, Using, AsleepFn, Asleep, ReportedFn, Reported
  <2> QED
    BY <2>1 DEF Init, Contract!Init, AsleepFn, ReportedFn
<1>4. CInv /\ [Next]_vars => [Contract!Next]_(Contract!vars)
  <2>1. ASSUME CInv, [Next]_vars PROVE Step
    BY <2>1, MapCreate, MapStart, MapTask, MapConclude, MapGet, MapCancel, MapOthers DEF Next, JobStep, CallStep
  <2>2. Contract!vars' = Contract!vars <=> Shown' = Shown
    BY DEF Contract!vars, Shown, AsleepFn, ReportedFn
  <2> QED
    BY <2>1, <2>2 DEF Step
<1> QED
  BY <1>1, <1>2, <1>3, <1>4, PTL DEF Spec, KeepsContract, Contract!Spec
=============================================================================
