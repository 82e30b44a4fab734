------------------------ MODULE TaskSchedulerProofs ------------------------
(***************************************************************************)
(* Theorems about TaskScheduler, for every number of schedules, launches,  *)
(* loops and API calls, with failing stores, crashes and restarts.         *)
(***************************************************************************)
EXTENDS TaskScheduler, TLAPS

\* The deferred clean-up is the only way out of inFlight: a live goroutine is the
\* one its schedule's handle belongs to.
InFlightOwned == \A r \in Runs : Live(r) => of[r] \in Schedules /\ inFlight[of[r]] = r

\* Between its two writes a closing run holds lifecycleMu, so its schedule stays.
ClosingHolds == \A r \in Runs : runPc[r] = "closing" => lifecycleMu = r /\ Present(of[r])

\* A row in the store carries an id that newTaskID has handed out.
RowsCreated == \A s \in Schedules : Present(s) => s \in created

IInv == TypeOK /\ InFlightOwned /\ ClosingHolds /\ RowsCreated

-----------------------------------------------------------------------------
(* What the end of a run does to its schedule's row.                       *)

\* Closed returns a schedule row.
LEMMA ClosedType ==
    ASSUME NEW rec \in ScheduleRecord, NEW result \in RunStatuses
    PROVE  Closed(rec, result) \in ScheduleRecord
<1> DEFINE c == Closed(rec, result)
<1>1. c = [status |-> c.status, runCount |-> c.runCount, maxRuns |-> c.maxRuns,
           due |-> c.due, last |-> c.last]
  BY DEF Closed
<1>2. c.status \in Statuses /\ c.due \in BOOLEAN
  BY DEF Closed, ScheduleRecord, Statuses
<1>3. c.runCount \in Nat /\ c.maxRuns \in Nat /\ c.last \in RunStatuses \cup {"none"}
  BY DEF Closed, ScheduleRecord
<1> HIDE DEF c
<1>4. c \in ScheduleRecord
  BY <1>1, <1>2, <1>3 DEF ScheduleRecord
<1> QED
  BY <1>4 DEF c

\* Closed never creates, revives or pauses a schedule.
LEMMA ClosedStatus ==
    ASSUME NEW rec \in ScheduleRecord, NEW result \in RunStatuses
    PROVE  /\ rec.status # "active" => Closed(rec, result).status = rec.status
           /\ rec.status = "active" => Closed(rec, result).status \in {"active", "completed"}
  BY DEF Closed, ScheduleRecord, Statuses, RunStatuses, Finished

-----------------------------------------------------------------------------
(* The type invariant.                                                     *)

\* Changing when a row is due, its status or its last result leaves a schedule row.
LEMMA RecordUpdates ==
    ASSUME NEW rec \in ScheduleRecord, NEW st \in Statuses
    PROVE  /\ [rec EXCEPT !.status = st] \in ScheduleRecord
           /\ [rec EXCEPT !.due = TRUE] \in ScheduleRecord
           /\ [rec EXCEPT !.status = st, !.due = TRUE] \in ScheduleRecord
           /\ [rec EXCEPT !.due = FALSE, !.last = "running"] \in ScheduleRecord
<1>1. [rec EXCEPT !.status = st] \in ScheduleRecord
  BY DEF ScheduleRecord
<1>2. [rec EXCEPT !.due = TRUE] \in ScheduleRecord
  BY DEF ScheduleRecord
<1>3. [rec EXCEPT !.status = st, !.due = TRUE] \in ScheduleRecord
  BY DEF ScheduleRecord
<1>4. "running" \in RunStatuses \cup {"none"}
  BY DEF RunStatuses
<1>5. [rec EXCEPT !.due = FALSE, !.last = "running"] \in ScheduleRecord
  BY <1>4 DEF ScheduleRecord
<1> QED
  BY <1>1, <1>2, <1>3, <1>5

LEMMA AbsentType == Absent \in ScheduleRecord
  BY DEF Absent, ScheduleRecord, Statuses

LEMMA TypeInit == Init => TypeOK
<1> SUFFICES ASSUME Init PROVE TypeOK
  OBVIOUS
<1>1. schedule \in [Schedules -> ScheduleRecord]
  BY AbsentType DEF Init
<1>2. op \in [Callers -> CallRecord]
  BY DEF Init, CallRecord, Idle
<1>3. runPc \in [Runs -> RunPlaces] /\ outcome \in [Runs -> RunStatuses]
  BY DEF Init, RunPlaces, RunStatuses
<1> QED
  BY <1>1, <1>2, <1>3, ConstantsAssumption DEF Init, TypeOK

LEMMA TypeStep == TypeOK /\ InFlightOwned /\ [Next]_vars => TypeOK'
<1> SUFFICES ASSUME TypeOK, InFlightOwned, [Next]_vars PROVE TypeOK'
  OBVIOUS
<1> USE ConstantsAssumption
<1>1. ASSUME NEW l \in Loops, Start(l) PROVE TypeOK'
  BY <1>1 DEF TypeOK, Start, storeVars, runVars, historyVars
<1>2. ASSUME NEW l \in Loops, LoopList(l) \/ LoopListFails(l) PROVE TypeOK'
  BY <1>2 DEF TypeOK, LoopList, LoopListFails, storeVars, runVars, historyVars
<1>3. ASSUME NEW l \in Loops, LoopAbort(l) \/ LoopPoll(l) \/ LoopExit(l) PROVE TypeOK'
  BY <1>3 DEF TypeOK, LoopAbort, LoopPoll, LoopExit, storeVars, runVars, historyVars
<1>4. ASSUME NEW l \in Loops, NEW s \in Schedules, LoopSkip(l, s) PROVE TypeOK'
  BY <1>4 DEF TypeOK, LoopSkip, storeVars, runVars, historyVars
<1>5. ASSUME NEW l \in Loops, NEW s \in Schedules, NEW r \in Runs, Launch(l, s, r) PROVE TypeOK'
  BY <1>5 DEF TypeOK, Launch, storeVars, historyVars, RunPlaces
<1>6. ASSUME NEW r \in Runs, MarkRefused(r) \/ MarkFailed(r) \/ CloseGone(r) PROVE TypeOK'
  BY <1>6 DEF TypeOK, MarkRefused, MarkFailed, CloseGone, storeVars, loopVars, historyVars, RunPlaces
<1>7. ASSUME NEW r \in Runs, MarkRun(r) PROVE TypeOK'
  <2>1. \A s \in Schedules :
          [schedule[s] EXCEPT !.due = FALSE, !.last = "running"] \in ScheduleRecord
    BY RecordUpdates DEF TypeOK, Statuses
  <2>2. schedule' \in [Schedules -> ScheduleRecord]
    BY <1>7, <2>1 DEF TypeOK, MarkRun
  <2> QED
    BY <1>7, <2>2 DEF TypeOK, MarkRun, loopVars, RunPlaces
<1>8. ASSUME NEW r \in Runs, RecordRun(r) \/ Execute(r) PROVE TypeOK'
  BY <1>8 DEF TypeOK, RecordRun, Execute, storeVars, loopVars, historyVars, RunPlaces, RunStatuses, Finished
<1>9. ASSUME NEW r \in Runs, CloseRow(r) PROVE TypeOK'
  BY <1>9 DEF TypeOK, CloseRow, loopVars, historyVars, RunPlaces, RunStatuses, Finished
<1>10. ASSUME NEW r \in Runs, CloseSchedule(r) PROVE TypeOK'
  <2>1. \A s \in Schedules : Closed(schedule[s], outcome[r]) \in ScheduleRecord
    BY ClosedType DEF TypeOK
  <2>2. schedule' \in [Schedules -> ScheduleRecord]
    BY <1>10, <2>1 DEF TypeOK, CloseSchedule
  <2>3. owed' \subseteq Schedules
    BY <1>10 DEF TypeOK, InFlightOwned, Live, CloseSchedule
  <2> QED
    BY <1>10, <2>2, <2>3 DEF TypeOK, CloseSchedule, loopVars, RunPlaces
<1>11. ASSUME NEW r \in Runs, RunExit(r) PROVE TypeOK'
  BY <1>11 DEF TypeOK, RunExit, storeVars, loopVars, historyVars, RunPlaces, RunStatuses
<1>12. ASSUME NEW c \in Callers, StopSignal(c) \/ StopWait(c) \/ PauseCancel(c) PROVE TypeOK'
  <2>1. cancelled' \in [Runs -> BOOLEAN] /\ loopCancelled' \in [Loops -> BOOLEAN]
    <3>1. CASE StopSignal(c)
      BY <3>1 DEF TypeOK, StopSignal
    <3>2. CASE StopWait(c)
      BY <3>2 DEF TypeOK, StopWait, loopVars, runVars
    <3>3. CASE PauseCancel(c)
      BY <3>3 DEF TypeOK, PauseCancel, Cancel, loopVars
    <3> QED  BY <1>12, <3>1, <3>2, <3>3
  <2>2. op' \in [Callers -> CallRecord]
    BY <1>12 DEF TypeOK, StopSignal, StopWait, PauseCancel, CallRecord, Idle
  <2> QED
    BY <1>12, <2>1, <2>2 DEF TypeOK, StopSignal, StopWait, PauseCancel, storeVars, loopVars,
                             runVars, historyVars
<1>13. ASSUME NEW c \in Callers, DeleteRows(c) PROVE TypeOK'
  <2>1. op' \in [Callers -> CallRecord]
    BY <1>13 DEF TypeOK, DeleteRows, CallRecord, Idle
  <2>2. schedule' \in [Schedules -> ScheduleRecord]
    BY <1>13, AbsentType DEF TypeOK, DeleteRows
  <2>3. row' \in [Runs -> RunStatuses \cup {"absent"}] /\ owed' \subseteq Schedules
    BY <1>13 DEF TypeOK, DeleteRows
  <2> QED
    BY <1>13, <2>1, <2>2, <2>3 DEF TypeOK, DeleteRows, loopVars, runVars
<1>14. ASSUME NEW c \in Callers, NEW s \in Schedules, Pause(c, s) PROVE TypeOK'
  <2>1. op' \in [Callers -> CallRecord]
    BY <1>14 DEF TypeOK, Pause, CallRecord
  <2>2. [schedule[s] EXCEPT !.status = "paused"] \in ScheduleRecord
    BY RecordUpdates DEF TypeOK, Statuses
  <2> QED
    BY <1>14, <2>1, <2>2 DEF TypeOK, Pause, loopVars, runVars
<1>15. ASSUME NEW c \in Callers, NEW s \in Schedules, DeleteCancel(c, s) PROVE TypeOK'
  BY <1>15 DEF TypeOK, DeleteCancel, Cancel, storeVars, loopVars, historyVars, CallRecord
<1>16. ASSUME NEW s \in Schedules, NEW m \in MaxRunsChoices, Create(s, m) PROVE TypeOK'
  <2>1. [Absent EXCEPT !.status = "active", !.maxRuns = m] \in ScheduleRecord
    BY DEF Absent, ScheduleRecord, Statuses
  <2> QED
    BY <1>16, <2>1 DEF TypeOK, Create, loopVars, runVars, historyVars
<1>17. ASSUME NEW s \in Schedules, Resume(s) PROVE TypeOK'
  <2>1. [schedule[s] EXCEPT !.status = "active", !.due = TRUE] \in ScheduleRecord
    BY RecordUpdates DEF TypeOK, Statuses
  <2> QED
    BY <1>17, <2>1 DEF TypeOK, Resume, loopVars, runVars
<1>18. ASSUME NEW s \in Schedules, RunNow(s) \/ Elapse(s) PROVE TypeOK'
  <2>1. [schedule[s] EXCEPT !.due = TRUE] \in ScheduleRecord
    BY RecordUpdates DEF TypeOK, Statuses
  <2>2. schedule' = [schedule EXCEPT ![s] = [schedule[s] EXCEPT !.due = TRUE]]
    BY <1>18 DEF RunNow, Elapse
  <2>3. schedule' \in [Schedules -> ScheduleRecord]
    BY <2>1, <2>2 DEF TypeOK
  <2>4. owed' \subseteq Schedules
    BY <1>18 DEF TypeOK, RunNow, Elapse
  <2> QED
    BY <1>18, <2>3, <2>4 DEF TypeOK, RunNow, Elapse, loopVars, runVars
<1>19. CASE Crash
  <2>1. op' \in [Callers -> CallRecord]
    BY <1>19 DEF Crash, CallRecord, Idle
  <2>2. runPc' \in [Runs -> RunPlaces] /\ outcome' \in [Runs -> RunStatuses]
    BY <1>19 DEF TypeOK, Crash, RunPlaces, RunStatuses
  <2>3. loopPc' \in [Loops -> {"unborn", "listing", "dispatching", "dead"}]
    BY <1>19 DEF TypeOK, Crash
  <2>4. cancelled' \in [Runs -> BOOLEAN] /\ loopCancelled' \in [Loops -> BOOLEAN]
    BY <1>19 DEF TypeOK, Crash
  <2>5. current' \in Loops \cup {NoLoop} /\ lifecycleMu' \in Runs \cup {NoRun} /\ crashes' \in Nat
    BY <1>19 DEF TypeOK, Crash
  <2>6. inFlight' \in [Schedules -> Runs \cup {NoRun}] /\ todo' \in [Loops -> SUBSET Schedules]
    BY <1>19 DEF TypeOK, Crash
  <2> QED
    BY <1>19, <2>1, <2>2, <2>3, <2>4, <2>5, <2>6 DEF TypeOK, Crash, storeVars
<1>20. CASE UNCHANGED vars
  BY <1>20 DEF TypeOK, vars, storeVars, loopVars, runVars, historyVars
<1> QED
  BY <1>1, <1>2, <1>3, <1>4, <1>5, <1>6, <1>7, <1>8, <1>9, <1>10, <1>11, <1>12, <1>13, <1>14,
     <1>15, <1>16, <1>17, <1>18, <1>19, <1>20
  DEF Next, LoopStep, RunStep, CallStep

-----------------------------------------------------------------------------
(* The in-flight guard.                                                    *)

LEMMA InFlightStep == TypeOK /\ InFlightOwned /\ [Next]_vars => InFlightOwned'
<1> SUFFICES ASSUME TypeOK, InFlightOwned, [Next]_vars PROVE InFlightOwned'
  OBVIOUS
<1> USE DEF InFlightOwned, Live
<1>1. ASSUME NEW l \in Loops, NEW s \in Schedules, NEW r \in Runs, Launch(l, s, r)
      PROVE  InFlightOwned'
  <2>1. \A q \in Runs : Live(q) => of[q] # s
    BY <1>1, ConstantsAssumption DEF Launch
  <2> QED
    BY <1>1, <2>1 DEF Launch, TypeOK
<1>2. ASSUME NEW r \in Runs, RunExit(r) PROVE InFlightOwned'
  <2>1. \A q \in Runs : Live(q) /\ q # r => of[q] # of[r]
    BY <1>2 DEF RunExit
  <2> QED
    BY <1>2, <2>1 DEF RunExit, TypeOK
<1>3. ASSUME NEW r \in Runs,
             MarkRefused(r) \/ MarkRun(r) \/ MarkFailed(r) \/ RecordRun(r) \/ Execute(r)
             \/ CloseGone(r) \/ CloseRow(r) \/ CloseSchedule(r)
      PROVE  InFlightOwned'
  BY <1>3 DEF MarkRefused, MarkRun, MarkFailed, RecordRun, Execute, CloseGone, CloseRow,
              CloseSchedule, TypeOK
<1>4. CASE Crash
  BY <1>4 DEF Crash
<1>5. ASSUME UNCHANGED <<inFlight, runPc, of>> PROVE InFlightOwned'
  BY <1>5
<1>6. ASSUME NEW l \in Loops, Start(l) \/ LoopList(l) \/ LoopListFails(l) \/ LoopAbort(l) \/ LoopPoll(l) \/ LoopExit(l)
      PROVE  InFlightOwned'
  BY <1>5, <1>6 DEF Start, LoopList, LoopListFails, LoopAbort, LoopPoll, LoopExit, runVars
<1>7. ASSUME NEW l \in Loops, NEW s \in Schedules, LoopSkip(l, s) PROVE InFlightOwned'
  BY <1>5, <1>7 DEF LoopSkip, runVars
<1>8. ASSUME NEW c \in Callers, CallStep(c) PROVE InFlightOwned'
  BY <1>5, <1>8 DEF CallStep, StopSignal, StopWait, PauseCancel, DeleteRows, Pause, DeleteCancel,
                    runVars
<1>9. ASSUME NEW s \in Schedules, Resume(s) \/ RunNow(s) \/ Elapse(s)
      PROVE  InFlightOwned'
  BY <1>5, <1>9 DEF Resume, RunNow, Elapse, runVars
<1>10. ASSUME NEW s \in Schedules, NEW m \in MaxRunsChoices, Create(s, m) PROVE InFlightOwned'
  BY <1>5, <1>10 DEF Create, runVars
<1>11. CASE UNCHANGED vars
  BY <1>5, <1>11 DEF vars, runVars
<1> QED
  BY <1>1, <1>2, <1>3, <1>4, <1>6, <1>7, <1>8, <1>9, <1>10, <1>11 DEF Next, LoopStep, RunStep

\* The worker's type correctness, whatever the interleaving, the store's failures
\* and the crashes (execute, dispatchDue and the API of task_scheduler.go).
THEOREM TypeCorrect == Spec => []TypeOK
<1>1. Init => TypeOK /\ InFlightOwned
  BY TypeInit DEF Init, InFlightOwned, Live
<1>2. TypeOK /\ InFlightOwned /\ [Next]_vars => (TypeOK /\ InFlightOwned)'
  BY TypeStep, InFlightStep
<1> QED
  BY <1>1, <1>2, PTL DEF Spec

\* No two runs of one schedule are alive at once: startRun's guard on inFlight is
\* enough, across Stop and Start, pauses, deletions, failures and crashes.
THEOREM InFlightGuard == Spec => []NoOverlap
<1>1. Init => TypeOK /\ InFlightOwned
  BY TypeInit DEF Init, InFlightOwned, Live
<1>2. TypeOK /\ InFlightOwned /\ [Next]_vars => (TypeOK /\ InFlightOwned)'
  BY TypeStep, InFlightStep
<1>3. InFlightOwned => NoOverlap
  BY DEF InFlightOwned, NoOverlap
<1> QED
  BY <1>1, <1>2, <1>3, PTL DEF Spec

-----------------------------------------------------------------------------
(* Closing a run under the mutex.                                          *)

LEMMA ClosingStep == IInv /\ [Next]_vars => ClosingHolds'
<1> SUFFICES ASSUME IInv, [Next]_vars PROVE ClosingHolds'
  OBVIOUS
<1> USE ConstantsAssumption DEF IInv, ClosingHolds
<1>1. ASSUME NEW r \in Runs, CloseRow(r) PROVE ClosingHolds'
  BY <1>1 DEF CloseRow, Unlocked, Present, TypeOK
<1>2. ASSUME NEW r \in Runs, CloseSchedule(r) PROVE ClosingHolds'
  BY <1>2 DEF CloseSchedule, TypeOK, RunPlaces
<1>3. ASSUME NEW r \in Runs, MarkRun(r) PROVE ClosingHolds'
  BY <1>3 DEF MarkRun, Unlocked, TypeOK
<1>4. ASSUME NEW r \in Runs,
             MarkRefused(r) \/ MarkFailed(r) \/ RecordRun(r) \/ Execute(r) \/ CloseGone(r) \/ RunExit(r)
      PROVE  ClosingHolds'
  BY <1>4 DEF MarkRefused, MarkFailed, RecordRun, Execute, CloseGone, RunExit, storeVars, Present,
              TypeOK
<1>5. ASSUME NEW l \in Loops, NEW s \in Schedules, NEW r \in Runs, Launch(l, s, r)
      PROVE  ClosingHolds'
  BY <1>5 DEF Launch, storeVars, Present, TypeOK
<1>6. ASSUME NEW s \in Schedules, NEW m \in MaxRunsChoices, Create(s, m) PROVE ClosingHolds'
  <2>1. \A r \in Runs : runPc[r] = "closing" => of[r] # s
    BY <1>6 DEF Create, RowsCreated
  <2> QED
    BY <1>6, <2>1 DEF Create, runVars, Present, TypeOK
<1>7. ASSUME NEW s \in Schedules, Resume(s) \/ RunNow(s) PROVE ClosingHolds'
  BY <1>7 DEF Resume, RunNow, Unlocked, runVars
<1>8. ASSUME NEW s \in Schedules, Elapse(s) PROVE ClosingHolds'
  <2>1. \A q \in Schedules : schedule'[q].status = schedule[q].status
    BY <1>8 DEF Elapse, TypeOK, ScheduleRecord
  <2>2. \A r \in Runs : runPc[r] = "closing" => of[r] \in Schedules
    BY DEF InFlightOwned, Live
  <2> QED
    BY <1>8, <2>1, <2>2 DEF Elapse, runVars, Present
<1>9. ASSUME NEW c \in Callers, NEW s \in Schedules, Pause(c, s) PROVE ClosingHolds'
  BY <1>9 DEF Pause, Unlocked, runVars
<1>10. ASSUME NEW c \in Callers, DeleteRows(c) PROVE ClosingHolds'
  BY <1>10 DEF DeleteRows, Unlocked, runVars
<1>11. CASE Crash
  BY <1>11 DEF Crash
<1>12. ASSUME UNCHANGED <<schedule, runPc, of, lifecycleMu>> PROVE ClosingHolds'
  BY <1>12 DEF Present
<1>13. ASSUME NEW l \in Loops, Start(l) \/ LoopList(l) \/ LoopListFails(l) \/ LoopAbort(l) \/ LoopPoll(l) \/ LoopExit(l)
       PROVE  ClosingHolds'
  BY <1>12, <1>13 DEF Start, LoopList, LoopListFails, LoopAbort, LoopPoll, LoopExit, runVars, storeVars
<1>14. ASSUME NEW l \in Loops, NEW s \in Schedules, LoopSkip(l, s) PROVE ClosingHolds'
  BY <1>12, <1>14 DEF LoopSkip, runVars, storeVars
<1>15. ASSUME NEW c \in Callers, StopSignal(c) \/ StopWait(c) \/ PauseCancel(c) PROVE ClosingHolds'
  BY <1>12, <1>15 DEF StopSignal, StopWait, PauseCancel, runVars, storeVars
<1>16. ASSUME NEW c \in Callers, NEW s \in Schedules, DeleteCancel(c, s) PROVE ClosingHolds'
  BY <1>12, <1>16 DEF DeleteCancel, runVars, storeVars
<1>17. CASE UNCHANGED vars
  BY <1>12, <1>17 DEF vars, runVars, storeVars
<1> QED
  BY <1>1, <1>2, <1>3, <1>4, <1>5, <1>6, <1>7, <1>8, <1>9, <1>10, <1>11, <1>13, <1>14, <1>15,
     <1>16, <1>17 DEF Next, LoopStep, RunStep, CallStep

-----------------------------------------------------------------------------
(* The life of a schedule's status.                                        *)

\* What one step may do to the status of schedule s.
StatusMove(s) ==
    LET old == schedule[s].status
        new == schedule'[s].status
    IN \/ new = old
       \/ new = "absent"
       \/ s \notin created /\ s \in created'
       \/ old = "active" /\ new \in {"completed", "paused"}
       \/ Resume(s) /\ old \in {"active", "paused"} /\ new = "active"

LEMMA StatusStep == IInv /\ [Next]_vars => \A s \in Schedules : StatusMove(s)
<1> SUFFICES ASSUME IInv, [Next]_vars PROVE \A s \in Schedules : StatusMove(s)
  OBVIOUS
<1> USE DEF IInv, StatusMove, TypeOK
<1>1. ASSUME NEW r \in Runs, MarkRun(r) PROVE \A s \in Schedules : StatusMove(s)
  <2>1. [schedule[of[r]] EXCEPT !.due = FALSE, !.last = "running"].status = schedule[of[r]].status
    BY <1>1 DEF MarkRun, InFlightOwned, Live, ScheduleRecord
  <2> QED
    BY <1>1, <2>1 DEF MarkRun
<1>2. ASSUME NEW r \in Runs, CloseSchedule(r) PROVE \A s \in Schedules : StatusMove(s)
  <2>1. of[r] \in Schedules
    BY <1>2 DEF CloseSchedule, InFlightOwned, Live
  <2>2. schedule[of[r]].status # "active" =>
          Closed(schedule[of[r]], outcome[r]).status = schedule[of[r]].status
    BY <2>1, ClosedStatus
  <2>3. schedule[of[r]].status = "active" =>
          Closed(schedule[of[r]], outcome[r]).status \in {"active", "completed"}
    BY <2>1, ClosedStatus
  <2> QED
    BY <1>2, <2>1, <2>2, <2>3 DEF CloseSchedule
<1>3. ASSUME NEW c \in Callers, NEW s \in Schedules, Pause(c, s)
      PROVE  \A q \in Schedules : StatusMove(q)
  BY <1>3 DEF Pause, ScheduleRecord
<1>4. ASSUME NEW c \in Callers, DeleteRows(c) PROVE \A s \in Schedules : StatusMove(s)
  BY <1>4 DEF DeleteRows, Absent
<1>5. ASSUME NEW s \in Schedules, NEW m \in MaxRunsChoices, Create(s, m)
      PROVE  \A q \in Schedules : StatusMove(q)
  BY <1>5 DEF Create
<1>6. ASSUME NEW s \in Schedules, Resume(s) PROVE \A q \in Schedules : StatusMove(q)
  <2>1. [schedule[s] EXCEPT !.status = "active", !.due = TRUE].status = "active"
    BY DEF ScheduleRecord
  <2>2. schedule'[s].status = "active" /\ schedule[s].status \in {"active", "paused"}
    BY <1>6, <2>1 DEF Resume
  <2>3. \A q \in Schedules \ {s} : schedule'[q] = schedule[q]
    BY <1>6 DEF Resume
  <2> QED
    BY <1>6, <2>2, <2>3
<1>7. ASSUME NEW s \in Schedules, RunNow(s) \/ Elapse(s) PROVE \A q \in Schedules : StatusMove(q)
  <2>1. schedule' = [schedule EXCEPT ![s] = [schedule[s] EXCEPT !.due = TRUE]]
    BY <1>7 DEF RunNow, Elapse
  <2>2. [schedule[s] EXCEPT !.due = TRUE].status = schedule[s].status
    BY DEF ScheduleRecord
  <2> QED
    BY <2>1, <2>2
<1>8. ASSUME UNCHANGED schedule PROVE \A s \in Schedules : StatusMove(s)
  BY <1>8
<1>9. ASSUME NEW l \in Loops, Start(l) \/ LoopList(l) \/ LoopListFails(l) \/ LoopAbort(l) \/ LoopPoll(l) \/ LoopExit(l)
      PROVE  UNCHANGED schedule
  BY <1>9 DEF Start, LoopList, LoopListFails, LoopAbort, LoopPoll, LoopExit, storeVars
<1>10. ASSUME NEW l \in Loops, NEW s \in Schedules, NEW r \in Runs, LoopSkip(l, s) \/ Launch(l, s, r)
       PROVE  UNCHANGED schedule
  BY <1>10 DEF LoopSkip, Launch, storeVars
<1>11. ASSUME NEW r \in Runs,
              MarkRefused(r) \/ MarkFailed(r) \/ RecordRun(r) \/ Execute(r) \/ CloseGone(r)
              \/ CloseRow(r) \/ RunExit(r)
       PROVE  UNCHANGED schedule
  BY <1>11 DEF MarkRefused, MarkFailed, RecordRun, Execute, CloseGone, CloseRow, RunExit, storeVars
<1>12. ASSUME NEW c \in Callers, NEW s \in Schedules,
              StopSignal(c) \/ StopWait(c) \/ PauseCancel(c) \/ DeleteCancel(c, s)
       PROVE  UNCHANGED schedule
  BY <1>12 DEF StopSignal, StopWait, PauseCancel, DeleteCancel, storeVars
<1>13. ASSUME NEW l \in Loops, NEW s \in Schedules, LoopSkip(l, s) PROVE UNCHANGED schedule
  BY <1>13 DEF LoopSkip, storeVars
<1>14. ASSUME NEW c \in Callers, StopSignal(c) \/ StopWait(c) \/ PauseCancel(c)
       PROVE  UNCHANGED schedule
  BY <1>14 DEF StopSignal, StopWait, PauseCancel, storeVars
<1>15. Crash \/ UNCHANGED vars => UNCHANGED schedule
  BY DEF Crash, vars, storeVars
<1> QED
  BY <1>1, <1>2, <1>3, <1>4, <1>5, <1>6, <1>7, <1>8, <1>9, <1>10, <1>11, <1>12, <1>13, <1>14, <1>15
  DEF Next, LoopStep, RunStep, CallStep

LEMMA CreatedGrows == [Next]_vars => created \subseteq created'
  BY DEF Next, LoopStep, RunStep, CallStep, Start, LoopList, LoopListFails, LoopAbort, LoopPoll, LoopExit,
         LoopSkip, Launch, MarkRefused, MarkRun, MarkFailed, RecordRun, Execute, CloseGone, CloseRow,
         CloseSchedule, RunExit, Create, Pause, PauseCancel, Resume, RunNow, DeleteCancel,
         DeleteRows, StopSignal, StopWait, Elapse, Crash, vars, storeVars

\* The inductive invariant of the worker.
LEMMA Inductive == Spec => []IInv
<1>1. Init => IInv
  BY TypeInit DEF Init, IInv, InFlightOwned, ClosingHolds, RowsCreated, Live, Present, Absent
<1>2. IInv /\ [Next]_vars => IInv'
  <2> SUFFICES ASSUME IInv, [Next]_vars PROVE IInv'
    OBVIOUS
  <2>1. RowsCreated'
    BY StatusStep, CreatedGrows DEF IInv, RowsCreated, StatusMove, Present
  <2> QED
    BY <2>1, TypeStep, InFlightStep, ClosingStep DEF IInv
<1> QED
  BY <1>1, <1>2, PTL DEF Spec

-----------------------------------------------------------------------------
(* The rows, as the API shows them, implement ScheduleContract.            *)

\* A schedule is executing when a goroutine of it is between MarkRun and its end; by the
\* in-flight guard there is one such goroutine at most.
LEMMA OneUnderWay ==
    ASSUME InFlightOwned, NEW r \in Runs, Live(r), NEW q \in Runs, q # r, runPc[q] \in UnderWay
    PROVE  of[q] # of[r]
  BY DEF InFlightOwned, Live, UnderWay

\* What one row shows of a change of it.
LEMMA ShownChange ==
    ASSUME TypeOK, NEW s \in Schedules, NEW r \in ScheduleRecord,
           schedule' = [schedule EXCEPT ![s] = r]
    PROVE  ShownRows' = [ShownRows EXCEPT ![s] =
               [status |-> r.status, runCount |-> r.runCount, maxRuns |-> r.maxRuns, due |-> r.due]]
  BY DEF TypeOK, ShownRows, Shown

\* Nothing is shown of a step that leaves the rows alone.
LEMMA ShownSame == UNCHANGED schedule => UNCHANGED ShownRows
  BY DEF ShownRows, Shown

\* A run that leaves its places under way is the only one of its schedule that did.
LEMMA Leaves ==
    ASSUME TypeOK, InFlightOwned, NEW r \in Runs, runPc[r] \in UnderWay,
           NEW next, next \notin UnderWay, runPc' = [runPc EXCEPT ![r] = next], of' = of
    PROVE  Executing' = Executing \ {of[r]} /\ of[r] \in Executing
<1>1. Live(r) /\ of[r] \in Schedules
  BY DEF InFlightOwned, Live, UnderWay
<1>2. \A q \in Runs : q # r /\ runPc[q] \in UnderWay => of[q] # of[r]
  BY <1>1, OneUnderWay
<1>3. \A q \in Runs : runPc'[q] \in UnderWay <=> q # r /\ runPc[q] \in UnderWay
  BY DEF TypeOK
<1>4. \A s \in Schedules : s \in Executing' <=> s \in Executing /\ s # of[r]
  BY <1>2, <1>3 DEF Executing
<1>5. of[r] \in Executing
  BY <1>1 DEF Executing
<1>6. Executing' \subseteq Schedules /\ Executing \subseteq Schedules
  BY DEF Executing
<1> QED  BY <1>4, <1>5, <1>6

\* A run that moves on within them, or outside, leaves the set of executions alone.
LEMMA Stays ==
    ASSUME TypeOK, NEW r \in Runs, NEW next, runPc[r] \in UnderWay <=> next \in UnderWay,
           runPc' = [runPc EXCEPT ![r] = next], of' = of
    PROVE  UNCHANGED Executing
<1>1. \A q \in Runs : runPc'[q] \in UnderWay <=> runPc[q] \in UnderWay
  BY DEF TypeOK
<1> QED  BY <1>1 DEF Executing

LEMMA InitMaps == Init => Contract!Init
  BY DEF Init, Contract!Init, Contract!None, ShownRows, Shown, Absent, Executing, UnderWay

\* A step that shows nothing and begins or ends no execution is a stutter.
LEMMA Stutter ==
    ASSUME UNCHANGED <<schedule, created, Executing>>
    PROVE  UNCHANGED Contract!vars
  BY ShownSame DEF Contract!vars

LEMMA MarkRunMaps == ASSUME IInv, NEW r \in Runs, MarkRun(r) PROVE Contract!Begin(of[r])
<1> DEFINE s == of[r]  new == [schedule[s] EXCEPT !.due = FALSE, !.last = "running"]
<1>1. s \in Schedules /\ inFlight[s] = r
  BY DEF IInv, InFlightOwned, Live, MarkRun
<1>2. new \in ScheduleRecord /\ schedule' = [schedule EXCEPT ![s] = new]
  BY <1>1, RecordUpdates DEF IInv, TypeOK, MarkRun, Statuses
<1>3. /\ new.status = "active" /\ new.runCount = ShownRows[s].runCount
      /\ new.maxRuns = ShownRows[s].maxRuns /\ new.due = FALSE
  BY <1>1 DEF IInv, TypeOK, ScheduleRecord, ShownRows, Shown, MarkRun, Active
<1>4. s \notin Executing
  BY <1>1 DEF IInv, InFlightOwned, Live, MarkRun, Executing, UnderWay
<1>5. Executing' = Executing \cup {s}
  <2>1. \A q \in Runs : runPc'[q] \in UnderWay <=> q = r \/ runPc[q] \in UnderWay
    BY DEF MarkRun, IInv, TypeOK, UnderWay
  <2> QED  BY <1>1, <2>1 DEF Executing, MarkRun
<1>6. ShownRows[s].status = "active"
  BY <1>1 DEF MarkRun, Active, ShownRows, Shown
<1>7. Contract!Becomes(s, "active", ShownRows[s].runCount, FALSE)
  BY <1>1, <1>2, <1>3, ShownChange DEF IInv, Contract!Becomes
<1> QED
  BY <1>4, <1>5, <1>6, <1>7 DEF Contract!Begin, Contract!Active, MarkRun

\* Closed, as the contract reports it.
LEMMA CloseMaps ==
    ASSUME IInv, NEW r \in Runs, runPc[r] = "closing",
           schedule' = [schedule EXCEPT ![of[r]] = Closed(schedule[of[r]], outcome[r])],
           runPc' = [runPc EXCEPT ![r] = "exiting"], of' = of, created' = created
    PROVE  Contract!Finish(of[r]) \/ Contract!Interrupt(of[r]) \/ Contract!Outlive(of[r])
<1> DEFINE s == of[r]  old == schedule[s]  new == Closed(old, outcome[r])
<1>1. s \in Schedules /\ old.status # "absent"
  BY DEF IInv, ClosingHolds, InFlightOwned, Live, Present
<1>2. old \in ScheduleRecord /\ outcome[r] \in RunStatuses
  BY <1>1 DEF IInv, TypeOK
<1>3. /\ ShownRows[s].status = old.status /\ ShownRows[s].runCount = old.runCount
      /\ ShownRows[s].maxRuns = old.maxRuns /\ ShownRows[s].due = old.due
  BY <1>1 DEF ShownRows, Shown
<1>4. new.runCount = old.runCount + 1 /\ new.maxRuns = old.maxRuns
  BY DEF Closed
<1>5. ShownRows' = [ShownRows EXCEPT ![s] =
          [status |-> new.status, runCount |-> old.runCount + 1,
           maxRuns |-> old.maxRuns, due |-> new.due]]
  BY <1>1, <1>2, <1>4, ClosedType, ShownChange DEF IInv
<1>6. s \in Executing /\ Executing' = Executing \ {s}
  BY Leaves DEF IInv, UnderWay
<1>7. Contract!Reported(s, new.status, new.due)
  <2> HIDE DEF new, old
  <2> QED
    BY <1>1, <1>3, <1>5, <1>6 DEF Contract!Reported, Contract!Exists, Contract!Becomes
<1>8. CASE old.status # "active"
  <2>1. new.status = old.status /\ new.due = old.due
    BY <1>8 DEF Closed
  <2> QED  BY <1>3, <1>7, <1>8, <2>1 DEF Contract!Outlive, Contract!Active
<1>9. CASE old.status = "active" /\ outcome[r] = "cancelled"
  <2>1. new.status = "active" /\ new.due = TRUE
    BY <1>9 DEF Closed
  <2> QED  BY <1>3, <1>7, <1>9, <2>1 DEF Contract!Interrupt, Contract!Active
<1>10. CASE old.status = "active" /\ outcome[r] # "cancelled"
  <2>1. IF old.maxRuns > 0 /\ old.runCount + 1 >= old.maxRuns
            THEN new.status = "completed" /\ new.due = TRUE
            ELSE new.status = "active" /\ new.due = FALSE
    BY <1>10 DEF Closed
  <2>2. Contract!Active(s)
    BY <1>3, <1>10 DEF Contract!Active
  <2>3. Contract!AtLimit(s) <=> old.maxRuns > 0 /\ old.runCount + 1 >= old.maxRuns
    BY <1>3 DEF Contract!AtLimit
  <2> HIDE DEF new, old
  <2> QED  BY <1>7, <2>1, <2>2, <2>3 DEF Contract!Finish
<1> QED
  BY <1>8, <1>9, <1>10

\* A step of a run is a begin, a report, an execution given up, or nothing.
LEMMA RunMaps ==
    ASSUME IInv, NEW r \in Runs, RunStep(r)
    PROVE  Contract!Next \/ UNCHANGED Contract!vars
<1> USE DEF IInv
<1>1. CASE MarkRun(r)
  <2>1. of[r] \in Schedules
    BY <1>1 DEF InFlightOwned, Live, MarkRun
  <2> QED  BY <1>1, <2>1, MarkRunMaps DEF Contract!Next
<1>2. CASE MarkRefused(r) \/ MarkFailed(r)
  <2>1. UNCHANGED Executing
    BY <1>2, Stays DEF MarkRefused, MarkFailed, UnderWay
  <2> QED  BY <1>2, <2>1, Stutter DEF MarkRefused, MarkFailed, storeVars
<1>3. CASE RecordRun(r)
  <2>1. UNCHANGED Executing
    BY <1>3, Stays DEF RecordRun, UnderWay
  <2> QED  BY <1>3, <2>1, Stutter DEF RecordRun
<1>4. CASE Execute(r)
  <2>1. UNCHANGED Executing
    BY <1>4, Stays DEF Execute, UnderWay
  <2> QED  BY <1>4, <2>1, Stutter DEF Execute, storeVars
<1>5. CASE CloseRow(r)
  <2>1. UNCHANGED Executing
    BY <1>5, Stays DEF CloseRow, UnderWay
  <2> QED  BY <1>5, <2>1, Stutter DEF CloseRow
<1>6. CASE RunExit(r)
  <2>1. UNCHANGED Executing
    BY <1>6, Stays DEF RunExit, UnderWay
  <2> QED  BY <1>6, <2>1, Stutter DEF RunExit, storeVars
<1>7. CASE CloseGone(r)
  <2>1. Executing' \subseteq Executing
    BY <1>7, Leaves DEF CloseGone, UnderWay
  <2> QED
    BY <1>7, <2>1, ShownSame DEF CloseGone, storeVars, Contract!Next, Contract!Abandon
<1>8. CASE CloseSchedule(r)
  <2>1. of[r] \in Schedules
    BY <1>8 DEF InFlightOwned, Live, CloseSchedule
  <2>2. CASE schedule' = [schedule EXCEPT ![of[r]] = Closed(schedule[of[r]], outcome[r])]
    <3>1. Contract!Finish(of[r]) \/ Contract!Interrupt(of[r]) \/ Contract!Outlive(of[r])
      BY <1>8, <2>2, CloseMaps DEF CloseSchedule
    <3> QED  BY <2>1, <3>1 DEF Contract!Next
  <2>3. CASE UNCHANGED schedule
    <3>1. Executing' \subseteq Executing
      BY <1>8, Leaves DEF CloseSchedule, UnderWay
    <3> QED
      BY <1>8, <2>3, <3>1, ShownSame DEF CloseSchedule, Contract!Next, Contract!Abandon
  <2> QED  BY <1>8, <2>2, <2>3 DEF CloseSchedule
<1> QED
  BY <1>1, <1>2, <1>3, <1>4, <1>5, <1>6, <1>7, <1>8 DEF RunStep

\* The calls that change a row show what the contract says of them.
LEMMA CreateMaps ==
    ASSUME IInv, NEW s \in Schedules, NEW m \in MaxRunsChoices, Create(s, m)
    PROVE  Contract!Next
<1> DEFINE new == [Absent EXCEPT !.status = "active", !.maxRuns = m]
<1>1. /\ new.status = "active" /\ new.runCount = 0 /\ new.maxRuns = m /\ new.due = FALSE
      /\ new \in ScheduleRecord
  BY ConstantsAssumption DEF Absent, ScheduleRecord, Statuses
<1>2. ShownRows' = [ShownRows EXCEPT ![s] = [status |-> "active", runCount |-> 0,
                                             maxRuns |-> m, due |-> FALSE]]
  BY <1>1, ShownChange DEF Create, IInv
<1>3. UNCHANGED Executing
  BY DEF Create, runVars, Executing
<1> QED
  BY <1>2, <1>3 DEF Create, Contract!Next, Contract!Create

\* A row with a new status, due or not, is what Becomes says.
LEMMA BecomesMaps ==
    ASSUME IInv, NEW s \in Schedules, NEW new \in ScheduleRecord,
           new.runCount = schedule[s].runCount, new.maxRuns = schedule[s].maxRuns,
           schedule' = [schedule EXCEPT ![s] = new]
    PROVE  /\ Contract!Becomes(s, new.status, ShownRows[s].runCount, new.due)
           /\ ShownRows[s].status = schedule[s].status /\ ShownRows[s].due = schedule[s].due
<1>1. /\ ShownRows[s].runCount = schedule[s].runCount /\ ShownRows[s].maxRuns = schedule[s].maxRuns
      /\ ShownRows[s].status = schedule[s].status /\ ShownRows[s].due = schedule[s].due
  BY DEF ShownRows, Shown
<1>2. ShownRows' = [ShownRows EXCEPT ![s] =
          [status |-> new.status, runCount |-> new.runCount, maxRuns |-> new.maxRuns, due |-> new.due]]
  BY ShownChange DEF IInv
<1> QED
  BY <1>1, <1>2 DEF Contract!Becomes

LEMMA PauseMaps ==
    ASSUME IInv, NEW c \in Callers, NEW s \in Schedules, Pause(c, s) PROVE Contract!Next
<1> DEFINE new == [schedule[s] EXCEPT !.status = "paused"]
<1>1. /\ new \in ScheduleRecord /\ new.status = "paused" /\ new.due = schedule[s].due
      /\ new.runCount = schedule[s].runCount /\ new.maxRuns = schedule[s].maxRuns
  <2>1. schedule[s] \in ScheduleRecord
    BY DEF IInv, TypeOK
  <2>2. new \in ScheduleRecord
    BY <2>1, RecordUpdates DEF Statuses
  <2> QED  BY <2>1, <2>2 DEF ScheduleRecord
<1>2. UNCHANGED Executing /\ schedule' = [schedule EXCEPT ![s] = new] /\ created' = created
  BY DEF Pause, runVars, Executing
<1> HIDE DEF new
<1>3. Contract!Becomes(s, "paused", ShownRows[s].runCount, ShownRows[s].due)
      /\ ShownRows[s].status = schedule[s].status
  BY <1>1, <1>2, BecomesMaps
<1>4. schedule[s].status \in {"active", "paused"}
  BY DEF Pause
<1> QED
  BY <1>2, <1>3, <1>4 DEF Contract!Next, Contract!Pause

LEMMA ResumeMaps == ASSUME IInv, NEW s \in Schedules, Resume(s) PROVE Contract!Next
<1> DEFINE new == [schedule[s] EXCEPT !.status = "active", !.due = TRUE]
<1>1. /\ new \in ScheduleRecord /\ new.status = "active" /\ new.due = TRUE
      /\ new.runCount = schedule[s].runCount /\ new.maxRuns = schedule[s].maxRuns
  <2>1. schedule[s] \in ScheduleRecord
    BY DEF IInv, TypeOK
  <2>2. new \in ScheduleRecord
    BY <2>1, RecordUpdates DEF Statuses
  <2> QED  BY <2>1, <2>2 DEF ScheduleRecord
<1>2. UNCHANGED Executing /\ schedule' = [schedule EXCEPT ![s] = new] /\ created' = created
  BY DEF Resume, runVars, Executing
<1> HIDE DEF new
<1>3. Contract!Becomes(s, "active", ShownRows[s].runCount, TRUE)
      /\ ShownRows[s].status = schedule[s].status
  BY <1>1, <1>2, BecomesMaps
<1>4. schedule[s].status \in {"active", "paused"}
  BY DEF Resume
<1> QED
  BY <1>2, <1>3, <1>4 DEF Contract!Next, Contract!Resume

LEMMA DueMaps == ASSUME IInv, NEW s \in Schedules, RunNow(s) \/ Elapse(s) PROVE Contract!Next
<1> DEFINE new == [schedule[s] EXCEPT !.due = TRUE]
<1>1. /\ new \in ScheduleRecord /\ new.status = schedule[s].status /\ new.due = TRUE
      /\ new.runCount = schedule[s].runCount /\ new.maxRuns = schedule[s].maxRuns
  <2>1. schedule[s] \in ScheduleRecord
    BY DEF IInv, TypeOK
  <2>2. new \in ScheduleRecord
    BY <2>1, RecordUpdates DEF Statuses
  <2> QED  BY <2>1, <2>2 DEF ScheduleRecord
<1>2. UNCHANGED Executing /\ schedule' = [schedule EXCEPT ![s] = new] /\ created' = created
  BY DEF RunNow, Elapse, runVars, Executing
<1> HIDE DEF new
<1>3. Contract!Becomes(s, ShownRows[s].status, ShownRows[s].runCount, TRUE)
      /\ ShownRows[s].status = schedule[s].status
  BY <1>1, <1>2, BecomesMaps
<1>4. schedule[s].status # "absent"
  BY DEF RunNow, Elapse, Active, Present
<1> QED
  BY <1>2, <1>3, <1>4 DEF Contract!Next, Contract!FallsDue, Contract!Exists

LEMMA DeleteMaps ==
    ASSUME IInv, NEW c \in Callers, DeleteRows(c) PROVE Contract!Next \/ UNCHANGED Contract!vars
<1>1. UNCHANGED Executing /\ created' = created
  BY DEF DeleteRows, runVars, Executing
<1>2. CASE UNCHANGED schedule
  BY <1>1, <1>2, Stutter
<1>3. CASE schedule' # schedule
  <2> DEFINE s == op[c].on
  <2>1. Present(s) /\ schedule' = [schedule EXCEPT ![s] = Absent]
    BY <1>3 DEF DeleteRows
  <2>2. s \in Schedules
    BY <1>3, <2>1 DEF IInv, TypeOK
  <2>3. ShownRows' = [ShownRows EXCEPT ![s] = Contract!None]
    BY <2>1, <2>2, AbsentType, ShownChange DEF IInv, Absent, Contract!None
  <2>4. ShownRows[s].status # "absent"
    BY <2>1, <2>2 DEF Present, ShownRows, Shown
  <2> QED
    BY <1>1, <2>2, <2>3, <2>4 DEF Contract!Next, Contract!Delete, Contract!Exists
<1> QED  BY <1>2, <1>3

LEMMA LaunchMaps ==
    ASSUME IInv, NEW l \in Loops, NEW s \in Schedules, NEW r \in Runs, Launch(l, s, r)
    PROVE  UNCHANGED Contract!vars
<1>1. \A q \in Runs : /\ runPc'[q] \in UnderWay <=> runPc[q] \in UnderWay
                      /\ runPc[q] \in UnderWay => of'[q] = of[q]
  BY DEF Launch, IInv, TypeOK, UnderWay
<1> QED
  BY <1>1, Stutter DEF Launch, storeVars, Executing

LEMMA CrashMaps == ASSUME IInv, Crash PROVE Contract!Next
<1>1. \A r \in Runs : runPc'[r] \notin UnderWay
  BY DEF Crash, UnderWay
<1>2. Executing' = {}
  BY <1>1 DEF Executing
<1> QED
  BY <1>2, ShownSame DEF Crash, storeVars, Contract!Next, Contract!Abandon

LEMMA NextMaps == IInv /\ [Next]_vars => [Contract!Next]_Contract!vars
<1> SUFFICES ASSUME IInv, [Next]_vars PROVE Contract!Next \/ UNCHANGED Contract!vars
  OBVIOUS
<1>1. ASSUME UNCHANGED <<storeVars, runPc, of>> PROVE UNCHANGED Contract!vars
  BY <1>1, Stutter DEF storeVars, Executing
<1>2. ASSUME NEW l \in Loops,
             Start(l) \/ LoopList(l) \/ LoopListFails(l) \/ LoopAbort(l) \/ LoopPoll(l) \/ LoopExit(l)
      PROVE  UNCHANGED Contract!vars
  BY <1>1, <1>2 DEF Start, LoopList, LoopListFails, LoopAbort, LoopPoll, LoopExit, runVars
<1>3. ASSUME NEW l \in Loops, NEW s \in Schedules, LoopSkip(l, s) PROVE UNCHANGED Contract!vars
  BY <1>1, <1>3 DEF LoopSkip, runVars
<1>4. ASSUME NEW c \in Callers, StopSignal(c) \/ StopWait(c) \/ PauseCancel(c)
      PROVE  UNCHANGED Contract!vars
  BY <1>1, <1>4 DEF StopSignal, StopWait, PauseCancel, runVars
<1>5. ASSUME NEW c \in Callers, NEW s \in Schedules, DeleteCancel(c, s)
      PROVE  UNCHANGED Contract!vars
  BY <1>1, <1>5 DEF DeleteCancel
<1>6. CASE UNCHANGED vars
  BY <1>1, <1>6 DEF vars, runVars
<1> QED
  BY <1>2, <1>3, <1>4, <1>5, <1>6, LaunchMaps, RunMaps, CreateMaps, PauseMaps, ResumeMaps, DueMaps,
     DeleteMaps, CrashMaps DEF Next, LoopStep, CallStep

\* The scheduler implements the contract: with any number of loops, launches and API calls,
\* failing writes and crashes, what the API shows of a schedule is one of its behaviours.
THEOREM Implements == Spec => KeepsContract
<1>1. Init => Contract!Init
  BY InitMaps
<1> QED
  BY <1>1, NextMaps, Inductive, PTL DEF Spec, KeepsContract, Contract!Spec

-----------------------------------------------------------------------------
(* The clauses of the contract that the API's documentation names.         *)

\* No late Resume, Pause or closing run revives a completed schedule.
CompletedIsFinal ==
    [][\A s \in Schedules : schedule[s].status = "completed" =>
          schedule'[s].status \in {"completed", "absent"}]_vars

\* The close of a run that was executing when Pause came does not undo the pause.
PauseHolds ==
    [][\A s \in Schedules : schedule[s].status = "paused" =>
          schedule'[s].status \in {"paused", "absent"} \/ Resume(s)]_vars

\* "Delete is authoritative": nothing writes a deleted schedule back.
DeleteHolds ==
    [][\A s \in created : ~Present(s) => schedule'[s].status = "absent"]_vars

\* A schedule that reached max_runs stays completed until it is deleted.
THEOREM CompletedFinal == Spec => CompletedIsFinal
<1>1. IInv /\ [Next]_vars =>
        [\A s \in Schedules : schedule[s].status = "completed" =>
            schedule'[s].status \in {"completed", "absent"}]_vars
  <2> SUFFICES ASSUME IInv, [Next]_vars, NEW s \in Schedules, schedule[s].status = "completed"
               PROVE  schedule'[s].status \in {"completed", "absent"}
    OBVIOUS
  <2>1. s \in created
    BY DEF IInv, RowsCreated, Present
  <2> QED
    BY <2>1, StatusStep DEF StatusMove
<1> QED
  BY <1>1, Inductive, PTL DEF Spec, CompletedIsFinal

\* A pause is undone by a resume only, never by a run that closes late.
THEOREM PauseIsKept == Spec => PauseHolds
<1>1. IInv /\ [Next]_vars =>
        [\A s \in Schedules : schedule[s].status = "paused" =>
            schedule'[s].status \in {"paused", "absent"} \/ Resume(s)]_vars
  <2> SUFFICES ASSUME IInv, [Next]_vars, NEW s \in Schedules, schedule[s].status = "paused"
               PROVE  schedule'[s].status \in {"paused", "absent"} \/ Resume(s)
    OBVIOUS
  <2>1. s \in created
    BY DEF IInv, RowsCreated, Present
  <2> QED
    BY <2>1, StatusStep DEF StatusMove
<1> QED
  BY <1>1, Inductive, PTL DEF Spec, PauseHolds

\* A deleted schedule is never written back, by a run that outlives it or by anyone.
THEOREM DeleteIsAuthoritative == Spec => DeleteHolds
<1>1. IInv /\ [Next]_vars =>
        [\A s \in created : ~Present(s) => schedule'[s].status = "absent"]_vars
  <2> SUFFICES ASSUME IInv, [Next]_vars, NEW s \in created, ~Present(s)
               PROVE  schedule'[s].status = "absent"
    OBVIOUS
  <2>1. s \in Schedules /\ schedule[s].status = "absent"
    BY DEF IInv, TypeOK, Present
  <2> QED
    BY <2>1, StatusStep DEF StatusMove
<1> QED
  BY <1>1, Inductive, PTL DEF Spec, DeleteHolds
=============================================================================
