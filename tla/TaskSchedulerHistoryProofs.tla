--------------------- MODULE TaskSchedulerHistoryProofs ---------------------
(***************************************************************************)
(* What TaskScheduler keeps over several runs of a schedule: pauses stop   *)
(* what executes, a run that begins is owed, a row that says running is    *)
(* backed by a goroutine, and run_count, with the limit read off it, is    *)
(* the length of the history.  The last two are about a store whose writes *)
(* succeed; the process may crash in all of them.                          *)
(***************************************************************************)
EXTENDS TaskSchedulerProofs, FiniteSetTheorems

-----------------------------------------------------------------------------
(* The steps, seen from the rows.                                          *)

\* A step that changes no row, no goroutine's place and no list of due schedules but
\* by shortening it.
Quiet ==
    /\ UNCHANGED <<schedule, row, created, runPc, of, outcome, owed, pausedOnce, crashes>>
    /\ \A l \in Loops : todo'[l] \subseteq todo[l]

LEMMA QuietSteps ==
    ASSUME TypeOK
    PROVE  /\ \A l \in Loops : Start(l) \/ LoopListFails(l) \/ LoopAbort(l) \/ LoopPoll(l) \/ LoopExit(l) => Quiet
           /\ \A l \in Loops, s \in Schedules : LoopSkip(l, s) => Quiet
           /\ \A c \in Callers : StopSignal(c) \/ StopWait(c) \/ PauseCancel(c) => Quiet
           /\ \A c \in Callers, s \in Schedules : DeleteCancel(c, s) => Quiet
           /\ UNCHANGED vars => Quiet
<1>1. \A l \in Loops : Start(l) \/ LoopListFails(l) \/ LoopAbort(l) \/ LoopPoll(l) \/ LoopExit(l) => Quiet
  BY DEF Quiet, TypeOK, Start, LoopListFails, LoopAbort, LoopPoll, LoopExit, storeVars, runVars, historyVars
<1>2. \A l \in Loops, s \in Schedules : LoopSkip(l, s) => Quiet
  BY DEF Quiet, TypeOK, LoopSkip, storeVars, runVars, historyVars
<1>3. \A c \in Callers : StopSignal(c) \/ StopWait(c) \/ PauseCancel(c) => Quiet
  BY DEF Quiet, StopSignal, StopWait, PauseCancel, storeVars, loopVars, runVars, historyVars
<1>4. \A c \in Callers, s \in Schedules : DeleteCancel(c, s) => Quiet
  BY DEF Quiet, DeleteCancel, storeVars, loopVars, historyVars
<1>5. UNCHANGED vars => Quiet
  BY DEF Quiet, vars, storeVars, loopVars, runVars, historyVars
<1> QED
  BY <1>1, <1>2, <1>3, <1>4, <1>5

\* The row of schedule s, and no other, is changed: from old to new, where new differs
\* in its status, whether it is due and its last result at most.
Touched(s, status, due, last) ==
    /\ \A q \in Schedules : q # s => schedule'[q] = schedule[q]
    /\ schedule'[s].status = status /\ schedule'[s].due = due /\ schedule'[s].last = last
    /\ schedule'[s].runCount = schedule[s].runCount /\ schedule'[s].maxRuns = schedule[s].maxRuns

LEMMA RowTouched ==
    ASSUME TypeOK
    PROVE  /\ \A r \in Runs : MarkRun(r) /\ of[r] \in Schedules =>
                  Touched(of[r], "active", FALSE, "running")
           /\ \A c \in Callers, s \in Schedules : Pause(c, s) =>
                  Touched(s, "paused", schedule[s].due, schedule[s].last)
           /\ \A s \in Schedules : Resume(s) => Touched(s, "active", TRUE, schedule[s].last)
           /\ \A s \in Schedules : RunNow(s) \/ Elapse(s) =>
                  Touched(s, schedule[s].status, TRUE, schedule[s].last)
<1> USE DEF Touched, TypeOK, ScheduleRecord
<1>1. ASSUME NEW r \in Runs, MarkRun(r), of[r] \in Schedules
      PROVE  Touched(of[r], "active", FALSE, "running")
  BY <1>1 DEF MarkRun, Active
<1>2. ASSUME NEW c \in Callers, NEW s \in Schedules, Pause(c, s)
      PROVE  Touched(s, "paused", schedule[s].due, schedule[s].last)
  BY <1>2 DEF Pause
<1>3. ASSUME NEW s \in Schedules, Resume(s) PROVE Touched(s, "active", TRUE, schedule[s].last)
  BY <1>3 DEF Resume
<1>4. ASSUME NEW s \in Schedules, RunNow(s) \/ Elapse(s)
      PROVE  Touched(s, schedule[s].status, TRUE, schedule[s].last)
  <2>1. schedule' = [schedule EXCEPT ![s] = [schedule[s] EXCEPT !.due = TRUE]]
    BY <1>4 DEF RunNow, Elapse
  <2> QED  BY <2>1
<1> QED
  BY <1>1, <1>2, <1>3, <1>4

\* A goroutine moves on and leaves its schedule what it was.
LEMMA RunsMove ==
    ASSUME TypeOK, NEW r \in Runs, NEW place, runPc' = [runPc EXCEPT ![r] = place]
    PROVE  \A q \in Runs : runPc'[q] = IF q = r THEN place ELSE runPc[q]
  BY DEF TypeOK

-----------------------------------------------------------------------------
(* Pause.                                                                  *)

\* "Pause stops future executions and cancels a currently-running one": once Pause has
\* returned, whatever executes of its schedule was told to stop (changeStatus).
LEMMA PauseStep == IInv /\ PauseCancels /\ [Next]_vars => PauseCancels'
<1> SUFFICES ASSUME IInv, PauseCancels, [Next]_vars, NEW s \in Schedules,
                    schedule'[s].status = "paused",
                    \A c \in Callers : op'[c] # [kind |-> "pausing", on |-> s],
                    NEW r \in Runs, of'[r] = s, runPc'[r] \in {"recording", "executing"}
             PROVE  cancelled'[r]
  BY DEF PauseCancels
<1> USE DEF IInv, TypeOK
<1> DEFINE Told == /\ schedule[s].status = "paused" /\ of[r] = s
                   /\ runPc[r] \in {"recording", "executing"}
                   /\ \A c \in Callers : op[c] # [kind |-> "pausing", on |-> s]
<1>1. ASSUME Told, cancelled[r] => cancelled'[r] PROVE cancelled'[r]
  BY <1>1 DEF PauseCancels
<1>2. ASSUME NEW l \in Loops, Start(l) \/ LoopList(l) \/ LoopListFails(l) \/ LoopAbort(l) \/ LoopPoll(l) \/ LoopExit(l)
      PROVE  cancelled'[r]
  BY <1>1, <1>2 DEF Start, LoopList, LoopListFails, LoopAbort, LoopPoll, LoopExit, storeVars, runVars
<1>3. ASSUME NEW l \in Loops, NEW q \in Schedules, LoopSkip(l, q) PROVE cancelled'[r]
  BY <1>1, <1>3 DEF LoopSkip, storeVars, runVars
<1>4. ASSUME NEW l \in Loops, NEW q \in Schedules, NEW n \in Runs, Launch(l, q, n) PROVE cancelled'[r]
  BY <1>1, <1>4 DEF Launch, storeVars
<1>5. ASSUME NEW n \in Runs, MarkRun(n) PROVE cancelled'[r]
  <2>1. of[n] \in Schedules
    BY <1>5 DEF InFlightOwned, Live, MarkRun
  <2>2. Touched(of[n], "active", FALSE, "running")
    BY <1>5, <2>1, RowTouched
  <2>3. s # of[n] /\ schedule[s].status = "paused"
    BY <2>2 DEF Touched
  <2> QED
    BY <1>1, <1>5, <2>3 DEF MarkRun
<1>6. ASSUME NEW n \in Runs, MarkRefused(n) \/ MarkFailed(n) \/ CloseGone(n) \/ Execute(n) PROVE cancelled'[r]
  BY <1>1, <1>6 DEF MarkRefused, MarkFailed, CloseGone, Execute, storeVars
<1>7. ASSUME NEW n \in Runs, RecordRun(n) \/ CloseRow(n) PROVE cancelled'[r]
  BY <1>1, <1>7 DEF RecordRun, CloseRow
<1>8. ASSUME NEW n \in Runs, CloseSchedule(n) PROVE cancelled'[r]
  <2>1. of[n] \in Schedules
    BY <1>8 DEF InFlightOwned, Live, CloseSchedule
  <2>2. Closed(schedule[of[n]], outcome[n]).status = "paused" => schedule[of[n]].status = "paused"
    BY <2>1, ClosedStatus
  <2>3. schedule[s].status = "paused"
    BY <1>8, <2>1, <2>2 DEF CloseSchedule
  <2> QED
    BY <1>1, <1>8, <2>3 DEF CloseSchedule
<1>9. ASSUME NEW n \in Runs, RunExit(n) PROVE cancelled'[r]
  BY <1>1, <1>9 DEF RunExit, storeVars
<1>10. ASSUME NEW c \in Callers, StopSignal(c) PROVE cancelled'[r]
  <2>1. Told
    BY <1>10 DEF StopSignal, storeVars, Idle
  <2> QED
    BY <1>1, <1>10, <2>1 DEF StopSignal
<1>11. ASSUME NEW c \in Callers, StopWait(c) PROVE cancelled'[r]
  <2>1. Told
    BY <1>11 DEF StopWait, storeVars, runVars
  <2> QED
    BY <1>1, <1>11, <2>1 DEF StopWait, runVars
<1>12. ASSUME NEW c \in Callers, PauseCancel(c) PROVE cancelled'[r]
  <2>1. of[r] = s /\ runPc[r] \in {"recording", "executing"} /\ schedule[s].status = "paused"
    BY <1>12 DEF PauseCancel, storeVars
  <2>2. CASE op[c].on = s
    <3>1. inFlight[s] = r
      BY <2>1 DEF InFlightOwned, Live
    <3> QED
      BY <1>12, <2>2, <3>1 DEF PauseCancel, Cancel
  <2>3. CASE op[c].on # s
    <3>1. Told
      BY <1>12, <2>1, <2>3 DEF PauseCancel
    <3> QED
      BY <1>1, <1>12, <3>1 DEF PauseCancel, Cancel
  <2> QED  BY <2>2, <2>3
<1>13. ASSUME NEW c \in Callers, DeleteRows(c) PROVE cancelled'[r]
  <2>1. schedule[s].status = "paused"
    BY <1>13 DEF DeleteRows, Absent
  <2>2. Told
    BY <1>13, <2>1 DEF DeleteRows, runVars
  <2> QED
    BY <1>1, <1>13, <2>2 DEF DeleteRows, runVars
<1>14. ASSUME NEW c \in Callers, NEW q \in Schedules, Pause(c, q) PROVE cancelled'[r]
  <2>1. q # s
    BY <1>14 DEF Pause
  <2>2. Told
    BY <1>14, <2>1 DEF Pause, runVars, Idle
  <2> QED
    BY <1>1, <1>14, <2>2 DEF Pause, runVars
<1>15. ASSUME NEW c \in Callers, NEW q \in Schedules, DeleteCancel(c, q) PROVE cancelled'[r]
  <2>1. Told
    BY <1>15 DEF DeleteCancel, storeVars, Idle
  <2> QED
    BY <1>1, <1>15, <2>1 DEF DeleteCancel, Cancel
<1>16. ASSUME NEW q \in Schedules, NEW m \in MaxRunsChoices, Create(q, m) PROVE cancelled'[r]
  <2>1. schedule[s].status = "paused"
    BY <1>16 DEF Create, Absent
  <2> QED
    BY <1>1, <1>16, <2>1 DEF Create, runVars
<1>17. ASSUME NEW q \in Schedules, Resume(q) \/ RunNow(q) \/ Elapse(q) PROVE cancelled'[r]
  <2>1. schedule[s].status = "paused"
    <3>1. CASE Resume(q)
      <4>1. Touched(q, "active", TRUE, schedule[q].last)
        BY <3>1, RowTouched
      <4> QED  BY <4>1 DEF Touched
    <3>2. CASE RunNow(q) \/ Elapse(q)
      <4>1. Touched(q, schedule[q].status, TRUE, schedule[q].last)
        BY <3>2, RowTouched
      <4> QED  BY <4>1 DEF Touched
    <3> QED  BY <1>17, <3>1, <3>2
  <2> QED
    BY <1>1, <1>17, <2>1 DEF Resume, RunNow, Elapse, runVars
<1>18. CASE Crash
  BY <1>18 DEF Crash
<1>19. CASE UNCHANGED vars
  BY <1>1, <1>19 DEF vars, storeVars, runVars
<1> QED
  BY <1>2, <1>3, <1>4, <1>5, <1>6, <1>7, <1>8, <1>9, <1>10, <1>11, <1>12, <1>13, <1>14, <1>15,
     <1>16, <1>17, <1>18, <1>19 DEF Next, LoopStep, RunStep, CallStep

\* Pause cancels what it must, for any number of calls that race with it.
THEOREM PauseStops == Spec => []PauseCancels
<1>1. Init => PauseCancels
  BY DEF Init, PauseCancels
<1>2. IInv /\ PauseCancels /\ [Next]_vars => PauseCancels'
  BY PauseStep
<1> QED
  BY <1>1, <1>2, Inductive, PTL DEF Spec

-----------------------------------------------------------------------------
(* A run that begins is owed.                                              *)

\* Ids in a list or held by a goroutine were handed out by Create.
Handed ==
    /\ \A l \in Loops : todo[l] \subseteq created
    /\ \A r \in Runs : of[r] \in Schedules => of[r] \in created

\* next_run_at has passed only for what somebody waits for.
OwedDue == \A s \in Schedules : Active(s) /\ schedule[s].due => s \in owed

\* What is listed or launched is owed, unless it has run since: the list is stale, but no
\* staler than the process.
Foreseen ==
    \A s \in Schedules :
        Present(s) /\ ((\E l \in Loops : s \in todo[l])
                       \/ \E r \in Runs : of[r] = s /\ runPc[r] = "launched")
        => s \in owed \/ RanHere(s)

LEMMA HandedStep == IInv /\ Handed /\ [Next]_vars => Handed'
<1> SUFFICES ASSUME IInv, Handed, [Next]_vars PROVE Handed'
  OBVIOUS
<1> USE DEF IInv, TypeOK, Handed
<1>1. CASE Quiet
  BY <1>1 DEF Quiet
<1>2. ASSUME NEW l \in Loops, LoopList(l) PROVE Handed'
  BY <1>2 DEF LoopList, RowsCreated, Active, Present, storeVars, runVars
<1>3. ASSUME NEW l \in Loops, NEW s \in Schedules, NEW r \in Runs, Launch(l, s, r) PROVE Handed'
  BY <1>3 DEF Launch, storeVars
<1>4. ASSUME NEW r \in Runs, RunStep(r) PROVE Handed'
  BY <1>4 DEF RunStep, MarkRefused, MarkRun, MarkFailed, RecordRun, Execute, CloseGone, CloseRow,
              CloseSchedule, RunExit, storeVars, loopVars
<1>5. ASSUME NEW c \in Callers, NEW s \in Schedules, Pause(c, s) \/ DeleteRows(c) PROVE Handed'
  BY <1>5 DEF Pause, DeleteRows, loopVars, runVars
<1>6. ASSUME NEW s \in Schedules, NEW m \in MaxRunsChoices, Create(s, m) PROVE Handed'
  BY <1>6 DEF Create, loopVars, runVars
<1>7. ASSUME NEW s \in Schedules, Resume(s) \/ RunNow(s) \/ Elapse(s) PROVE Handed'
  BY <1>7 DEF Resume, RunNow, Elapse, loopVars, runVars
<1>8. CASE Crash
  BY <1>8 DEF Crash, storeVars
<1>9. ASSUME NEW c \in Callers, DeleteRows(c) PROVE Handed'
  BY <1>9 DEF DeleteRows, loopVars, runVars
<1> QED
  BY <1>1, <1>2, <1>3, <1>4, <1>5, <1>6, <1>7, <1>8, <1>9, QuietSteps DEF Next, LoopStep, CallStep

LEMMA OwedStep == IInv /\ OwedDue /\ [Next]_vars => OwedDue'
<1> SUFFICES ASSUME IInv, OwedDue, [Next]_vars PROVE OwedDue'
  OBVIOUS
<1> USE DEF IInv, TypeOK, OwedDue, Active
<1>1. CASE Quiet
  BY <1>1 DEF Quiet
<1>2. ASSUME UNCHANGED <<schedule, owed>> PROVE OwedDue'
  BY <1>2
<1>3. ASSUME NEW l \in Loops, LoopList(l) PROVE OwedDue'
  BY <1>2, <1>3 DEF LoopList, storeVars, historyVars
<1>4. ASSUME NEW l \in Loops, NEW s \in Schedules, NEW r \in Runs, Launch(l, s, r) PROVE OwedDue'
  BY <1>2, <1>4 DEF Launch, storeVars, historyVars
<1>5. ASSUME NEW r \in Runs, MarkRun(r) PROVE OwedDue'
  <2>1. Touched(of[r], "active", FALSE, "running")
    BY <1>5, RowTouched DEF InFlightOwned, Live, MarkRun
  <2> QED
    BY <1>5, <2>1 DEF MarkRun, Touched
<1>6. ASSUME NEW r \in Runs, CloseSchedule(r) PROVE OwedDue'
  <2>1. CASE UNCHANGED <<schedule, owed>>
    BY <1>2, <2>1
  <2>2. CASE /\ schedule' = [schedule EXCEPT ![of[r]] = Closed(schedule[of[r]], outcome[r])]
             /\ owed' = IF outcome[r] = "cancelled" THEN owed \cup {of[r]} ELSE owed \ {of[r]}
    <3> DEFINE s == of[r]  new == Closed(schedule[s], outcome[r])
    <3>1. s \in Schedules /\ schedule'[s] = new
      BY <1>6, <2>2 DEF InFlightOwned, Live, CloseSchedule
    <3>2. new.status = "active" /\ new.due => outcome[r] = "cancelled"
      BY DEF Closed
    <3>3. \A q \in Schedules : q # s => schedule'[q] = schedule[q]
      BY <2>2
    <3> QED
      BY <2>2, <3>1, <3>2, <3>3
  <2> QED  BY <1>6, <2>1, <2>2 DEF CloseSchedule
<1>7. ASSUME NEW r \in Runs,
             MarkRefused(r) \/ MarkFailed(r) \/ RecordRun(r) \/ Execute(r) \/ CloseGone(r) \/ CloseRow(r)
             \/ RunExit(r)
      PROVE  OwedDue'
  BY <1>2, <1>7 DEF MarkRefused, MarkFailed, RecordRun, Execute, CloseGone, CloseRow, RunExit,
                    storeVars, historyVars
<1>8. ASSUME NEW c \in Callers, NEW s \in Schedules, Pause(c, s) PROVE OwedDue'
  BY <1>8 DEF Pause
<1>9. ASSUME NEW c \in Callers, DeleteRows(c) PROVE OwedDue'
  BY <1>9 DEF DeleteRows, Absent
<1>10. ASSUME NEW s \in Schedules, NEW m \in MaxRunsChoices, Create(s, m) PROVE OwedDue'
  BY <1>10 DEF Create, Absent, historyVars
<1>11. ASSUME NEW s \in Schedules, Resume(s) \/ RunNow(s) \/ Elapse(s) PROVE OwedDue'
  <2>1. \A q \in Schedules : q # s => schedule'[q] = schedule[q]
    BY <1>11, RowTouched DEF Touched
  <2>2. owed' = owed \cup {s}
    BY <1>11 DEF Resume, RunNow, Elapse
  <2> QED
    BY <2>1, <2>2
<1>12. CASE Crash
  BY <1>2, <1>12 DEF Crash, storeVars
<1> QED
  BY <1>1, <1>3, <1>4, <1>5, <1>6, <1>7, <1>8, <1>9, <1>10, <1>11, <1>12, QuietSteps
  DEF Next, LoopStep, RunStep, CallStep

\* That this process has run a schedule is undone by its death only.
LEMMA RanStays ==
    ASSUME IInv, [Next]_vars, ~Crash, NEW s \in Schedules, RanHere(s)
    PROVE  RanHere(s)'
<1> USE DEF IInv, TypeOK
<1> DEFINE After == {"recording", "executing", "concluded", "closing", "exiting", "done"}
<1> PICK r \in Runs : of[r] = s /\ runPc[r] \in After
  BY DEF RanHere
<1>1. CASE Quiet
  BY <1>1 DEF Quiet, RanHere
<1>2. ASSUME UNCHANGED <<runPc, of>> PROVE RanHere(s)'
  BY <1>2 DEF RanHere
<1>3. ASSUME NEW l \in Loops, LoopList(l) PROVE RanHere(s)'
  BY <1>2, <1>3 DEF LoopList, runVars
<1>4. ASSUME NEW l \in Loops, NEW q \in Schedules, NEW n \in Runs, Launch(l, q, n) PROVE RanHere(s)'
  <2>1. n # r
    BY <1>4 DEF Launch
  <2> QED
    BY <1>4, <2>1 DEF Launch, RanHere
<1>5. ASSUME NEW n \in Runs, RunStep(n) PROVE RanHere(s)'
  <2>1. of' = of
    BY <1>5 DEF RunStep, MarkRefused, MarkRun, MarkFailed, RecordRun, Execute, CloseGone, CloseRow,
                CloseSchedule, RunExit
  <2>2. runPc'[r] \in After
    BY <1>5 DEF RunStep, MarkRefused, MarkRun, MarkFailed, RecordRun, Execute, CloseGone, CloseRow,
                CloseSchedule, RunExit
  <2> QED
    BY <2>1, <2>2 DEF RanHere
<1>6. ASSUME NEW c \in Callers, DeleteRows(c) \/ \E q \in Schedules : Pause(c, q) PROVE RanHere(s)'
  BY <1>2, <1>6 DEF DeleteRows, Pause, runVars
<1>7. ASSUME NEW q \in Schedules,
             Resume(q) \/ RunNow(q) \/ Elapse(q) \/ \E m \in MaxRunsChoices : Create(q, m)
      PROVE  RanHere(s)'
  BY <1>2, <1>7 DEF Resume, RunNow, Elapse, Create, runVars
<1> QED
  BY <1>1, <1>3, <1>4, <1>5, <1>6, <1>7, QuietSteps DEF Next, LoopStep, CallStep

LEMMA ForeseenStep ==
    IInv /\ Handed /\ OwedDue /\ Foreseen /\ [Next]_vars => Foreseen'
<1> SUFFICES ASSUME IInv, Handed, OwedDue, Foreseen, [Next]_vars, NEW s \in Schedules,
                    Present(s)',
                    \/ \E l \in Loops : s \in todo'[l]
                    \/ \E r \in Runs : of'[r] = s /\ runPc'[r] = "launched"
             PROVE  s \in owed' \/ RanHere(s)'
  BY DEF Foreseen
<1> USE DEF IInv, TypeOK
<1> DEFINE Waits == \/ \E l \in Loops : s \in todo[l]
                    \/ \E r \in Runs : of[r] = s /\ runPc[r] = "launched"
<1>1. ASSUME ~Crash, Present(s), Waits, s \in owed => s \in owed' \/ RanHere(s)'
      PROVE  s \in owed' \/ RanHere(s)'
  BY <1>1, RanStays DEF Foreseen
<1>2. CASE Crash
  BY <1>2 DEF Crash
<1>3. CASE Quiet /\ ~Crash
  <2>1. Present(s) /\ Waits /\ owed' = owed
    BY <1>3 DEF Quiet, Present
  <2> QED  BY <1>1, <1>3, <2>1
<1>4. ASSUME NEW l \in Loops, LoopList(l), ~Crash PROVE s \in owed' \/ RanHere(s)'
  <2>1. Present(s) /\ owed' = owed
    BY <1>4 DEF LoopList, Present, storeVars, historyVars
  <2>2. CASE Active(s) /\ schedule[s].due
    BY <2>1, <2>2 DEF OwedDue
  <2>3. CASE ~(Active(s) /\ schedule[s].due)
    <3>1. Waits
      BY <1>4, <2>3 DEF LoopList, runVars
    <3> QED  BY <1>1, <1>4, <2>1, <3>1
  <2> QED  BY <2>2, <2>3
<1>5. ASSUME NEW l \in Loops, NEW q \in Schedules, NEW n \in Runs, Launch(l, q, n), ~Crash
      PROVE  s \in owed' \/ RanHere(s)'
  <2>1. Present(s) /\ owed' = owed
    BY <1>5 DEF Launch, Present, storeVars, historyVars
  <2>2. Waits
    BY <1>5 DEF Launch
  <2> QED  BY <1>1, <1>5, <2>1, <2>2
<1>6. ASSUME NEW r \in Runs, RunStep(r), ~Crash PROVE s \in owed' \/ RanHere(s)'
  <2>1. Waits
    BY <1>6 DEF RunStep, MarkRefused, MarkRun, MarkFailed, RecordRun, Execute, CloseGone, CloseRow,
                CloseSchedule, RunExit, loopVars
  <2>2. CASE MarkRun(r)
    <3>1. of[r] \in Schedules
      BY <2>2 DEF InFlightOwned, Live, MarkRun
    <3>2. Present(s)
      <4>1. Active(of[r]) /\ Touched(of[r], "active", FALSE, "running")
        BY <2>2, <3>1, RowTouched DEF MarkRun
      <4>2. s # of[r] => schedule'[s] = schedule[s]
        BY <4>1 DEF Touched
      <4> QED
        BY <4>1, <4>2 DEF Present, Active
    <3>3. of[r] = s => RanHere(s)'
      BY <2>2 DEF MarkRun, RanHere
    <3> QED
      BY <1>1, <1>6, <2>1, <2>2, <3>2, <3>3 DEF MarkRun
  <2>3. CASE CloseSchedule(r)
    <3>1. of[r] \in Schedules
      BY <2>3 DEF InFlightOwned, Live, CloseSchedule
    <3>2. Closed(schedule[of[r]], outcome[r]).status # "absent" => Present(of[r])
      BY <3>1, ClosedStatus DEF Present
    <3>3. Present(s)
      BY <2>3, <3>1, <3>2 DEF Present, CloseSchedule
    <3>4. of[r] = s => RanHere(s)'
      BY <2>3 DEF CloseSchedule, RanHere
    <3> QED
      BY <1>1, <1>6, <2>1, <2>3, <3>3, <3>4 DEF CloseSchedule
  <2>4. CASE \/ MarkRefused(r) \/ MarkFailed(r) \/ RecordRun(r) \/ Execute(r) \/ CloseGone(r)
             \/ CloseRow(r) \/ RunExit(r)
    <3>1. Present(s) /\ owed' = owed
      BY <2>4 DEF Present, MarkRefused, MarkFailed, RecordRun, Execute, CloseGone, CloseRow, RunExit,
                  storeVars, historyVars
    <3> QED  BY <1>1, <1>6, <2>1, <3>1
  <2> QED
    BY <1>6, <2>2, <2>3, <2>4 DEF RunStep
<1>7. ASSUME NEW c \in Callers, NEW q \in Schedules, Pause(c, q), ~Crash PROVE s \in owed' \/ RanHere(s)'
  <2>1. Present(s)
    BY <1>7 DEF Pause, Present
  <2>2. Waits /\ owed' = owed
    BY <1>7 DEF Pause, loopVars, runVars
  <2> QED  BY <1>1, <1>7, <2>1, <2>2
<1>8. ASSUME NEW c \in Callers, DeleteRows(c), ~Crash PROVE s \in owed' \/ RanHere(s)'
  <2>1. Present(s) /\ (s \in owed => s \in owed')
    BY <1>8 DEF DeleteRows, Present, Absent
  <2>2. Waits
    BY <1>8 DEF DeleteRows, loopVars, runVars
  <2> QED  BY <1>1, <1>8, <2>1, <2>2
<1>9. ASSUME NEW q \in Schedules, NEW m \in MaxRunsChoices, Create(q, m), ~Crash
      PROVE  s \in owed' \/ RanHere(s)'
  <2>1. Waits
    BY <1>9 DEF Create, loopVars, runVars
  <2>2. s \in created
    BY <2>1 DEF Handed
  <2>3. Present(s) /\ owed' = owed
    BY <1>9, <2>2 DEF Create, Present, historyVars
  <2> QED  BY <1>1, <1>9, <2>1, <2>3
<1>10. ASSUME NEW q \in Schedules, Resume(q) \/ RunNow(q) \/ Elapse(q), ~Crash
       PROVE  s \in owed' \/ RanHere(s)'
  <2>1. \A p \in Schedules : p # q => schedule'[p] = schedule[p]
    BY <1>10, RowTouched DEF Touched
  <2>2. owed' = owed \cup {q} /\ Present(q)
    BY <1>10 DEF Resume, RunNow, Elapse, Present, Active
  <2>3. Present(s) /\ Waits
    BY <1>10, <2>1, <2>2 DEF Resume, RunNow, Elapse, Present, loopVars, runVars
  <2> QED  BY <1>1, <1>10, <2>2, <2>3
<1> QED
  BY <1>2, <1>3, <1>4, <1>5, <1>6, <1>7, <1>8, <1>9, <1>10, QuietSteps DEF Next, LoopStep, CallStep

\* "A restart mid-run does not rapidly duplicate it": a run this process begins was asked
\* for, by the clock or by a call, since the schedule last ran, or the process ran it before.
THEOREM RunsAreOwed == Spec => NoDuplicateAfterRestart
<1> DEFINE Inv == IInv /\ Handed /\ OwedDue /\ Foreseen
<1>1. Init => Handed /\ OwedDue /\ Foreseen
  BY ConstantsAssumption DEF Init, Handed, OwedDue, Foreseen, Active, Absent
<1>2. IInv /\ Handed /\ OwedDue /\ Foreseen /\ [Next]_vars => Handed' /\ OwedDue' /\ Foreseen'
  BY HandedStep, OwedStep, ForeseenStep
<1>3. IInv /\ Foreseen /\ [Next]_vars
      => [\A r \in Runs : MarkRun(r) => of[r] \in owed \/ RanHere(of[r])]_vars
  BY DEF IInv, InFlightOwned, Live, MarkRun, Active, Foreseen, Present
<1> QED
  BY <1>1, <1>2, <1>3, Inductive, PTL DEF Spec, NoDuplicateAfterRestart

-----------------------------------------------------------------------------
(* Rows that say running.                                                  *)

\* What a run has written is what it came to.
RowsTell ==
    /\ \A r \in Runs : row[r] # "absent" =>
          of[r] \in Schedules /\ runPc[r] \notin {"idle", "launched", "recording"}
    /\ \A r \in Runs : runPc[r] \in {"concluded", "closing"} => outcome[r] \in Finished
    /\ \A r \in Runs : row[r] \in Finished => runPc[r] \in {"closing", "exiting", "done", "lost"}
    /\ \A r \in Runs : runPc[r] = "closing" => row[r] = outcome[r]

\* A schedule is completed by the last of its runs, and paused by Pause.
SchedulesTell ==
    /\ \A s \in Schedules : ~Present(s) => schedule[s].last = "none"
    /\ \A s \in Schedules, r \in Runs :
          schedule[s].status = "completed" /\ of[r] = s => runPc[r] \notin UnderWay
    /\ \A s \in Schedules : schedule[s].status = "paused" => s \in pausedOnce

\* RunningIsBacked, with the places of the goroutine behind each row.
Backed ==
    crashes = 0 =>
        /\ \A s \in Schedules : schedule[s].last = "running" =>
              \E r \in Runs : of[r] = s /\ runPc[r] \in UnderWay
        /\ \A r \in Runs : row[r] = "running" /\ Present(of[r]) =>
              runPc[r] \in {"executing", "concluded"}

LEMMA RowsTellStep == ~StoreMayFail /\ IInv /\ RowsTell /\ [Next]_vars => RowsTell'
<1> SUFFICES ASSUME ~StoreMayFail, IInv, RowsTell, [Next]_vars PROVE RowsTell'
  OBVIOUS
<1> USE DEF IInv, TypeOK, RowsTell, RunStatuses, Finished
<1>1. CASE Quiet
  BY <1>1 DEF Quiet
<1>2. ASSUME UNCHANGED <<row, runPc, of, outcome>> PROVE RowsTell'
  BY <1>2
<1>3. ASSUME NEW l \in Loops, LoopList(l) PROVE RowsTell'
  BY <1>2, <1>3 DEF LoopList, storeVars, runVars
<1>4. ASSUME NEW l \in Loops, NEW s \in Schedules, NEW r \in Runs, Launch(l, s, r) PROVE RowsTell'
  BY <1>4 DEF Launch, storeVars
<1>5. ASSUME NEW r \in Runs, MarkRefused(r) \/ MarkRun(r) \/ CloseGone(r) PROVE RowsTell'
  BY <1>5 DEF MarkRefused, MarkRun, CloseGone, storeVars
<1>6. ASSUME NEW r \in Runs, MarkFailed(r) PROVE RowsTell'
  BY <1>6 DEF MarkFailed
<1>7. ASSUME NEW r \in Runs, RecordRun(r) PROVE RowsTell'
  <2>1. of[r] \in Schedules
    BY <1>7 DEF InFlightOwned, Live, RecordRun
  <2> QED
    BY <1>7, <2>1 DEF RecordRun
<1>8. ASSUME NEW r \in Runs, Execute(r) PROVE RowsTell'
  BY <1>8 DEF Execute, storeVars
<1>9. ASSUME NEW r \in Runs, CloseRow(r) PROVE RowsTell'
  <2>1. of[r] \in Schedules
    BY <1>9 DEF InFlightOwned, Live, CloseRow
  <2> QED
    BY <1>9, <2>1 DEF CloseRow
<1>10. ASSUME NEW r \in Runs, CloseSchedule(r) \/ RunExit(r) PROVE RowsTell'
  BY <1>10 DEF CloseSchedule, RunExit, storeVars
<1>11. ASSUME NEW c \in Callers, NEW s \in Schedules, Pause(c, s) PROVE RowsTell'
  BY <1>2, <1>11 DEF Pause, runVars
<1>12. ASSUME NEW c \in Callers, DeleteRows(c) PROVE RowsTell'
  BY <1>12, ConstantsAssumption DEF DeleteRows, ClosingHolds, Unlocked, runVars
<1>13. ASSUME NEW s \in Schedules,
              Resume(s) \/ RunNow(s) \/ Elapse(s) \/ \E m \in MaxRunsChoices : Create(s, m)
       PROVE  RowsTell'
  BY <1>2, <1>13 DEF Resume, RunNow, Elapse, Create, runVars
<1>14. CASE Crash
  BY <1>14 DEF Crash, storeVars
<1> QED
  BY <1>1, <1>3, <1>4, <1>5, <1>6, <1>7, <1>8, <1>9, <1>10, <1>11, <1>12, <1>13, <1>14, QuietSteps
  DEF Next, LoopStep, RunStep, CallStep

\* What Closed leaves of a schedule: its last result, its count, its limit, and whether it
\* is completed.
LEMMA ClosedTells ==
    ASSUME NEW rec \in ScheduleRecord, NEW result \in RunStatuses
    PROVE  /\ Closed(rec, result).last = result
           /\ Closed(rec, result).runCount = rec.runCount + 1
           /\ Closed(rec, result).maxRuns = rec.maxRuns
           /\ Closed(rec, result).status = "active" /\ result # "cancelled" /\ rec.maxRuns > 0
              => rec.runCount + 1 < rec.maxRuns
  BY DEF Closed, ScheduleRecord

LEMMA SchedulesTellStep ==
    ~StoreMayFail /\ IInv /\ SchedulesTell /\ [Next]_vars => SchedulesTell'
<1> SUFFICES ASSUME ~StoreMayFail, IInv, SchedulesTell, [Next]_vars PROVE SchedulesTell'
  OBVIOUS
<1> USE DEF IInv, TypeOK, SchedulesTell, Present, UnderWay
<1>1. CASE Quiet
  BY <1>1 DEF Quiet
<1>2. ASSUME UNCHANGED <<schedule, pausedOnce, of>>, NEW r \in Runs, NEW place,
             runPc' = [runPc EXCEPT ![r] = place], place \in UnderWay => runPc[r] \in UnderWay
      PROVE  SchedulesTell'
  BY <1>2
<1>3. ASSUME NEW l \in Loops, LoopList(l) PROVE SchedulesTell'
  BY <1>3 DEF LoopList, storeVars, runVars, historyVars
<1>4. ASSUME NEW l \in Loops, NEW s \in Schedules, NEW r \in Runs, Launch(l, s, r)
      PROVE  SchedulesTell'
  BY <1>4 DEF Launch, storeVars, historyVars
<1>5. ASSUME NEW r \in Runs, MarkRun(r) PROVE SchedulesTell'
  <2>1. of[r] \in Schedules /\ Active(of[r])
    BY <1>5 DEF InFlightOwned, Live, MarkRun
  <2>2. Touched(of[r], "active", FALSE, "running")
    BY <1>5, <2>1, RowTouched
  <2>3. \A q \in Schedules : schedule'[q].status = schedule[q].status
    BY <2>1, <2>2 DEF Touched, Active
  <2>4. \A q \in Schedules : ~Present(q) => schedule'[q].last = schedule[q].last
    BY <2>1, <2>2 DEF Touched, Active
  <2>5. UNCHANGED <<pausedOnce, of>> /\ runPc' = [runPc EXCEPT ![r] = "recording"]
    BY <1>5 DEF MarkRun
  <2> QED
    BY <2>1, <2>3, <2>4, <2>5 DEF Active
<1>6. ASSUME NEW r \in Runs,
             MarkRefused(r) \/ MarkFailed(r) \/ RecordRun(r) \/ Execute(r) \/ CloseGone(r) \/ CloseRow(r)
             \/ RunExit(r)
      PROVE  SchedulesTell'
  BY <1>2, <1>6 DEF MarkRefused, MarkFailed, RecordRun, Execute, CloseGone, CloseRow, RunExit,
                    storeVars, historyVars
<1>7. ASSUME NEW r \in Runs, CloseSchedule(r) PROVE SchedulesTell'
  <2> DEFINE s == of[r]
  <2>1. s \in Schedules /\ Present(s) /\ inFlight[s] = r
    BY <1>7 DEF InFlightOwned, ClosingHolds, Live, CloseSchedule
  <2>2. \A q \in Runs : of[q] = s /\ q # r => runPc[q] \notin UnderWay
    BY <2>1 DEF InFlightOwned, Live
  <2>3. schedule' = [schedule EXCEPT ![s] = Closed(schedule[s], outcome[r])]
    BY <1>7 DEF CloseSchedule
  <2>4. schedule'[s].status \notin {"absent", "paused"} \/ schedule'[s].status = schedule[s].status
    <3>1. schedule'[s] = Closed(schedule[s], outcome[r])
      BY <2>1, <2>3
    <3>2. schedule[s] \in ScheduleRecord /\ outcome[r] \in RunStatuses
      BY <2>1
    <3> QED
      BY <3>1, <3>2, ClosedStatus
  <2>5. \A q \in Schedules : q # s => schedule'[q] = schedule[q]
    BY <2>3
  <2>6. \A q \in Runs : of'[q] = of[q] /\ runPc'[q] = IF q = r THEN "exiting" ELSE runPc[q]
    BY <1>7 DEF CloseSchedule
  <2>7. pausedOnce' = pausedOnce
    BY <1>7 DEF CloseSchedule
  <2> QED
    BY <2>1, <2>2, <2>4, <2>5, <2>6, <2>7
<1>8. ASSUME NEW c \in Callers, NEW s \in Schedules, Pause(c, s) PROVE SchedulesTell'
  <2>1. Touched(s, "paused", schedule[s].due, schedule[s].last) /\ Present(s)
    BY <1>8, RowTouched DEF Pause
  <2>2. \A q \in Schedules : q # s => schedule'[q] = schedule[q]
    BY <2>1 DEF Touched
  <2>3. schedule'[s].status = "paused"
    BY <2>1 DEF Touched
  <2>4. UNCHANGED <<of, runPc>> /\ pausedOnce' = pausedOnce \cup {s}
    BY <1>8 DEF Pause, runVars
  <2> QED
    BY <2>2, <2>3, <2>4
<1>9. ASSUME NEW c \in Callers, DeleteRows(c) PROVE SchedulesTell'
  <2>1. \A q \in Schedules : schedule'[q] = schedule[q] \/ schedule'[q] = Absent
    BY <1>9 DEF DeleteRows
  <2>2. UNCHANGED <<of, runPc, pausedOnce>>
    BY <1>9 DEF DeleteRows, runVars
  <2> QED
    BY <2>1, <2>2 DEF Absent
<1>10. ASSUME NEW s \in Schedules, NEW m \in MaxRunsChoices, Create(s, m) PROVE SchedulesTell'
  <2>1. schedule'[s].status = "active" /\ \A q \in Schedules : q # s => schedule'[q] = schedule[q]
    BY <1>10 DEF Create, Absent
  <2>2. UNCHANGED <<of, runPc, pausedOnce>>
    BY <1>10 DEF Create, runVars, historyVars
  <2> QED
    BY <2>1, <2>2
<1>11. ASSUME NEW s \in Schedules, Resume(s) \/ RunNow(s) \/ Elapse(s) PROVE SchedulesTell'
  <2>1. \A q \in Schedules : q # s => schedule'[q] = schedule[q]
    BY <1>11, RowTouched DEF Touched
  <2>2. schedule'[s].status \in {"active", schedule[s].status} /\ Present(s)
    BY <1>11, RowTouched DEF Touched, Resume, RunNow, Elapse, Active
  <2>3. UNCHANGED <<of, runPc, pausedOnce>>
    BY <1>11 DEF Resume, RunNow, Elapse, runVars
  <2> QED
    BY <2>1, <2>2, <2>3
<1>12. CASE Crash
  BY <1>12 DEF Crash, storeVars
<1> QED
  BY <1>1, <1>3, <1>4, <1>5, <1>6, <1>7, <1>8, <1>9, <1>10, <1>11, <1>12, QuietSteps
  DEF Next, LoopStep, RunStep, CallStep

LEMMA BackedStep ==
    ~StoreMayFail /\ IInv /\ Handed /\ RowsTell /\ SchedulesTell /\ Backed /\ [Next]_vars => Backed'
<1> SUFFICES ASSUME ~StoreMayFail, IInv, Handed, RowsTell, SchedulesTell, Backed, [Next]_vars
             PROVE  Backed'
  OBVIOUS
<1> USE DEF IInv, TypeOK, Backed, Present, UnderWay
<1>1. CASE Quiet
  BY <1>1 DEF Quiet
\* A step of the goroutine that keeps it behind its rows.
<1>2. ASSUME UNCHANGED <<schedule, of, crashes>>, NEW r \in Runs, NEW place,
             runPc' = [runPc EXCEPT ![r] = place],
             runPc[r] \in UnderWay /\ Present(of[r]) => place \in UnderWay,
             \A q \in Runs : row'[q] = "running" /\ Present(of[q]) =>
                runPc'[q] \in {"executing", "concluded"}
      PROVE  Backed'
  <2> SUFFICES ASSUME crashes = 0, NEW s \in Schedules, schedule[s].last = "running"
               PROVE  \E q \in Runs : of[q] = s /\ runPc'[q] \in UnderWay
    BY <1>2
  <2>1. PICK q \in Runs : of[q] = s /\ runPc[q] \in UnderWay
    BY <1>2
  <2>2. Present(s)
    BY DEF SchedulesTell
  <2>3. runPc'[q] \in UnderWay
    BY <1>2, <2>1, <2>2
  <2> QED
    BY <2>1, <2>3
<1>3. ASSUME NEW l \in Loops, LoopList(l) PROVE Backed'
  BY <1>3 DEF LoopList, storeVars, runVars, historyVars
<1>4. ASSUME NEW l \in Loops, NEW s \in Schedules, NEW r \in Runs, Launch(l, s, r) PROVE Backed'
  <2>1. runPc[r] = "idle" /\ row[r] = "absent"
    BY <1>4 DEF Launch, RowsTell
  <2>2. \A q \in Runs : q # r => of'[q] = of[q] /\ runPc'[q] = runPc[q]
    BY <1>4 DEF Launch
  <2>3. UNCHANGED <<schedule, row, crashes>>
    BY <1>4 DEF Launch, storeVars, historyVars
  <2> QED
    BY <2>1, <2>2, <2>3
<1>5. ASSUME NEW r \in Runs, MarkRun(r) PROVE Backed'
  <2>1. of[r] \in Schedules /\ Present(of[r])
    BY <1>5 DEF InFlightOwned, Live, MarkRun, Active
  <2>2. Touched(of[r], "active", FALSE, "running")
    BY <1>5, <2>1, RowTouched
  <2>3. \A q \in Schedules : /\ q # of[r] => schedule'[q] = schedule[q]
                             /\ Present(q)' => Present(q)
    BY <2>1, <2>2 DEF Touched
  <2>4. UNCHANGED <<row, of, crashes>> /\ runPc' = [runPc EXCEPT ![r] = "recording"]
        /\ runPc[r] = "launched"
    BY <1>5 DEF MarkRun
  <2>5. \A q \in Runs : q # r => runPc'[q] = runPc[q]
    BY <2>4
  <2>6. runPc'[r] = "recording" /\ row[r] # "running"
    BY <2>4 DEF RowsTell
  <2>7. ASSUME crashes = 0, NEW s \in Schedules, schedule'[s].last = "running"
        PROVE  \E q \in Runs : of[q] = s /\ runPc'[q] \in UnderWay
    <3>1. CASE s = of[r]
      BY <2>6, <3>1
    <3>2. CASE s # of[r]
      <4>1. PICK q \in Runs : of[q] = s /\ runPc[q] \in UnderWay
        BY <2>3, <2>7, <3>2
      <4> QED
        BY <2>5, <3>2, <4>1
    <3> QED  BY <3>1, <3>2
  <2>8. ASSUME crashes = 0, NEW q \in Runs, row[q] = "running", Present(of[q])'
        PROVE  runPc'[q] \in {"executing", "concluded"}
    <3>1. of[q] \in Schedules /\ q # r
      BY <2>6, <2>8 DEF RowsTell
    <3> QED
      BY <2>3, <2>4, <2>5, <2>8, <3>1
  <2> QED
    BY <2>4, <2>7, <2>8
<1>6. ASSUME NEW r \in Runs, MarkRefused(r) \/ RunExit(r) PROVE Backed'
  BY <1>2, <1>6 DEF MarkRefused, RunExit, storeVars, historyVars
<1>7. ASSUME NEW r \in Runs, MarkFailed(r) PROVE Backed'
  BY <1>7 DEF MarkFailed
<1>8. ASSUME NEW r \in Runs, RecordRun(r) PROVE Backed'
  <2>1. row' = [row EXCEPT ![r] = "running"] /\ runPc' = [runPc EXCEPT ![r] = "executing"]
        /\ UNCHANGED <<schedule, of, crashes>>
    BY <1>8 DEF RecordRun, historyVars
  <2>2. CASE crashes = 0
    BY <1>2, <2>1, <2>2
  <2> QED  BY <2>1, <2>2
<1>9. ASSUME NEW r \in Runs, Execute(r) PROVE Backed'
  <2>1. runPc' = [runPc EXCEPT ![r] = "concluded"] /\ UNCHANGED <<schedule, of, crashes, row>>
    BY <1>9 DEF Execute, storeVars, historyVars
  <2>2. CASE crashes = 0
    BY <1>2, <2>1, <2>2
  <2> QED  BY <2>1, <2>2
<1>10. ASSUME NEW r \in Runs, CloseGone(r) PROVE Backed'
  <2>1. runPc' = [runPc EXCEPT ![r] = "exiting"] /\ UNCHANGED <<schedule, of, crashes, row>>
        /\ ~Present(of[r])
    BY <1>10 DEF CloseGone, storeVars, historyVars
  <2>2. CASE crashes = 0
    <3>1. \A q \in Runs : row'[q] = "running" /\ Present(of[q]) => runPc'[q] \in {"executing", "concluded"}
      BY <2>1, <2>2
    <3> HIDE DEF Present
    <3> QED
      BY <1>2, <2>1, <3>1
  <2> QED  BY <2>1, <2>2
<1>11. ASSUME NEW r \in Runs, CloseRow(r) PROVE Backed'
  <2>1. runPc' = [runPc EXCEPT ![r] = "closing"] /\ UNCHANGED <<schedule, of, crashes>>
        /\ \A q \in Runs : q # r => row'[q] = row[q]
    BY <1>11 DEF CloseRow, historyVars
  <2>2. row'[r] # "running"
    BY <1>11 DEF CloseRow, RowsTell, Finished
  <2>3. CASE crashes = 0
    BY <1>2, <2>1, <2>2, <2>3
  <2> QED  BY <2>1, <2>3
<1>12. ASSUME NEW r \in Runs, CloseSchedule(r) PROVE Backed'
  <2> DEFINE s == of[r]
  <2>1. s \in Schedules /\ Present(s) /\ inFlight[s] = r
    BY <1>12 DEF InFlightOwned, ClosingHolds, Live, CloseSchedule
  <2>2. schedule' = [schedule EXCEPT ![s] = Closed(schedule[s], outcome[r])]
        /\ runPc' = [runPc EXCEPT ![r] = "exiting"] /\ UNCHANGED <<of, crashes, row>>
        /\ runPc[r] = "closing"
    BY <1>12 DEF CloseSchedule
  <2>3. schedule'[s].last # "running"
    <3>1. schedule'[s] = Closed(schedule[s], outcome[r])
      BY <2>1, <2>2
    <3>2. outcome[r] # "running"
      BY <2>2 DEF RowsTell, Finished
    <3> QED
      BY <2>1, <3>1, <3>2, ClosedTells
  <2>4. \A q \in Schedules : q # s => schedule'[q] = schedule[q]
    BY <2>2
  <2>5. \A q \in Runs : runPc'[q] = IF q = r THEN "exiting" ELSE runPc[q]
    BY <2>2
  <2>6. ASSUME crashes = 0, NEW q \in Runs, row[q] = "running", Present(of[q])'
        PROVE  runPc'[q] \in {"executing", "concluded"}
    <3>1. of[q] \in Schedules /\ q # r
      BY <2>2, <2>6 DEF RowsTell, Finished
    <3>2. Present(of[q])
      <4>1. CASE of[q] = s
        BY <2>1, <4>1
      <4>2. CASE of[q] # s
        <5>1. schedule'[of[q]] = schedule[of[q]] /\ of'[q] = of[q]
          BY <2>2, <2>4, <3>1, <4>2
        <5> QED
          BY <2>6, <5>1
      <4> QED  BY <4>1, <4>2
    <3> QED
      BY <2>2, <2>5, <2>6, <3>1, <3>2
  <2>7. ASSUME crashes = 0, NEW q \in Schedules, schedule'[q].last = "running"
        PROVE  \E n \in Runs : of[n] = q /\ runPc'[n] \in UnderWay
    <3>1. q # s /\ schedule[q].last = "running"
      BY <2>3, <2>4, <2>7
    <3> QED
      BY <2>5, <2>7, <3>1
  <2> QED
    BY <2>2, <2>6, <2>7
<1>13. ASSUME NEW c \in Callers, DeleteRows(c) PROVE Backed'
  <2>1. \A q \in Schedules : schedule'[q] = schedule[q] \/ schedule'[q] = Absent
    BY <1>13 DEF DeleteRows
  <2>2. \A r \in Runs : row'[r] = row[r] \/ row'[r] = "absent"
    BY <1>13 DEF DeleteRows
  <2>3. UNCHANGED <<of, runPc, crashes>>
    BY <1>13 DEF DeleteRows, runVars
  <2>4. ASSUME crashes = 0, NEW s \in Schedules, schedule'[s].last = "running"
        PROVE  \E r \in Runs : of[r] = s /\ runPc[r] \in UnderWay
    BY <2>1, <2>4 DEF Absent
  <2>5. ASSUME crashes = 0, NEW r \in Runs, row'[r] = "running", Present(of[r])'
        PROVE  runPc[r] \in {"executing", "concluded"}
    <3>1. row[r] = "running" /\ of[r] \in Schedules
      BY <2>2, <2>5 DEF RowsTell
    <3>2. Present(of[r])
      BY <2>1, <2>3, <2>5, <3>1 DEF Absent
    <3> QED  BY <2>5, <3>1, <3>2
  <2> QED
    BY <2>3, <2>4, <2>5
<1>14. ASSUME NEW s \in Schedules, NEW m \in MaxRunsChoices, Create(s, m) PROVE Backed'
  <2>1. schedule'[s].last = "none" /\ \A q \in Schedules : q # s => schedule'[q] = schedule[q]
    BY <1>14 DEF Create, Absent
  <2>2. UNCHANGED <<row, of, runPc, crashes>>
    BY <1>14 DEF Create, runVars, historyVars
  <2>3. \A r \in Runs : of[r] # s
    BY <1>14 DEF Create, Handed
  <2> QED
    BY <2>1, <2>2, <2>3 DEF RowsTell
<1>15. ASSUME NEW s \in Schedules,
              Resume(s) \/ RunNow(s) \/ Elapse(s) \/ \E c \in Callers : Pause(c, s)
       PROVE  Backed'
  <2>0. PICK status, due : Touched(s, status, due, schedule[s].last)
    BY <1>15, RowTouched
  <2>1. \A q \in Schedules : q # s => schedule'[q] = schedule[q]
    BY <2>0 DEF Touched
  <2>2. schedule'[s].last = schedule[s].last /\ Present(s)
    <3>1. Present(s)
      BY <1>15 DEF Resume, RunNow, Elapse, Pause, Active
    <3> QED
      BY <2>0, <3>1 DEF Touched
  <2>3. UNCHANGED <<row, of, runPc, crashes>>
    BY <1>15 DEF Resume, RunNow, Elapse, Pause, runVars
  <2> QED
    BY <2>1, <2>2, <2>3 DEF RowsTell
<1>16. CASE Crash
  BY <1>16 DEF Crash
<1> QED
  BY <1>1, <1>3, <1>4, <1>5, <1>6, <1>7, <1>8, <1>9, <1>10, <1>11, <1>12, <1>13, <1>14, <1>15, <1>16,
     QuietSteps
  DEF Next, LoopStep, RunStep, CallStep

\* What the rows say, of a store whose writes succeed.
RowsInv == IInv /\ Handed /\ RowsTell /\ SchedulesTell /\ Backed

LEMMA RowsInductive == ASSUME ~StoreMayFail PROVE Spec => []RowsInv
<1>1. Init => Handed /\ RowsTell /\ SchedulesTell /\ Backed
  <2> SUFFICES ASSUME Init PROVE Handed /\ RowsTell /\ SchedulesTell /\ Backed
    OBVIOUS
  <2>1. \A s \in Schedules : schedule[s].status = "absent" /\ schedule[s].last = "none"
    BY DEF Init, Absent
  <2> QED
    BY <2>1, ConstantsAssumption
    DEF Init, Handed, RowsTell, SchedulesTell, Backed, Present, Finished, UnderWay
<1>2. IInv /\ Handed /\ RowsTell /\ SchedulesTell /\ Backed /\ [Next]_vars
      => Handed' /\ RowsTell' /\ SchedulesTell' /\ Backed'
  BY HandedStep, RowsTellStep, SchedulesTellStep, BackedStep
<1> QED
  BY <1>1, <1>2, Inductive, PTL DEF Spec, RowsInv

\* As long as the process lives and its store takes every write, a schedule or a history row
\* that says running has a goroutine that will write how it ended (execute, finish).
THEOREM RunningHasARun == ASSUME ~StoreMayFail PROVE Spec => []RunningIsBacked
<1>1. RowsInv => RunningIsBacked
  BY DEF RowsInv, Backed, RunningIsBacked, UnderWay, Live
<1> QED
  BY <1>1, RowsInductive, PTL

-----------------------------------------------------------------------------
(* Counting.                                                               *)

\* What is counted of a schedule: the finished runs, those that were not cancelled, and
\* of each the one between its two writes.
Done(s)     == HistoryOf(s, Finished)
Uncut(s)    == HistoryOf(s, {"succeeded", "failed"})
Half(s)     == {r \in Runs : of[r] = s /\ runPc[r] = "closing"}
HalfUncut(s) == {r \in Runs : of[r] = s /\ runPc[r] = "closing" /\ outcome[r] # "cancelled"}

Counted(s) ==
    /\ schedule[s].runCount + Cardinality(Half(s)) <= Cardinality(Done(s))
    /\ Cardinality(Done(s)) <= schedule[s].runCount + Cardinality(Half(s)) + crashes

\* As long as a schedule is active it has a run left, and the last one completes it.
Limited(s) ==
    s \notin pausedOnce /\ schedule[s].maxRuns > 0 =>
        /\ Cardinality(Uncut(s)) <= schedule[s].maxRuns + crashes
        /\ Active(s) => Cardinality(Uncut(s)) + 1
                          <= schedule[s].maxRuns + crashes + Cardinality(HalfUncut(s))

Counts == \A s \in Schedules : Present(s) => Counted(s) /\ Limited(s)

LEMMA SetsFinite ==
    ASSUME IsFiniteSet(Runs), NEW s \in Schedules
    PROVE  /\ IsFiniteSet(Done(s)) /\ IsFiniteSet(Uncut(s))
           /\ IsFiniteSet(Half(s)) /\ IsFiniteSet(HalfUncut(s))
           /\ Cardinality(Done(s)) \in Nat /\ Cardinality(Uncut(s)) \in Nat
           /\ Cardinality(Half(s)) \in Nat /\ Cardinality(HalfUncut(s)) \in Nat
<1>1. Done(s) \subseteq Runs /\ Uncut(s) \subseteq Runs /\ Half(s) \subseteq Runs /\ HalfUncut(s) \subseteq Runs
  BY DEF Done, Uncut, Half, HalfUncut, HistoryOf
<1>2. IsFiniteSet(Done(s)) /\ IsFiniteSet(Uncut(s)) /\ IsFiniteSet(Half(s)) /\ IsFiniteSet(HalfUncut(s))
  BY <1>1, FS_Subset
<1> QED
  BY <1>2, FS_CardinalityType

\* A step that counts nothing: the four sets stay, and of a schedule that no Pause reached
\* its row keeps its status, its count and its limit.
Steady ==
    /\ \A s \in Schedules : /\ Done(s)' = Done(s) /\ Uncut(s)' = Uncut(s)
                            /\ Half(s)' = Half(s) /\ HalfUncut(s)' = HalfUncut(s)
    /\ \A s \in Schedules : /\ Present(s)' => Present(s)
                            /\ schedule'[s].runCount = schedule[s].runCount
                            /\ schedule'[s].maxRuns = schedule[s].maxRuns
                            /\ s \notin pausedOnce' => (Active(s)' => Active(s))
    /\ crashes' = crashes /\ pausedOnce \subseteq pausedOnce'

LEMMA SteadyCounts == Counts /\ Steady => Counts'
<1> SUFFICES ASSUME Counts, Steady, NEW s \in Schedules, Present(s)' PROVE (Counted(s) /\ Limited(s))'
  BY DEF Counts
<1>1. Counted(s) /\ Limited(s)
  <2>1. Present(s)
    BY DEF Steady, Present
  <2> QED
    BY <2>1 DEF Counts
<1>2. Done(s)' = Done(s) /\ Uncut(s)' = Uncut(s)
  BY DEF Steady, Done, Uncut, HistoryOf
<1>3. Half(s)' = Half(s) /\ HalfUncut(s)' = HalfUncut(s)
  BY DEF Steady, Half, HalfUncut
<1>4. /\ schedule'[s].runCount = schedule[s].runCount /\ schedule'[s].maxRuns = schedule[s].maxRuns
      /\ s \notin pausedOnce' => s \notin pausedOnce /\ (Active(s)' => Active(s))
      /\ crashes' = crashes
  BY DEF Steady, Active
<1>5. Counted(s)'
  BY <1>1, <1>2, <1>3, <1>4 DEF Counted
<1>6. Limited(s)'
  BY <1>1, <1>2, <1>3, <1>4 DEF Limited
<1> QED
  BY <1>5, <1>6

\* The sets follow from the goroutines' places and the history's rows.
LEMMA SetsStay ==
    ASSUME IInv, RowsTell,
           \A r \in Runs : /\ of'[r] = of[r] \/ (row[r] = "absent" /\ row'[r] = "absent"
                                                /\ runPc[r] # "closing" /\ runPc'[r] # "closing")
                           /\ row'[r] = row[r] \/ {row[r], row'[r]} \cap Finished = {}
                           /\ runPc'[r] = "closing" <=> runPc[r] = "closing"
                           /\ runPc[r] = "closing" => outcome'[r] = outcome[r]
    PROVE  \A s \in Schedules : /\ Done(s)' = Done(s) /\ Uncut(s)' = Uncut(s)
                                /\ Half(s)' = Half(s) /\ HalfUncut(s)' = HalfUncut(s)
<1> TAKE s \in Schedules
<1>1. Done(s)' = Done(s)
  BY DEF Done, HistoryOf, Finished
<1>2. Uncut(s)' = Uncut(s)
  BY DEF Uncut, HistoryOf, Finished
<1>3. Half(s)' = Half(s)
  BY DEF Half
<1>4. HalfUncut(s)' = HalfUncut(s)
  BY DEF HalfUncut
<1> QED
  BY <1>1, <1>2, <1>3, <1>4

\* Every step but the end of a run, Create, DeleteRows and Crash counts nothing.
LEMMA SteadySteps ==
    ASSUME ~StoreMayFail, IInv, RowsTell, SchedulesTell
    PROVE  /\ Quiet => Steady
           /\ \A l \in Loops : LoopList(l) => Steady
           /\ \A l \in Loops, s \in Schedules, r \in Runs : Launch(l, s, r) => Steady
           /\ \A r \in Runs : MarkRefused(r) \/ MarkRun(r) \/ MarkFailed(r) \/ RecordRun(r) \/ Execute(r)
                              \/ CloseGone(r) \/ RunExit(r) => Steady
           /\ \A c \in Callers, s \in Schedules : Pause(c, s) => Steady
           /\ \A s \in Schedules : Resume(s) \/ RunNow(s) \/ Elapse(s) => Steady
<1> USE DEF IInv, TypeOK
<1>0. ASSUME UNCHANGED <<schedule, crashes, pausedOnce>>,
             \A s \in Schedules : /\ Done(s)' = Done(s) /\ Uncut(s)' = Uncut(s)
                                  /\ Half(s)' = Half(s) /\ HalfUncut(s)' = HalfUncut(s)
      PROVE  Steady
  BY <1>0 DEF Steady, Present, Active
<1>1. ASSUME Quiet PROVE Steady
  BY <1>0, <1>1, SetsStay DEF Quiet
<1>2. ASSUME NEW l \in Loops, LoopList(l) PROVE Steady
  BY <1>0, <1>2, SetsStay DEF LoopList, storeVars, runVars, historyVars
<1>3. ASSUME NEW l \in Loops, NEW s \in Schedules, NEW r \in Runs, Launch(l, s, r) PROVE Steady
  <2>1. row[r] = "absent"
    BY <1>3 DEF Launch, RowsTell
  <2> QED
    BY <1>0, <1>3, <2>1, SetsStay DEF Launch, storeVars, historyVars
<1>4. ASSUME NEW r \in Runs, MarkRefused(r) \/ MarkFailed(r) \/ Execute(r) \/ CloseGone(r) \/ RunExit(r)
      PROVE  Steady
  BY <1>0, <1>4, SetsStay DEF MarkRefused, MarkFailed, Execute, CloseGone, RunExit, storeVars, historyVars
<1>5. ASSUME NEW r \in Runs, RecordRun(r) PROVE Steady
  <2>1. row[r] = "absent" /\ row' = [row EXCEPT ![r] = "running"]
    BY <1>5 DEF RecordRun, RowsTell
  <2> QED
    BY <1>0, <1>5, <2>1, SetsStay DEF RecordRun, historyVars, Finished
<1>6. ASSUME NEW s \in Schedules, NEW status, NEW due, NEW last, Touched(s, status, due, last),
             UNCHANGED <<row, of, outcome, crashes>>, Present(s),
             pausedOnce \subseteq pausedOnce',
             \A r \in Runs : runPc'[r] = "closing" <=> runPc[r] = "closing",
             s \notin pausedOnce' /\ status = "active" => Active(s)
      PROVE  Steady
  <2>1. \A q \in Schedules : /\ Done(q)' = Done(q) /\ Uncut(q)' = Uncut(q)
                             /\ Half(q)' = Half(q) /\ HalfUncut(q)' = HalfUncut(q)
    BY <1>6, SetsStay
  <2>2. \A q \in Schedules : /\ Present(q)' => Present(q)
                             /\ schedule'[q].runCount = schedule[q].runCount
                             /\ schedule'[q].maxRuns = schedule[q].maxRuns
                             /\ q \notin pausedOnce' => (Active(q)' => Active(q))
    BY <1>6 DEF Touched, Present, Active
  <2> QED
    BY <1>6, <2>1, <2>2 DEF Steady
<1>7. ASSUME NEW r \in Runs, MarkRun(r) PROVE Steady
  <2>1. of[r] \in Schedules /\ Active(of[r])
    BY <1>7 DEF InFlightOwned, Live, MarkRun
  <2>2. Touched(of[r], "active", FALSE, "running")
    BY <1>7, <2>1, RowTouched
  <2> QED
    BY <1>6, <1>7, <2>1, <2>2 DEF MarkRun, Present, Active
<1>8. ASSUME NEW c \in Callers, NEW s \in Schedules, Pause(c, s) PROVE Steady
  <2>1. Touched(s, "paused", schedule[s].due, schedule[s].last)
    BY <1>8, RowTouched
  <2> QED
    BY <1>6, <1>8, <2>1 DEF Pause, Present, runVars
<1>9. ASSUME NEW s \in Schedules, Resume(s) PROVE Steady
  <2>1. Touched(s, "active", TRUE, schedule[s].last)
    BY <1>9, RowTouched
  <2>2. s \notin pausedOnce => Active(s)
    BY <1>9 DEF Resume, SchedulesTell, Active
  <2> QED
    BY <1>6, <1>9, <2>1, <2>2 DEF Resume, Present, runVars
<1>10. ASSUME NEW s \in Schedules, RunNow(s) \/ Elapse(s) PROVE Steady
  <2>1. Touched(s, schedule[s].status, TRUE, schedule[s].last)
    BY <1>10, RowTouched
  <2>2. Present(s)
    BY <1>10 DEF RunNow, Elapse, Present, Active
  <2> QED
    BY <1>6, <1>10, <2>1, <2>2 DEF RunNow, Elapse, Active, runVars
<1> QED
  BY <1>1, <1>2, <1>3, <1>4, <1>5, <1>7, <1>8, <1>9, <1>10

\* A schedule whose row and whose runs' places and rows stay is counted as before.
LEMMA OthersStay ==
    ASSUME Counts, NEW s \in Schedules, schedule'[s] = schedule[s], Present(s),
           UNCHANGED <<crashes, pausedOnce>>,
           \A r \in Runs : \/ of[r] # s /\ of'[r] # s
                           \/ /\ of'[r] = of[r] /\ row'[r] = row[r]
                              /\ runPc'[r] = runPc[r] /\ outcome'[r] = outcome[r]
    PROVE  Counted(s)' /\ Limited(s)'
<1>1. Done(s)' = Done(s) /\ Uncut(s)' = Uncut(s)
  BY DEF Done, Uncut, HistoryOf
<1>2. Half(s)' = Half(s) /\ HalfUncut(s)' = HalfUncut(s)
  BY DEF Half, HalfUncut
<1>3. Counted(s) /\ Limited(s)
  BY DEF Counts
<1> QED
  BY <1>1, <1>2, <1>3 DEF Counted, Limited, Active

\* The mutex lets one run be between its two writes.
LEMMA HalfIsOne ==
    ASSUME IInv, IsFiniteSet(Runs), NEW s \in Schedules
    PROVE  /\ Cardinality(Half(s)) <= 1 /\ Cardinality(HalfUncut(s)) <= 1
           /\ Unlocked => Cardinality(Half(s)) = 0 /\ Cardinality(HalfUncut(s)) = 0
<1>1. Half(s) \subseteq {lifecycleMu} /\ HalfUncut(s) \subseteq {lifecycleMu}
  BY DEF IInv, ClosingHolds, Half, HalfUncut
<1>2. IsFiniteSet({lifecycleMu}) /\ Cardinality({lifecycleMu}) = 1
  BY FS_Singleton
<1>3. Cardinality(Half(s)) <= 1 /\ Cardinality(HalfUncut(s)) <= 1
  BY <1>1, <1>2, FS_Subset
<1>4. ASSUME Unlocked PROVE Half(s) = {} /\ HalfUncut(s) = {}
  BY <1>4, ConstantsAssumption DEF IInv, ClosingHolds, Half, HalfUncut, Unlocked
<1> QED
  BY <1>3, <1>4, FS_EmptySet

LEMMA CloseRowCounts ==
    ASSUME ~StoreMayFail, IsFiniteSet(Runs), IInv, RowsTell, SchedulesTell, Counts,
           NEW r \in Runs, CloseRow(r)
    PROVE  Counts'
<1> DEFINE s == of[r]
           result == IF cancelled[r] THEN "cancelled" ELSE outcome[r]
<1> USE DEF IInv, TypeOK
<1>1. s \in Schedules /\ Present(s) /\ runPc[r] = "concluded" /\ Unlocked
  BY DEF InFlightOwned, Live, CloseRow
<1>2. /\ outcome' = [outcome EXCEPT ![r] = result] /\ row' = [row EXCEPT ![r] = result]
      /\ runPc' = [runPc EXCEPT ![r] = "closing"]
      /\ UNCHANGED <<schedule, of, crashes, pausedOnce>>
  BY DEF CloseRow, historyVars
<1>3. result \in Finished /\ row[r] \notin Finished
  BY <1>1 DEF RowsTell, Finished
<1> HIDE DEF result
<1>4. \A q \in Runs : q # r => /\ row'[q] = row[q] /\ runPc'[q] = runPc[q] /\ outcome'[q] = outcome[q]
                              /\ runPc[q] # "closing"
  BY <1>1, <1>2, ConstantsAssumption DEF ClosingHolds, Unlocked
<1>5. row'[r] = result /\ runPc'[r] = "closing" /\ outcome'[r] = result
  BY <1>2
<1>6. Done(s)' = Done(s) \cup {r} /\ r \notin Done(s)
  BY <1>2, <1>3, <1>4, <1>5 DEF Done, HistoryOf
<1>7. IF result = "cancelled" THEN Uncut(s)' = Uncut(s) ELSE Uncut(s)' = Uncut(s) \cup {r} /\ r \notin Uncut(s)
  BY <1>2, <1>3, <1>4, <1>5 DEF Uncut, HistoryOf, Finished
<1>8. Half(s)' = {r} /\ HalfUncut(s)' = IF result = "cancelled" THEN {} ELSE {r}
  BY <1>2, <1>4, <1>5 DEF Half, HalfUncut
<1>9. Cardinality(Half(s)) = 0 /\ Cardinality(HalfUncut(s)) = 0
  BY <1>1, HalfIsOne
<1>10. IsFiniteSet(Done(s)) /\ IsFiniteSet(Uncut(s)) /\ Cardinality(Done(s)) \in Nat /\ Cardinality(Uncut(s)) \in Nat
  BY <1>1, SetsFinite
<1>11. Cardinality(Done(s))' = Cardinality(Done(s)) + 1
  <2>1. Cardinality(Done(s) \cup {r}) = Cardinality(Done(s)) + 1
    BY <1>6, <1>10, FS_AddElement
  <2> QED  BY <1>6, <2>1
<1>12. IF result = "cancelled" THEN Cardinality(Uncut(s))' = Cardinality(Uncut(s))
                               ELSE Cardinality(Uncut(s))' = Cardinality(Uncut(s)) + 1
  BY <1>7, <1>10, FS_AddElement
<1>13. /\ Cardinality(Half(s))' = 1
       /\ Cardinality(HalfUncut(s))' = IF result = "cancelled" THEN 0 ELSE 1
  BY <1>8, FS_Singleton, FS_EmptySet
<1>14. Counted(s) /\ Limited(s)
  BY <1>1 DEF Counts
<1>15. schedule[s].runCount \in Nat /\ schedule[s].maxRuns \in Nat /\ crashes \in Nat
  BY <1>1 DEF ScheduleRecord
<1>16. Counted(s)'
  BY <1>2, <1>9, <1>10, <1>11, <1>13, <1>14, <1>15 DEF Counted
<1>17. Limited(s)'
  <2>1. s \notin pausedOnce => Active(s)
    <3>1. schedule[s].status \in Statuses
      BY <1>1 DEF ScheduleRecord
    <3>2. schedule[s].status # "completed"
      BY <1>1 DEF SchedulesTell, UnderWay
    <3> QED
      BY <1>1, <3>1, <3>2 DEF SchedulesTell, Statuses, Present, Active
  <2> QED
    BY <1>2, <1>9, <1>10, <1>12, <1>13, <1>14, <1>15, <2>1 DEF Limited
<1>18. ASSUME NEW q \in Schedules, q # s, Present(q) PROVE Counted(q)' /\ Limited(q)'
  <2>1. \A n \in Runs : \/ of[n] # q /\ of'[n] # q
                        \/ /\ of'[n] = of[n] /\ row'[n] = row[n]
                           /\ runPc'[n] = runPc[n] /\ outcome'[n] = outcome[n]
    BY <1>2, <1>4, <1>18
  <2> QED
    BY <1>2, <1>18, <2>1, OthersStay
<1> QED
  BY <1>2, <1>16, <1>17, <1>18 DEF Counts, Present

LEMMA CloseScheduleCounts ==
    ASSUME ~StoreMayFail, IsFiniteSet(Runs), IInv, RowsTell, Counts, NEW r \in Runs, CloseSchedule(r)
    PROVE  Counts'
<1> DEFINE s == of[r]
<1> USE DEF IInv, TypeOK
<1>1. s \in Schedules /\ Present(s) /\ runPc[r] = "closing"
  BY DEF InFlightOwned, ClosingHolds, Live, CloseSchedule
<1>2. /\ schedule' = [schedule EXCEPT ![s] = Closed(schedule[s], outcome[r])]
      /\ runPc' = [runPc EXCEPT ![r] = "exiting"]
      /\ UNCHANGED <<row, of, outcome, crashes, pausedOnce>>
  BY DEF CloseSchedule
<1>3. /\ schedule'[s].runCount = schedule[s].runCount + 1
      /\ schedule'[s].maxRuns = schedule[s].maxRuns
      /\ Active(s)' => Active(s)
      /\ Active(s)' /\ outcome[r] # "cancelled" /\ schedule[s].maxRuns > 0
         => schedule[s].runCount + 1 < schedule[s].maxRuns
  <2>1. schedule'[s] = Closed(schedule[s], outcome[r])
    BY <1>1, <1>2
  <2>2. schedule[s] \in ScheduleRecord /\ outcome[r] \in RunStatuses
    BY <1>1
  <2> QED
    BY <1>2, <2>1, <2>2, ClosedStatus, ClosedTells DEF Active
<1>4. \A q \in Runs : q # r => runPc'[q] = runPc[q] /\ runPc[q] # "closing"
  BY <1>1, <1>2 DEF ClosingHolds
<1>5. runPc'[r] = "exiting"
  BY <1>2
<1>6. Done(s)' = Done(s) /\ Uncut(s)' = Uncut(s)
  BY <1>2 DEF Done, Uncut, HistoryOf
<1>7. Half(s) = {r} /\ Half(s)' = {} /\ HalfUncut(s)' = {}
  BY <1>1, <1>2, <1>4, <1>5 DEF Half, HalfUncut
<1>8. outcome[r] = "cancelled" => HalfUncut(s) = {}
  BY <1>1, <1>4 DEF HalfUncut
<1>9. Cardinality(Half(s)) = 1 /\ Cardinality(Half(s))' = 0 /\ Cardinality(HalfUncut(s))' = 0
  BY <1>7, FS_Singleton, FS_EmptySet
<1>10. outcome[r] = "cancelled" => Cardinality(HalfUncut(s)) = 0
  BY <1>8, FS_EmptySet
<1>11. Cardinality(Uncut(s)) <= Cardinality(Done(s)) /\ Cardinality(Done(s)) \in Nat
       /\ Cardinality(Uncut(s)) \in Nat
  <2>1. Uncut(s) \subseteq Done(s)
    BY DEF Uncut, Done, HistoryOf, Finished
  <2> QED
    <3>1. IsFiniteSet(Done(s)) /\ Cardinality(Done(s)) \in Nat /\ Cardinality(Uncut(s)) \in Nat
      BY <1>1, SetsFinite
    <3> QED
      BY <2>1, <3>1, FS_Subset
<1>12. Counted(s) /\ Limited(s)
  BY <1>1 DEF Counts
<1>13. schedule[s].runCount \in Nat /\ schedule[s].maxRuns \in Nat /\ crashes \in Nat
  BY <1>1 DEF ScheduleRecord
<1>14. Counted(s)'
  BY <1>2, <1>3, <1>6, <1>9, <1>11, <1>12, <1>13 DEF Counted
<1>15. Limited(s)'
  BY <1>2, <1>3, <1>6, <1>9, <1>10, <1>11, <1>12, <1>13 DEF Limited, Counted
<1>16. ASSUME NEW q \in Schedules, q # s, Present(q) PROVE Counted(q)' /\ Limited(q)'
  <2>1. schedule'[q] = schedule[q]
    BY <1>2, <1>16
  <2>2. \A n \in Runs : \/ of[n] # q /\ of'[n] # q
                        \/ /\ of'[n] = of[n] /\ row'[n] = row[n]
                           /\ runPc'[n] = runPc[n] /\ outcome'[n] = outcome[n]
    BY <1>2, <1>4, <1>16
  <2> QED
    BY <1>2, <1>16, <2>1, <2>2, OthersStay
<1>17. \A q \in Schedules : q # s => (Present(q)' => Present(q))
  BY <1>2 DEF Present
<1> QED
  BY <1>2, <1>14, <1>15, <1>16, <1>17 DEF Counts

LEMMA DeleteCounts ==
    ASSUME IInv, Counts, NEW c \in Callers, DeleteRows(c)
    PROVE  Counts'
<1> USE DEF IInv, TypeOK
<1> SUFFICES ASSUME NEW s \in Schedules, Present(s)' PROVE (Counted(s) /\ Limited(s))'
  BY DEF Counts
<1>1. schedule'[s] = schedule[s] /\ Present(s)
  BY DEF DeleteRows, Absent, Present
<1>2. UNCHANGED <<of, runPc, outcome, crashes, pausedOnce>>
  BY DEF DeleteRows, runVars
<1>3. \A r \in Runs : of[r] = s => row'[r] = row[r]
  BY DEF DeleteRows, Absent, Present
<1> QED
  BY <1>1, <1>2, <1>3, OthersStay

LEMMA CreateCounts ==
    ASSUME IInv, Handed, Counts, NEW s \in Schedules, NEW m \in MaxRunsChoices, Create(s, m)
    PROVE  Counts'
<1> USE DEF IInv, TypeOK
<1>1. \A r \in Runs : of[r] # s
  BY DEF Create, Handed
<1>2. /\ schedule'[s].runCount = 0 /\ schedule'[s].maxRuns = m
      /\ \A q \in Schedules : q # s => schedule'[q] = schedule[q]
      /\ UNCHANGED <<row, of, runPc, outcome, crashes, pausedOnce>>
  BY DEF Create, Absent, runVars, historyVars
<1>3. Done(s)' = {} /\ Uncut(s)' = {} /\ Half(s)' = {} /\ HalfUncut(s)' = {}
  BY <1>1, <1>2 DEF Done, Uncut, Half, HalfUncut, HistoryOf
<1>4. /\ Cardinality(Done(s))' = 0 /\ Cardinality(Uncut(s))' = 0
      /\ Cardinality(Half(s))' = 0 /\ Cardinality(HalfUncut(s))' = 0
  BY <1>3, FS_EmptySet
<1>5. m \in Nat /\ crashes \in Nat
  BY ConstantsAssumption
<1>6. Counted(s)' /\ Limited(s)'
  BY <1>2, <1>4, <1>5 DEF Counted, Limited
<1>7. ASSUME NEW q \in Schedules, q # s, Present(q) PROVE Counted(q)' /\ Limited(q)'
  BY <1>2, <1>7, OthersStay
<1>8. \A q \in Schedules : q # s => (Present(q)' => Present(q))
  BY <1>2 DEF Present
<1> QED
  BY <1>6, <1>7, <1>8 DEF Counts

\* A crash loses the count of the run between its two writes, and of no other.
LEMMA CrashCounts ==
    ASSUME IsFiniteSet(Runs), IInv, Counts, Crash
    PROVE  Counts'
<1> USE DEF IInv, TypeOK
<1> SUFFICES ASSUME NEW s \in Schedules, Present(s)' PROVE (Counted(s) /\ Limited(s))'
  BY DEF Counts
<1>1. UNCHANGED <<schedule, row, of, pausedOnce>> /\ crashes' = crashes + 1
  BY DEF Crash, storeVars
<1>2. Counted(s) /\ Limited(s)
  BY <1>1 DEF Counts, Present
<1>3. Done(s)' = Done(s) /\ Uncut(s)' = Uncut(s)
  BY <1>1 DEF Done, Uncut, HistoryOf
<1>4. Half(s)' = {} /\ HalfUncut(s)' = {}
  BY DEF Crash, Half, HalfUncut
<1>5. Cardinality(Half(s))' = 0 /\ Cardinality(HalfUncut(s))' = 0
  BY <1>4, FS_EmptySet
<1>6. Cardinality(Half(s)) <= 1 /\ Cardinality(HalfUncut(s)) <= 1
  BY HalfIsOne
<1>7. /\ Cardinality(Done(s)) \in Nat /\ Cardinality(Uncut(s)) \in Nat
      /\ Cardinality(Half(s)) \in Nat /\ Cardinality(HalfUncut(s)) \in Nat
  BY SetsFinite
<1>8. schedule[s].runCount \in Nat /\ schedule[s].maxRuns \in Nat /\ crashes \in Nat
  BY DEF ScheduleRecord
<1>9. Counted(s)'
  BY <1>1, <1>2, <1>3, <1>5, <1>6, <1>7, <1>8 DEF Counted
<1>10. Limited(s)'
  BY <1>1, <1>2, <1>3, <1>5, <1>6, <1>7, <1>8 DEF Limited, Active
<1> QED
  BY <1>9, <1>10

LEMMA CountsStep ==
    ASSUME ~StoreMayFail, IsFiniteSet(Runs)
    PROVE  RowsInv /\ Counts /\ [Next]_vars => Counts'
<1> SUFFICES ASSUME RowsInv, Counts, [Next]_vars PROVE Counts'
  OBVIOUS
<1> USE DEF RowsInv
<1>1. TypeOK
  BY DEF IInv
<1>2. ASSUME Steady PROVE Counts'
  BY <1>2, SteadyCounts
<1>3. ASSUME NEW r \in Runs, RunStep(r) PROVE Counts'
  BY <1>2, <1>3, SteadySteps, CloseRowCounts, CloseScheduleCounts DEF RunStep
<1>4. ASSUME NEW c \in Callers, CallStep(c) PROVE Counts'
  BY <1>1, <1>2, <1>4, SteadySteps, QuietSteps, DeleteCounts DEF CallStep
<1>5. ASSUME NEW l \in Loops, Start(l) \/ LoopStep(l) PROVE Counts'
  BY <1>1, <1>2, <1>5, SteadySteps, QuietSteps DEF LoopStep
<1>6. ASSUME NEW s \in Schedules,
             (\E m \in MaxRunsChoices : Create(s, m)) \/ Resume(s) \/ RunNow(s) \/ Elapse(s)
      PROVE  Counts'
  BY <1>2, <1>6, SteadySteps, CreateCounts
<1>7. CASE Crash
  BY <1>7, CrashCounts
<1>8. CASE UNCHANGED vars
  BY <1>1, <1>2, <1>8, SteadySteps, QuietSteps
<1> QED
  BY <1>3, <1>4, <1>5, <1>6, <1>7, <1>8 DEF Next

\* run_count counts every finished run once, but for one a crash may lose, and a schedule
\* that was never paused concludes no more runs than its limit and those (execute, finish).
THEOREM CountsAreTrue == ASSUME ~StoreMayFail, IsFiniteSet(Runs) PROVE Spec => []CountIsTrue
<1>1. Init => Counts
  BY DEF Init, Counts, Present, Absent
<1>2. RowsInv /\ Counts /\ [Next]_vars => Counts'
  BY CountsStep
<1>3. Counts => CountIsTrue
  BY DEF Counts, Counted, Limited, CountIsTrue, CountFollowsHistory, LimitHolds, Done, Uncut, Half
<1> QED
  BY <1>1, <1>2, <1>3, RowsInductive, PTL DEF Spec
=============================================================================
