--------------------------- MODULE TaskScheduler ---------------------------
(***************************************************************************)
(* One TaskScheduler (src/engine/task_scheduler.go): a polling loop that   *)
(* launches a goroutine per due schedule, the goroutine's life from        *)
(* startRun to the deferred clean-up, the API calls that race with it, and *)
(* the rows both leave in the store.                                       *)
(*                                                                         *)
(* NextRunAt is abstracted to the field "due" (NextRunAt <= now); Elapse   *)
(* is the clock.  Everything done between lifecycleMu.Lock and Unlock is   *)
(* one step, except the end of a run, which writes two rows and may crash  *)
(* between them.  Every other writer of these rows takes the same mutex.   *)
(***************************************************************************)
EXTENDS Naturals, FiniteSets

CONSTANTS
    Schedules,            \* schedule ids; each is given to one Create
    Runs,                 \* run ids; the bound on launches
    Loops,                \* the bound on calls of Start
    Callers,              \* API calls that may be under way at once
    MaxRunsChoices,       \* the max_runs a Create may ask for; 0 is unlimited
    MaxCrashes,           \* the bound on process crashes
    StoreMayFail,         \* TRUE: a store write may return an error
    StartWhileStopping,   \* TRUE: the host may call Start during a Stop
    NoRun, NoLoop, NoSchedule   \* model values: no handle, no id

ASSUME ConstantsAssumption ==
    /\ MaxRunsChoices \subseteq Nat
    /\ MaxCrashes \in Nat
    /\ StoreMayFail \in BOOLEAN /\ StartWhileStopping \in BOOLEAN
    /\ NoRun \notin Runs /\ NoLoop \notin Loops /\ NoSchedule \notin Schedules

VARIABLES
    \* the store: survives a crash
    schedule,       \* task_schedules, by id
    row,            \* task_schedule_runs: status by run id
    created,        \* ids newTaskID has handed out
    \* the process
    running, current,           \* s.running, and the loop s.cancel belongs to
    loopPc, loopCancelled, todo, \* each loop: where it is, its ctx, its due list
    inFlight,                    \* s.inFlight
    lifecycleMu,                 \* the run that holds it between two steps
    runPc, of, cancelled, outcome, \* each run goroutine: place, schedule, ctx, result
    op,                          \* each API call: what is left of it
    \* history
    owed,           \* schedules whose delay has passed, or that were asked for, since they last ran
    pausedOnce,     \* schedules some Pause reached
    crashes

storeVars   == <<schedule, row, created>>
loopVars    == <<running, current, loopPc, loopCancelled, todo>>
runVars     == <<inFlight, lifecycleMu, runPc, of, cancelled, outcome>>
historyVars == <<owed, pausedOnce, crashes>>
vars == <<storeVars, loopVars, runVars, op, historyVars>>

Statuses    == {"absent", "active", "paused", "completed"}
Finished    == {"succeeded", "failed", "cancelled"}
RunStatuses == {"running"} \cup Finished
Absent == [status |-> "absent", runCount |-> 0, maxRuns |-> 0,
           due |-> FALSE, last |-> "none"]

ScheduleRecord == [status : Statuses, runCount : Nat, maxRuns : Nat,
                   due : BOOLEAN, last : RunStatuses \cup {"none"}]

\* What is left of an API call; nothing between calls.
CallRecord == [kind : {"idle", "pausing", "deleting", "stopping"},
               on : Schedules \cup {NoSchedule}]
Idle == [kind |-> "idle", on |-> NoSchedule]

RunPlaces == {"idle", "launched", "recording", "executing", "concluded", "closing",
              "exiting", "done", "lost"}

Present(s) == schedule[s].status # "absent"
Active(s)  == schedule[s].status = "active"
Unlocked   == lifecycleMu = NoRun

\* A goroutine counted by s.wg: from startRun to its last deferred call.
Live(r) == runPc[r] \in {"launched", "recording", "executing", "concluded",
                         "closing", "exiting"}
Looping(l) == loopPc[l] \in {"listing", "dispatching"}

\* Calling the cancel function of a handle; nothing happens without one.
Cancel(handle) == cancelled' = [r \in Runs |-> cancelled[r] \/ r = handle]

Init ==
    /\ schedule = [s \in Schedules |-> Absent]
    /\ row = [r \in Runs |-> "absent"]
    /\ created = {}
    /\ running = FALSE /\ current = NoLoop
    /\ loopPc = [l \in Loops |-> "unborn"]
    /\ loopCancelled = [l \in Loops |-> FALSE]
    /\ todo = [l \in Loops |-> {}]
    /\ inFlight = [s \in Schedules |-> NoRun]
    /\ lifecycleMu = NoRun
    /\ runPc = [r \in Runs |-> "idle"]
    /\ of = [r \in Runs |-> NoSchedule]
    /\ cancelled = [r \in Runs |-> FALSE]
    /\ outcome = [r \in Runs |-> "running"]
    /\ op = [c \in Callers |-> Idle]
    /\ owed = {} /\ pausedOnce = {} /\ crashes = 0

-----------------------------------------------------------------------------
(* Slips: some of the steps below with a mistake a maintainer could make.  *)
(* No specification uses them; each breaks a property stated at the end.   *)

\* Stop forgets the loop and cancels the runs only.
SlipStopSignal(c) ==
    /\ op[c] = Idle
    /\ running \/ \E s \in Schedules : inFlight[s] # NoRun
    /\ running' = FALSE
    /\ cancelled' = [r \in Runs |-> cancelled[r] \/ \E s \in Schedules : inFlight[s] = r]
    /\ op' = [op EXCEPT ![c] = [kind |-> "stopping", on |-> NoSchedule]]
    /\ UNCHANGED <<storeVars, current, loopPc, loopCancelled, todo, inFlight, lifecycleMu,
                   runPc, of, outcome, historyVars>>

\* startRun without its in-flight guard.
SlipLaunch(l, s, r) ==
    /\ loopPc[l] = "dispatching" /\ s \in todo[l]
    /\ ~loopCancelled[l]
    /\ running
    /\ runPc[r] = "idle"
    /\ todo' = [todo EXCEPT ![l] = @ \ {s}]
    /\ inFlight' = [inFlight EXCEPT ![s] = r]
    /\ runPc' = [runPc EXCEPT ![r] = "launched"]
    /\ of' = [of EXCEPT ![r] = s]
    /\ UNCHANGED <<storeVars, running, current, loopPc, loopCancelled, lifecycleMu,
                   cancelled, outcome, op, historyVars>>

\* The next run is moved away only when this one ends.
SlipMarkRun(r) ==
    /\ runPc[r] = "launched" /\ Unlocked
    /\ Active(of[r])
    /\ schedule' = [schedule EXCEPT ![of[r]].last = "running"]
    /\ runPc' = [runPc EXCEPT ![r] = "recording"]
    /\ owed' = owed \ {of[r]}
    /\ UNCHANGED <<row, created, loopVars, inFlight, lifecycleMu, of, cancelled, outcome,
                   op, pausedOnce, crashes>>

SlipClosed(rec, result, status, count, last) ==
    [status |-> status, runCount |-> count, maxRuns |-> rec.maxRuns,
     due |-> rec.status = "active" /\ result = "cancelled", last |-> last]

\* A cancelled run leaves the schedule's last status alone.
SlipLastStatus(rec, result) ==
    SlipClosed(rec, result, rec.status, rec.runCount + 1,
               IF result = "cancelled" THEN rec.last ELSE result)

\* Cancelled runs are not counted.
SlipCount(rec, result) ==
    SlipClosed(rec, result, rec.status,
               IF result = "cancelled" THEN rec.runCount ELSE rec.runCount + 1, result)

\* The status is written back as execute read it when the run began.
SlipStaleStatus(rec, result) ==
    SlipClosed(rec, result, "active", rec.runCount + 1, result)

\* finish returns without unlocking.
SlipCloseSchedule(r) ==
    /\ runPc[r] = "closing"
    /\ runPc' = [runPc EXCEPT ![r] = "exiting"]
    /\ UNCHANGED <<storeVars, loopVars, inFlight, lifecycleMu, of, cancelled, outcome, op,
                   historyVars>>

\* The deferred call forgets inFlight.
SlipRunExit(r) ==
    /\ runPc[r] = "exiting"
    /\ runPc' = [runPc EXCEPT ![r] = "done"]
    /\ UNCHANGED <<storeVars, loopVars, inFlight, lifecycleMu, of, cancelled, outcome, op,
                   historyVars>>

\* Pause changes the status and leaves the run alone.
SlipPause(c, s) ==
    /\ op[c] = Idle /\ Unlocked
    /\ schedule[s].status \in {"active", "paused"}
    /\ schedule' = [schedule EXCEPT ![s].status = "paused"]
    /\ pausedOnce' = pausedOnce \cup {s}
    /\ UNCHANGED <<row, created, loopVars, runVars, op, owed, crashes>>

\* Delete marks the row instead of removing it.
SlipDeleteRows(c) ==
    /\ op[c].kind = "deleting" /\ Unlocked
    /\ op' = [op EXCEPT ![c] = Idle]
    /\ schedule' = [schedule EXCEPT ![op[c].on].status = "deleted"]
    /\ UNCHANGED <<row, created, loopVars, runVars, historyVars>>

-----------------------------------------------------------------------------
(* The host: Start and Stop.                                               *)

\* Start: only a scheduler that is not running gets a loop and a new ctx.
Start(l) ==
    /\ loopPc[l] = "unborn"
    /\ ~running
    /\ StartWhileStopping \/ \A c \in Callers : op[c].kind # "stopping"
    /\ running' = TRUE
    /\ current' = l
    /\ loopPc' = [loopPc EXCEPT ![l] = "listing"]
    /\ UNCHANGED <<storeVars, loopCancelled, todo, runVars, op, historyVars>>

\* Stop up to wg.Wait: nothing to do when neither running nor in flight.
StopSignal(c) ==
    /\ op[c] = Idle
    /\ running \/ \E s \in Schedules : inFlight[s] # NoRun
    /\ running' = FALSE
    /\ loopCancelled' = [l \in Loops |-> loopCancelled[l] \/ l = current]
    /\ cancelled' = [r \in Runs |-> cancelled[r] \/ \E s \in Schedules : inFlight[s] = r]
    /\ op' = [op EXCEPT ![c] = [kind |-> "stopping", on |-> NoSchedule]]
    /\ UNCHANGED <<storeVars, current, loopPc, todo, inFlight, lifecycleMu, runPc,
                   of, outcome, historyVars>>

\* wg.Wait returns once every loop and every run goroutine has ended.
StopWait(c) ==
    /\ op[c].kind = "stopping"
    /\ \A l \in Loops : ~Looping(l)
    /\ \A r \in Runs : ~Live(r)
    /\ op' = [op EXCEPT ![c] = Idle]
    /\ UNCHANGED <<storeVars, loopVars, runVars, historyVars>>

-----------------------------------------------------------------------------
(* The polling loop.                                                       *)

\* dispatchDue reads the whole table once and keeps the active, due rows.
LoopList(l) ==
    /\ loopPc[l] = "listing"
    /\ loopPc' = [loopPc EXCEPT ![l] = "dispatching"]
    /\ todo' = [todo EXCEPT ![l] = {s \in Schedules : Active(s) /\ schedule[s].due}]
    /\ UNCHANGED <<storeVars, running, current, loopCancelled, runVars, op, historyVars>>

\* ... or it cannot, and the loop has nothing to launch this time.
LoopListFails(l) ==
    /\ StoreMayFail
    /\ loopPc[l] = "listing"
    /\ loopPc' = [loopPc EXCEPT ![l] = "dispatching"]
    /\ UNCHANGED <<storeVars, running, current, loopCancelled, todo, runVars, op, historyVars>>

\* startRun turns a listed schedule away: not running, or already in flight.
LoopSkip(l, s) ==
    /\ loopPc[l] = "dispatching" /\ s \in todo[l]
    /\ ~loopCancelled[l]
    /\ ~running \/ inFlight[s] # NoRun
    /\ todo' = [todo EXCEPT ![l] = @ \ {s}]
    /\ UNCHANGED <<storeVars, running, current, loopPc, loopCancelled, runVars, op, historyVars>>

\* startRun reserves the schedule in inFlight and starts its goroutine.
Launch(l, s, r) ==
    /\ loopPc[l] = "dispatching" /\ s \in todo[l]
    /\ ~loopCancelled[l]
    /\ running /\ inFlight[s] = NoRun
    /\ runPc[r] = "idle"
    /\ todo' = [todo EXCEPT ![l] = @ \ {s}]
    /\ inFlight' = [inFlight EXCEPT ![s] = r]
    /\ runPc' = [runPc EXCEPT ![r] = "launched"]
    /\ of' = [of EXCEPT ![r] = s]
    /\ UNCHANGED <<storeVars, running, current, loopPc, loopCancelled, lifecycleMu,
                   cancelled, outcome, op, historyVars>>

\* dispatchDue gives up the rest of its list when its ctx has ended.
LoopAbort(l) ==
    /\ loopPc[l] = "dispatching" /\ todo[l] # {}
    /\ loopCancelled[l]
    /\ todo' = [todo EXCEPT ![l] = {}]
    /\ UNCHANGED <<storeVars, running, current, loopPc, loopCancelled, runVars, op, historyVars>>

\* The ticker fired or wake was signalled; select may prefer it to ctx.Done.
LoopPoll(l) ==
    /\ loopPc[l] = "dispatching" /\ todo[l] = {}
    /\ loopPc' = [loopPc EXCEPT ![l] = "listing"]
    /\ UNCHANGED <<storeVars, running, current, loopCancelled, todo, runVars, op, historyVars>>

\* ctx.Done: the deferred call clears running, whoever set it last.
LoopExit(l) ==
    /\ loopPc[l] = "dispatching" /\ todo[l] = {}
    /\ loopCancelled[l]
    /\ running' = FALSE
    /\ loopPc' = [loopPc EXCEPT ![l] = "dead"]
    /\ UNCHANGED <<storeVars, current, loopCancelled, todo, runVars, op, historyVars>>

-----------------------------------------------------------------------------
(* A run goroutine: execute, then the deferred clean-up.                   *)

\* execute returns at once: the schedule is gone or no longer active.
MarkRefused(r) ==
    /\ runPc[r] = "launched" /\ Unlocked
    /\ ~Active(of[r])
    /\ runPc' = [runPc EXCEPT ![r] = "exiting"]
    /\ UNCHANGED <<storeVars, loopVars, inFlight, lifecycleMu, of, cancelled, outcome,
                   op, historyVars>>

\* The schedule is marked running and its next run moved one interval away.
MarkRun(r) ==
    /\ runPc[r] = "launched" /\ Unlocked
    /\ Active(of[r])
    /\ schedule' = [schedule EXCEPT ![of[r]] = [@ EXCEPT !.due = FALSE, !.last = "running"]]
    /\ runPc' = [runPc EXCEPT ![r] = "recording"]
    /\ owed' = owed \ {of[r]}
    /\ UNCHANGED <<row, created, loopVars, inFlight, lifecycleMu, of, cancelled, outcome,
                   op, pausedOnce, crashes>>

\* ... or that write fails and execute returns without running anything.
MarkFailed(r) ==
    /\ StoreMayFail
    /\ runPc[r] = "launched" /\ Unlocked
    /\ Active(of[r])
    /\ runPc' = [runPc EXCEPT ![r] = "exiting"]
    /\ UNCHANGED <<storeVars, loopVars, inFlight, lifecycleMu, of, cancelled, outcome,
                   op, historyVars>>

\* The history row is inserted after the mutex was released; an error is logged.
RecordRun(r) ==
    /\ runPc[r] = "recording"
    /\ \/ row' = [row EXCEPT ![r] = "running"]
       \/ StoreMayFail /\ UNCHANGED row
    /\ runPc' = [runPc EXCEPT ![r] = "executing"]
    /\ UNCHANGED <<schedule, created, loopVars, inFlight, lifecycleMu, of, cancelled,
                   outcome, op, historyVars>>

\* The executor, and the conclusion model when there is one, return.
Execute(r) ==
    /\ runPc[r] = "executing"
    /\ \E o \in {"succeeded", "failed"} : outcome' = [outcome EXCEPT ![r] = o]
    /\ runPc' = [runPc EXCEPT ![r] = "concluded"]
    /\ UNCHANGED <<storeVars, loopVars, inFlight, lifecycleMu, of, cancelled, op, historyVars>>

\* The schedule was deleted meanwhile: no row is written.
CloseGone(r) ==
    /\ runPc[r] = "concluded" /\ Unlocked
    /\ ~Present(of[r])
    /\ runPc' = [runPc EXCEPT ![r] = "exiting"]
    /\ UNCHANGED <<storeVars, loopVars, inFlight, lifecycleMu, of, cancelled, outcome,
                   op, historyVars>>

\* Under the mutex: the result (a cancelled ctx hides any other) goes to the history row.
CloseRow(r) ==
    LET result == IF cancelled[r] THEN "cancelled" ELSE outcome[r] IN
    /\ runPc[r] = "concluded" /\ Unlocked
    /\ Present(of[r])
    /\ lifecycleMu' = r
    /\ outcome' = [outcome EXCEPT ![r] = result]
    /\ \/ row' = [row EXCEPT ![r] = result]
       \/ StoreMayFail /\ UNCHANGED row
    /\ runPc' = [runPc EXCEPT ![r] = "closing"]
    /\ UNCHANGED <<schedule, created, loopVars, inFlight, of, cancelled, op, historyVars>>

\* What a run that ended with this result leaves in its schedule's row: it completes
\* at the limit, else is due at once after a cancellation, an interval later otherwise.
Closed(rec, result) ==
    LET count == rec.runCount + 1
        completes == /\ rec.status = "active" /\ result # "cancelled"
                     /\ rec.maxRuns > 0 /\ count >= rec.maxRuns
    IN [status   |-> IF completes THEN "completed" ELSE rec.status,
        runCount |-> count,
        maxRuns  |-> rec.maxRuns,
        due      |-> IF rec.status = "active" THEN completes \/ result = "cancelled"
                                              ELSE rec.due,
        last     |-> result]

\* Still under the mutex: the schedule's row, then unlock.
CloseSchedule(r) ==
    /\ runPc[r] = "closing"
    /\ \/ /\ schedule' = [schedule EXCEPT ![of[r]] = Closed(@, outcome[r])]
          /\ owed' = IF outcome[r] = "cancelled" THEN owed \cup {of[r]} ELSE owed \ {of[r]}
       \/ StoreMayFail /\ UNCHANGED <<schedule, owed>>
    /\ lifecycleMu' = NoRun
    /\ runPc' = [runPc EXCEPT ![r] = "exiting"]
    /\ UNCHANGED <<row, created, loopVars, inFlight, of, cancelled, outcome, op,
                   pausedOnce, crashes>>

\* The deferred calls: leave inFlight, wg.Done; the goroutine's locals are gone.
RunExit(r) ==
    /\ runPc[r] = "exiting"
    /\ inFlight' = [inFlight EXCEPT ![of[r]] = NoRun]
    /\ runPc' = [runPc EXCEPT ![r] = "done"]
    /\ cancelled' = [cancelled EXCEPT ![r] = FALSE]
    /\ outcome' = [outcome EXCEPT ![r] = "running"]
    /\ UNCHANGED <<storeVars, loopVars, lifecycleMu, of, op, historyVars>>

-----------------------------------------------------------------------------
(* The API.                                                                *)

\* Create: a fresh id, active, first due one interval from now.
Create(s, m) ==
    /\ s \notin created
    /\ created' = created \cup {s}
    /\ schedule' = [schedule EXCEPT ![s] = [Absent EXCEPT !.status = "active", !.maxRuns = m]]
    /\ UNCHANGED <<row, loopVars, runVars, op, historyVars>>

\* Pause, first half: the status changes under the mutex.
Pause(c, s) ==
    /\ op[c] = Idle /\ Unlocked
    /\ schedule[s].status \in {"active", "paused"}
    /\ schedule' = [schedule EXCEPT ![s].status = "paused"]
    /\ op' = [op EXCEPT ![c] = [kind |-> "pausing", on |-> s]]
    /\ pausedOnce' = pausedOnce \cup {s}
    /\ UNCHANGED <<row, created, loopVars, runVars, owed, crashes>>

\* Pause, second half, after unlock: whatever is in flight by now is cancelled.
PauseCancel(c) ==
    /\ op[c].kind = "pausing"
    /\ Cancel(inFlight[op[c].on])
    /\ op' = [op EXCEPT ![c] = Idle]
    /\ UNCHANGED <<storeVars, loopVars, inFlight, lifecycleMu, runPc, of, outcome, historyVars>>

\* Resume: any schedule that has not completed becomes active and due now.
Resume(s) ==
    /\ Unlocked
    /\ schedule[s].status \in {"active", "paused"}
    /\ schedule' = [schedule EXCEPT ![s] = [@ EXCEPT !.status = "active", !.due = TRUE]]
    /\ owed' = owed \cup {s}
    /\ UNCHANGED <<row, created, loopVars, runVars, op, pausedOnce, crashes>>

\* RunNow: an active schedule becomes due now.
RunNow(s) ==
    /\ Unlocked
    /\ Active(s)
    /\ schedule' = [schedule EXCEPT ![s].due = TRUE]
    /\ owed' = owed \cup {s}
    /\ UNCHANGED <<row, created, loopVars, runVars, op, pausedOnce, crashes>>

\* Delete, first half: the run in flight is cancelled, before the mutex.
DeleteCancel(c, s) ==
    /\ op[c] = Idle
    /\ Present(s)
    /\ Cancel(inFlight[s])
    /\ op' = [op EXCEPT ![c] = [kind |-> "deleting", on |-> s]]
    /\ UNCHANGED <<storeVars, loopVars, inFlight, lifecycleMu, runPc, of, outcome, historyVars>>

\* Delete, second half: the schedule and its history go in one transaction,
\* unless another Delete was first or the transaction fails.
DeleteRows(c) ==
    LET s == op[c].on IN
    /\ op[c].kind = "deleting" /\ Unlocked
    /\ op' = [op EXCEPT ![c] = Idle]
    /\ \/ /\ Present(s)
          /\ schedule' = [schedule EXCEPT ![s] = Absent]
          /\ row' = [r \in Runs |-> IF of[r] = s THEN "absent" ELSE row[r]]
          /\ owed' = owed \ {s}
       \/ (~Present(s) \/ StoreMayFail) /\ UNCHANGED <<schedule, row, owed>>
    /\ UNCHANGED <<created, loopVars, runVars, pausedOnce, crashes>>

-----------------------------------------------------------------------------
(* The environment.                                                        *)

\* The clock passes NextRunAt.
Elapse(s) ==
    /\ Present(s) /\ (~schedule[s].due \/ s \notin owed)
    /\ schedule' = [schedule EXCEPT ![s].due = TRUE]
    /\ owed' = owed \cup {s}
    /\ UNCHANGED <<row, created, loopVars, runVars, op, pausedOnce, crashes>>

\* The process dies; the store, and the ids already used, remain.
Crash ==
    /\ crashes < MaxCrashes
    /\ crashes' = crashes + 1
    /\ running' = FALSE /\ current' = NoLoop
    /\ loopPc' = [l \in Loops |-> IF loopPc[l] = "unborn" THEN "unborn" ELSE "dead"]
    /\ loopCancelled' = [l \in Loops |-> FALSE]
    /\ todo' = [l \in Loops |-> {}]
    /\ inFlight' = [s \in Schedules |-> NoRun]
    /\ lifecycleMu' = NoRun
    /\ runPc' = [r \in Runs |-> IF runPc[r] = "idle" THEN "idle" ELSE "lost"]
    /\ cancelled' = [r \in Runs |-> FALSE]
    /\ outcome' = [r \in Runs |-> "running"]
    /\ op' = [c \in Callers |-> Idle]
    /\ UNCHANGED <<storeVars, of, owed, pausedOnce>>

-----------------------------------------------------------------------------
LoopStep(l) ==
    \/ LoopList(l) \/ LoopListFails(l) \/ LoopAbort(l) \/ LoopPoll(l) \/ LoopExit(l)
    \/ \E s \in Schedules : LoopSkip(l, s) \/ \E r \in Runs : Launch(l, s, r)

RunStep(r) ==
    \/ MarkRefused(r) \/ MarkRun(r) \/ MarkFailed(r) \/ RecordRun(r) \/ Execute(r)
    \/ CloseGone(r) \/ CloseRow(r) \/ CloseSchedule(r) \/ RunExit(r)

CallStep(c) ==
    \/ StopSignal(c) \/ StopWait(c) \/ PauseCancel(c) \/ DeleteRows(c)
    \/ \E s \in Schedules : Pause(c, s) \/ DeleteCancel(c, s)

Next ==
    \/ \E l \in Loops : Start(l) \/ LoopStep(l)
    \/ \E r \in Runs : RunStep(r)
    \/ \E c \in Callers : CallStep(c)
    \/ \E s \in Schedules :
          \/ \E m \in MaxRunsChoices : Create(s, m)
          \/ Resume(s) \/ RunNow(s) \/ Elapse(s)
    \/ Crash

Spec == Init /\ [][Next]_vars

(* Fairness.  A goroutine that can go on does (weak fairness per loop step *)
(* and per run); select picks among ready channels at random and the       *)
(* mutex wakes its waiters in turn, so an exit and a lock offered again    *)
(* and again are taken (strong fairness); a store that fails now and then  *)
(* does not fail every listing; an API call once begun finishes; the clock *)
(* advances.  The executor is taken to return: a task that never returns   *)
(* blocks its schedule by design.                                          *)
Fairness ==
    /\ \A l \in Loops :
          /\ SF_vars(LoopList(l)) /\ WF_vars(LoopPoll(l)) /\ WF_vars(LoopAbort(l))
          /\ SF_vars(LoopExit(l))
          /\ \A s \in Schedules : WF_vars(LoopSkip(l, s) \/ \E r \in Runs : Launch(l, s, r))
    /\ \A r \in Runs : SF_vars(RunStep(r))
    /\ \A c \in Callers : WF_vars(StopWait(c)) /\ WF_vars(PauseCancel(c)) /\ SF_vars(DeleteRows(c))
    /\ \A s \in Schedules : WF_vars(Elapse(s))

FairSpec == Spec /\ Fairness

-----------------------------------------------------------------------------
(* Properties.                                                             *)

TypeOK ==
    /\ schedule \in [Schedules -> ScheduleRecord]
    /\ row \in [Runs -> RunStatuses \cup {"absent"}]
    /\ created \subseteq Schedules
    /\ running \in BOOLEAN /\ current \in Loops \cup {NoLoop}
    /\ loopPc \in [Loops -> {"unborn", "listing", "dispatching", "dead"}]
    /\ loopCancelled \in [Loops -> BOOLEAN]
    /\ todo \in [Loops -> SUBSET Schedules]
    /\ inFlight \in [Schedules -> Runs \cup {NoRun}]
    /\ lifecycleMu \in Runs \cup {NoRun}
    /\ runPc \in [Runs -> RunPlaces]
    /\ of \in [Runs -> Schedules \cup {NoSchedule}]
    /\ cancelled \in [Runs -> BOOLEAN]
    /\ outcome \in [Runs -> RunStatuses]
    /\ op \in [Callers -> CallRecord]
    /\ owed \subseteq Schedules /\ pausedOnce \subseteq Schedules
    /\ crashes \in Nat

\* "The in-flight guard prevents overlap": two runs of one schedule are never
\* alive at the same time, whatever Start, Stop, Pause and Resume do.
NoOverlap ==
    \A r1, r2 \in Runs : Live(r1) /\ Live(r2) /\ of[r1] = of[r2] => r1 = r2

HistoryOf(s, results) == {r \in Runs : of[r] = s /\ row[r] \in results}

\* run_count is the length of the finished history: it never counts a run twice
\* and lags only by the run being closed and by closes a crash cut in half.
CountFollowsHistory ==
    \A s \in Schedules : Present(s) =>
        LET finished == Cardinality(HistoryOf(s, Finished))
            half     == Cardinality({r \in Runs : of[r] = s /\ runPc[r] = "closing"})
        IN /\ schedule[s].runCount + half <= finished
           /\ finished <= schedule[s].runCount + half + crashes

\* max_runs is an execution limit: a schedule that was never paused concludes no
\* more runs than that, plus one for each crash that lost a count.
LimitHolds ==
    \A s \in Schedules \ pausedOnce :
        Present(s) /\ schedule[s].maxRuns > 0 =>
            Cardinality(HistoryOf(s, {"succeeded", "failed"})) <= schedule[s].maxRuns + crashes

\* The two together: run_count is true, and so is the limit that is read off it.
CountIsTrue == CountFollowsHistory /\ LimitHolds

\* A schedule or a history row that says "running" has a goroutine behind it, as
\* long as the process has not died and no write failed: Pause, Delete and Stop
\* leave no run that looks alive and is not.
RunningIsBacked ==
    crashes = 0 =>
        /\ \A s \in Schedules : schedule[s].last = "running" =>
              \E r \in Runs : of[r] = s /\ Live(r)
        /\ \A r \in Runs : row[r] = "running" /\ Present(of[r]) => Live(r)

\* "Pause stops future executions and cancels a currently-running one": once the
\* Pause calls of a paused schedule have returned, a task of it that is still
\* executing has been told to stop.
PauseCancels ==
    \A s \in Schedules :
        schedule[s].status = "paused" /\ (\A c \in Callers : op[c] # [kind |-> "pausing", on |-> s])
        => \A r \in Runs : of[r] = s /\ runPc[r] \in {"recording", "executing"} => cancelled[r]

\* A closing run writes a whole row back over whatever Pause, Resume, RunNow and Delete
\* did meanwhile, in two writes that may fail or be cut in half by a crash: what the
\* API shows still follows ScheduleContract.  A pause is undone by a resume only, a
\* completed schedule is final, "Delete is authoritative", runs do not overlap and none
\* is counted twice.
UnderWay == {"recording", "executing", "concluded", "closing"}
Shown(s) == [status |-> schedule[s].status, runCount |-> schedule[s].runCount,
             maxRuns |-> schedule[s].maxRuns, due |-> schedule[s].due]
ShownRows == [s \in Schedules |-> Shown(s)]
Executing == {s \in Schedules : \E r \in Runs : of[r] = s /\ runPc[r] \in UnderWay}
Contract == INSTANCE ScheduleContract
                WITH Limits <- MaxRunsChoices, row <- ShownRows, used <- created, begun <- Executing
KeepsContract == Contract!Spec

\* A run that begins, of a schedule this process has not run yet, is owed: after a
\* restart the persisted next_run_at "prevents a rapid duplicate".
RanHere(s) ==
    \E r \in Runs : of[r] = s /\ runPc[r] \in {"recording", "executing", "concluded",
                                               "closing", "exiting", "done"}
NoDuplicateAfterRestart ==
    [][\A r \in Runs : MarkRun(r) => of[r] \in owed \/ RanHere(of[r])]_vars

\* Stop returns, and with it every run: no goroutine waits for ever on the mutex.
StopReturns == \A c \in Callers : op[c].kind = "stopping" ~> op[c].kind # "stopping"
RunsEnd     == \A r \in Runs : Live(r) ~> ~Live(r)

\* While the worker runs, an active schedule is executed again and again: a skip, a
\* cancelled run, a race with Pause and Resume never leaves it behind for good.
Served(s) == running /\ Active(s) /\ \E r \in Runs : runPc[r] = "idle"
KeepsRunning ==
    \A s \in Schedules :
        Served(s) ~> (~Served(s) \/ \E r \in Runs : of[r] = s /\ runPc[r] = "executing")

-----------------------------------------------------------------------------
(* What the repository says of the scheduler and the code does not keep.   *)

\* "Optional execution limit ... 1 creates a one-shot schedule."
ExecutionLimit ==
    \A s \in Schedules : Present(s) /\ schedule[s].maxRuns > 0 =>
        Cardinality(HistoryOf(s, {"succeeded", "failed"})) <= schedule[s].maxRuns
=============================================================================
