----------------------------- MODULE BrowserJobs -----------------------------
(***************************************************************************)
(* The browser sidecar's JobManager (src/browseruse/sidecar/app/jobs.py):  *)
(* an asyncio task per job behind a semaphore and a lock per session, the  *)
(* calls that wait for a job or cancel it, pruning and shutdown.           *)
(*                                                                         *)
(* One thread runs everything, so a step is what a task does between two   *)
(* awaits that may suspend it.  A cancelled task gets CancelledError at    *)
(* the await it is suspended in.  The runner is external: a job that runs  *)
(* returns, fails, times out or ends cancelled, and it may swallow a       *)
(* cancellation and return all the same.                                   *)
(***************************************************************************)
EXTENDS Naturals, FiniteSets

CONSTANTS
    Jobs,               \* job ids; the bound on create
    Sessions,
    MaxJobs,            \* settings.max_jobs
    MaxConcurrentJobs,  \* settings.max_concurrent_jobs
    Getters,            \* calls of get with a wait_seconds
    Cancellers,         \* calls of cancel
    NoJob, NoSession    \* model values

ASSUME ConstantsAssumption ==
    /\ MaxJobs \in Nat \ {0} /\ MaxConcurrentJobs \in Nat \ {0}
    /\ NoJob \notin Jobs /\ NoSession \notin Sessions

VARIABLES
    jobs,           \* the keys of self._jobs
    session, status, \* each job's session_id and status
    stale,          \* terminal jobs whose completed_at is older than the TTL
    place,          \* where each job's task is suspended
    cancelling,     \* tasks that were cancelled and have not got the error yet
    slots,          \* self._semaphore
    locks, made,    \* self._session_locks: the lock object of a session; objects made so far
    lockOf,         \* the lock object a task read from it
    browser,        \* sessions with a persistent browser (runner.has_session)
    getter, waitsFor,   \* each get: place, job
    canceller, cancels, \* each cancel: place, job
    down            \* shutdown has been called

jobVars  == <<jobs, session, status, stale>>
lockVars == <<slots, locks, made, lockOf>>
callVars == <<getter, waitsFor, canceller, cancels>>
vars == <<jobVars, place, cancelling, lockVars, browser, callVars, down>>

Terminal == {"succeeded", "failed", "cancelled"}

\* A task's places: not started, waiting for a slot, waiting for its session's lock
\* with a slot, in _transition on the way to a status, in the runner, finished.
Queued  == {"new", "slot"}
Holding == {"starting", "running", "succeeding"}       \* holds a slot and the lock
Places  == Queued \cup {"lock"} \cup Holding \cup {"failing", "cancelled", "none", "ended"}

IsTerminal(j) == status[j] \in Terminal
Holder(lock)  == {j \in Jobs : place[j] \in Holding /\ lockOf[j] = lock}

Init ==
    /\ jobs = {} /\ stale = {} /\ cancelling = {} /\ browser = {}
    /\ session = [j \in Jobs |-> NoSession] /\ status = [j \in Jobs |-> "none"]
    /\ place = [j \in Jobs |-> "none"]
    /\ slots = MaxConcurrentJobs
    /\ locks = [s \in Sessions |-> 0] /\ made = 0 /\ lockOf = [j \in Jobs |-> 0]
    /\ getter = [c \in Getters |-> "idle"] /\ waitsFor = [c \in Getters |-> NoJob]
    /\ canceller = [c \in Cancellers |-> "idle"] /\ cancels = [c \in Cancellers |-> NoJob]
    /\ down = FALSE

Moves(j, to) == place' = [place EXCEPT ![j] = to]

-----------------------------------------------------------------------------
(* Slips: some of the definitions below with a mistake a maintainer could  *)
(* make.  No specification uses them; each breaks a property at the end.   *)

\* A slot is given back by tasks that never had one, or kept by those that wait for
\* their session's lock.
SlipReleaseAlways(j)  == slots + 1
SlipReleaseHolding(j) == IF place[j] \in Holding THEN slots + 1 ELSE slots

\* A session counts as active only while a job of it runs, or a browser is open.
SlipRunningLocks == [s \in Sessions |->
    IF s \in browser \/ \E j \in jobs : session[j] = s /\ status[j] = "running" THEN locks[s] ELSE 0]
SlipBrowserLocks == [s \in Sessions |-> IF s \in browser THEN locks[s] ELSE 0]

\* A run that fails keeps its slot.
SlipRunFails(j) ==
    /\ place[j] = "running"
    /\ cancelling' = cancelling \ {j}
    /\ Moves(j, "failing")
    /\ UNCHANGED <<jobVars, lockVars, browser, callVars, down>>

\* cancel does not look at the status again, or trusts the task to have set it.
SlipCancelled(c, place2) ==
    /\ canceller[c] = "awaiting" /\ place[cancels[c]] = "ended"
    /\ canceller' = [canceller EXCEPT ![c] = place2]
    /\ UNCHANGED <<jobVars, place, cancelling, lockVars, browser, getter, waitsFor, cancels, down>>
SlipCancelMarks(c)   == SlipCancelled(c, "marking")
SlipCancelReturns(c) == SlipCancelled(c, "returned")

-----------------------------------------------------------------------------
\* What leaving the two "async with" blocks gives back.
Released(j) == IF place[j] \in Holding \cup {"lock"} THEN slots + 1 ELSE slots

\* _transition: the status and, for every get that waits in job.changed, a wake-up.
Transition(j, new) ==
    /\ status' = [status EXCEPT ![j] = new]
    /\ getter' = [c \in Getters |-> IF getter[c] = "waiting" /\ waitsFor[c] = j
                                        THEN "notified" ELSE getter[c]]

-----------------------------------------------------------------------------
(* create.                                                                 *)

\* The jobs _prune_locked keeps, and the locks it keeps for them.
Kept == jobs \ stale
KeptLocks == [s \in Sessions |->
    IF s \in browser \/ \E j \in Kept : session[j] = s THEN locks[s] ELSE 0]

\* Prune, then register the job: the session's lock is made when missing and the task
\* is created; it has not run yet.  A create that is refused leaves no trace: the table
\* is full after pruning only when there was nothing to prune, and the locks that are
\* no longer needed went with the last job of their session.
Create(j, s) ==
    /\ ~down /\ status[j] = "none"
    /\ Cardinality(Kept) < MaxJobs
    /\ jobs' = Kept \cup {j}
    /\ stale' = {}
    /\ session' = [session EXCEPT ![j] = s] /\ status' = [status EXCEPT ![j] = "queued"]
    /\ made' = made + IF KeptLocks[s] = 0 THEN 1 ELSE 0
    /\ locks' = [KeptLocks EXCEPT ![s] = IF @ = 0 THEN made + 1 ELSE @]
    /\ Moves(j, "new")
    /\ UNCHANGED <<cancelling, slots, lockOf, browser, callVars, down>>

-----------------------------------------------------------------------------
(* _execute.                                                               *)

\* The first turn finds every slot taken, or others ahead of it.
Ahead == {i \in Jobs : place[i] = "slot" /\ i \notin cancelling}
AwaitSlot(j) ==
    /\ place[j] = "new" /\ j \notin cancelling
    /\ slots = 0 \/ Ahead # {}
    /\ Moves(j, "slot")
    /\ UNCHANGED <<jobVars, cancelling, lockVars, browser, callVars, down>>

\* With a slot, the task reads its session's lock.
TakeSlot(j) ==
    /\ place[j] = "slot" \/ (place[j] = "new" /\ Ahead = {})
    /\ j \notin cancelling /\ slots > 0
    /\ slots' = slots - 1
    /\ lockOf' = [lockOf EXCEPT ![j] = locks[session[j]]]
    /\ Moves(j, "lock")
    /\ UNCHANGED <<jobVars, cancelling, locks, made, browser, callVars, down>>

TakeLock(j) ==
    /\ place[j] = "lock" /\ j \notin cancelling /\ Holder(lockOf[j]) = {}
    /\ Moves(j, "starting")
    /\ UNCHANGED <<jobVars, cancelling, lockVars, browser, callVars, down>>

StartRunning(j) ==
    /\ place[j] = "starting" /\ j \notin cancelling
    /\ Transition(j, "running")
    /\ Moves(j, "running")
    /\ UNCHANGED <<jobs, session, stale, cancelling, lockVars, browser, waitsFor, canceller, cancels, down>>

\* The runner leaves a persistent browser behind; it may have swallowed a cancellation.
RunReturns(j) ==
    /\ place[j] = "running"
    /\ browser' = browser \cup {session[j]}
    /\ cancelling' = cancelling \ {j}
    /\ Moves(j, "succeeding")
    /\ UNCHANGED <<jobVars, lockVars, callVars, down>>

\* An exception of the runner, or the timeout: lock and slot are released first.
RunFails(j) ==
    /\ place[j] = "running"
    /\ \/ browser' = browser \cup {session[j]}
       \/ UNCHANGED browser
    /\ cancelling' = cancelling \ {j}
    /\ slots' = Released(j) /\ lockOf' = [lockOf EXCEPT ![j] = 0]
    /\ Moves(j, "failing")
    /\ UNCHANGED <<jobVars, locks, made, callVars, down>>

\* The last transition; after SUCCEEDED the task runs on to its end.
Conclude(j) ==
    /\ place[j] \in {"succeeding", "failing", "cancelled"} /\ j \notin cancelling
    /\ Transition(j, CASE place[j] = "succeeding" -> "succeeded"
                       [] place[j] = "failing"    -> "failed"
                       [] place[j] = "cancelled"  -> "cancelled")
    /\ slots' = Released(j) /\ lockOf' = [lockOf EXCEPT ![j] = 0]
    /\ Moves(j, "ended")
    /\ UNCHANGED <<jobs, session, stale, cancelling, locks, made, browser, waitsFor, canceller, cancels, down>>

\* CancelledError inside the try: the blocks are left and the handler runs.
Cancelled(j) ==
    /\ j \in cancelling /\ place[j] \in {"slot", "lock"} \cup Holding
    /\ cancelling' = cancelling \ {j}
    /\ slots' = Released(j) /\ lockOf' = [lockOf EXCEPT ![j] = 0]
    /\ browser' \in IF place[j] = "running" THEN {browser, browser \cup {session[j]}} ELSE {browser}
    /\ Moves(j, "cancelled")
    /\ UNCHANGED <<jobVars, locks, made, callVars, down>>

\* CancelledError before the first turn, or while a handler waits to set the status:
\* the task ends and the status stays as it is.
Dies(j) ==
    /\ j \in cancelling /\ place[j] \in {"new", "failing", "cancelled"}
    /\ cancelling' = cancelling \ {j}
    /\ Moves(j, "ended")
    /\ UNCHANGED <<jobVars, lockVars, browser, callVars, down>>

-----------------------------------------------------------------------------
(* get and cancel.                                                         *)

\* get with a wait: a job that is not terminal is waited for in job.changed.
Get(c, j) ==
    /\ ~down /\ getter[c] = "idle" /\ j \in jobs /\ ~IsTerminal(j)
    /\ waitsFor' = [waitsFor EXCEPT ![c] = j]
    /\ getter' = [getter EXCEPT ![c] = "waiting"]
    /\ UNCHANGED <<jobVars, place, cancelling, lockVars, browser, canceller, cancels, down>>

GetReturns(c) ==
    /\ getter' = [getter EXCEPT ![c] = "idle"]
    /\ waitsFor' = [waitsFor EXCEPT ![c] = NoJob]

\* Woken: the loop looks at the status again.
GetLoops(c) ==
    /\ getter[c] = "notified"
    /\ IF IsTerminal(waitsFor[c])
           THEN GetReturns(c)
           ELSE getter' = [getter EXCEPT ![c] = "waiting"] /\ UNCHANGED waitsFor
    /\ UNCHANGED <<jobVars, place, cancelling, lockVars, browser, canceller, cancels, down>>

\* wait_seconds are over.
GetTimesOut(c) ==
    /\ getter[c] = "waiting"
    /\ GetReturns(c)
    /\ UNCHANGED <<jobVars, place, cancelling, lockVars, browser, canceller, cancels, down>>

\* cancel: the task is told and awaited; a terminal job is only reported.
Cancel(c, j) ==
    /\ ~down /\ canceller[c] = "idle" /\ j \in jobs
    /\ cancels' = [cancels EXCEPT ![c] = j]
    /\ IF IsTerminal(j)
           THEN canceller' = [canceller EXCEPT ![c] = "returned"] /\ UNCHANGED cancelling
           ELSE /\ canceller' = [canceller EXCEPT ![c] = "awaiting"]
                /\ cancelling' = IF place[j] = "ended" THEN cancelling ELSE cancelling \cup {j}
    /\ UNCHANGED <<jobVars, place, lockVars, browser, getter, waitsFor, down>>

\* The task has ended; one that set no terminal status gets it from this call.
CancelAwaited(c) ==
    /\ canceller[c] = "awaiting" /\ place[cancels[c]] = "ended"
    /\ canceller' = [canceller EXCEPT ![c] = IF IsTerminal(cancels[c]) THEN "returned" ELSE "marking"]
    /\ UNCHANGED <<jobVars, place, cancelling, lockVars, browser, getter, waitsFor, cancels, down>>

CancelMarks(c) ==
    /\ canceller[c] = "marking"
    /\ Transition(cancels[c], "cancelled")
    /\ canceller' = [canceller EXCEPT ![c] = "returned"]
    /\ UNCHANGED <<jobs, session, stale, place, cancelling, lockVars, browser, waitsFor, cancels, down>>

-----------------------------------------------------------------------------
(* The clock and shutdown.                                                 *)

\* job_ttl_seconds pass after a job's completed_at.
Age(j) ==
    /\ j \in jobs \ stale /\ IsTerminal(j)
    /\ stale' = stale \cup {j}
    /\ UNCHANGED <<jobs, session, status, place, cancelling, lockVars, browser, callVars, down>>

\* Every task that has not ended is cancelled; no request comes after that.
Shutdown ==
    /\ ~down
    /\ down' = TRUE
    /\ cancelling' = {j \in jobs : place[j] # "ended"}
    /\ UNCHANGED <<jobVars, place, lockVars, browser, callVars>>

-----------------------------------------------------------------------------
JobStep(j) ==
    \/ AwaitSlot(j) \/ TakeSlot(j) \/ TakeLock(j) \/ StartRunning(j) \/ RunReturns(j)
    \/ RunFails(j) \/ Conclude(j) \/ Cancelled(j) \/ Dies(j)

CallStep ==
    \/ \E c \in Getters : GetLoops(c) \/ GetTimesOut(c) \/ \E j \in Jobs : Get(c, j)
    \/ \E c \in Cancellers : CancelAwaited(c) \/ CancelMarks(c) \/ \E j \in Jobs : Cancel(c, j)

Next ==
    \/ \E j \in Jobs : JobStep(j) \/ Age(j) \/ \E s \in Sessions : Create(j, s)
    \/ CallStep \/ Shutdown

Spec == Init /\ [][Next]_vars

(* Fairness.  The event loop runs every task that is ready, and the timeout *)
(* ends every run.  Weak fairness is enough for slot and lock: a job takes  *)
(* each once, so no job can be overtaken for ever.                          *)
Fairness ==
    /\ \A j \in Jobs : WF_vars(JobStep(j))
    /\ \A c \in Getters : WF_vars(GetLoops(c))
    /\ \A c \in Cancellers : WF_vars(CancelAwaited(c) \/ CancelMarks(c))

FairSpec == Spec /\ Fairness

-----------------------------------------------------------------------------
(* Properties.                                                             *)

TypeOK ==
    /\ jobs \subseteq Jobs /\ stale \subseteq jobs
    /\ session \in [Jobs -> Sessions \cup {NoSession}]
    /\ status \in [Jobs -> Terminal \cup {"none", "queued", "running"}]
    /\ place \in [Jobs -> Places]
    /\ cancelling \subseteq jobs
    /\ slots \in 0..MaxConcurrentJobs
    /\ made \in Nat /\ locks \in [Sessions -> 0..made] /\ lockOf \in [Jobs -> 0..made]
    /\ browser \subseteq Sessions
    /\ getter \in [Getters -> {"idle", "waiting", "notified"}]
    /\ waitsFor \in [Getters -> Jobs \cup {NoJob}]
    /\ canceller \in [Cancellers -> {"idle", "awaiting", "marking", "returned"}]
    /\ cancels \in [Cancellers -> Jobs \cup {NoJob}]
    /\ down \in BOOLEAN

\* "Jobs sharing a profile are serialized by JobManager": two jobs of one session are
\* never in the runner together, although the session's lock is pruned and made anew.
ProfileNotShared ==
    \A i, j \in Jobs : place[i] \in Holding /\ place[j] \in Holding /\ session[i] = session[j] => i = j

\* No slot is lost or invented, whichever await a cancellation hits.
SlotsAccounted ==
    slots + Cardinality({j \in Jobs : place[j] \in Holding \cup {"lock"}}) = MaxConcurrentJobs

\* A task that has still to take its session's lock finds it in the table.
LockFound == \A j \in Jobs : place[j] \in Queued => locks[session[j]] # 0

\* A job reported as terminal never changes its status again, however cancel, timeout
\* and completion meet.
TerminalIsFinal ==
    [][\A j \in Jobs : IsTerminal(j) => status'[j] = status[j]]_vars

\* cancel answers with a terminal job, also when the task never had its first turn and
\* when a second cancellation interrupted the first one's handler.
CancelIsTerminal ==
    \A c \in Cancellers : canceller[c] = "returned" => IsTerminal(cancels[c])

\* Every get that waits for a job has been notified of its end.
NoMissedChange ==
    \A c \in Getters : getter[c] = "waiting" => ~IsTerminal(waitsFor[c])

\* The two together: nobody who asks for a job misses its end, or is told of one too early.
EndIsTold == CancelIsTerminal /\ NoMissedChange

\* The jobs in the runner, what a get is asleep on, and what a cancel has returned.
Using       == {j \in Jobs : place[j] = "running"}
Asleep(c)   == IF getter[c] = "waiting" THEN waitsFor[c] ELSE NoJob
Reported(c) == IF canceller[c] = "returned" THEN <<cancels[c], status[cancels[c]]>> ELSE <<>>

\* Whichever await a cancellation, a timeout or shutdown hits, the API shows jobs that only
\* move forward, a table within its size that forgets none that is still going on, profiles
\* that one job uses at a time and none that is over, gets that every change wakes up, and
\* cancels whose answer stays true.
Contract == INSTANCE JobContract WITH
    listed <- jobs, using <- Using,
    asleep <- [c \in Getters |-> Asleep(c)],
    told <- [c \in Cancellers |-> Reported(c)]
KeepsContract == Contract!Spec

\* Every job that is not cut off by shutdown ends, the ones behind a full semaphore or
\* another job of their session included, and shutdown ends every task.
JobsEnd ==
    /\ \A j \in Jobs : status[j] = "queued" ~> (IsTerminal(j) \/ down)
    /\ \A j \in Jobs : down /\ place[j] # "none" ~> place[j] = "ended"
=============================================================================
