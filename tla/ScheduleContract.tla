-------------------------- MODULE ScheduleContract --------------------------
(***************************************************************************)
(* What a user of the task scheduler may rely on, whoever executes the     *)
(* tasks and however it is interrupted: each schedule is one row, its runs *)
(* do not overlap, every run that is reported is counted once, a paused    *)
(* schedule waits for its resume, a completed one is over, and a deleted   *)
(* one never returns.  Nothing is said of loops, locks, goroutines, of how *)
(* long anything takes, or of whether a run that began is ever reported.   *)
(***************************************************************************)
EXTENDS Naturals

CONSTANTS
    Schedules,   \* ids
    Limits       \* the execution limits one may ask for; 0 is none

VARIABLES
    row,         \* each schedule, as the API shows it
    used,        \* the ids given out
    begun        \* the schedules that are being executed

vars == <<row, used, begun>>

None == [status |-> "absent", runCount |-> 0, maxRuns |-> 0, due |-> FALSE]

Exists(s) == row[s].status # "absent"
Active(s) == row[s].status = "active"

Init ==
    /\ row = [s \in Schedules |-> None]
    /\ used = {} /\ begun = {}

\* The row of s, and no other, changes; its limit is for ever.
Becomes(s, status, runCount, due) ==
    row' = [row EXCEPT ![s] = [status |-> status, runCount |-> runCount,
                               maxRuns |-> row[s].maxRuns, due |-> due]]

Create(s, limit) ==
    /\ s \notin used
    /\ used' = used \cup {s}
    /\ row' = [row EXCEPT ![s] = [status |-> "active", runCount |-> 0,
                                  maxRuns |-> limit, due |-> FALSE]]
    /\ UNCHANGED begun

Pause(s) ==
    /\ row[s].status \in {"active", "paused"}
    /\ Becomes(s, "paused", row[s].runCount, row[s].due)
    /\ UNCHANGED <<used, begun>>

\* The only way back from a pause; the schedule is due at once.
Resume(s) ==
    /\ row[s].status \in {"active", "paused"}
    /\ Becomes(s, "active", row[s].runCount, TRUE)
    /\ UNCHANGED <<used, begun>>

\* Its time comes, or someone asks for it.
FallsDue(s) ==
    /\ Exists(s)
    /\ Becomes(s, row[s].status, row[s].runCount, TRUE)
    /\ UNCHANGED <<used, begun>>

Delete(s) ==
    /\ Exists(s)
    /\ row' = [row EXCEPT ![s] = None]
    /\ UNCHANGED <<used, begun>>

\* An execution begins: never of a schedule that is not active, never a second one.
Begin(s) ==
    /\ Active(s) /\ s \notin begun
    /\ Becomes(s, "active", row[s].runCount, FALSE)
    /\ begun' = begun \cup {s}
    /\ UNCHANGED used

\* The execution of s is reported, and counted.
Reported(s, status, due) ==
    /\ Exists(s) /\ s \in begun
    /\ Becomes(s, status, row[s].runCount + 1, due)
    /\ begun' = begun \ {s}
    /\ UNCHANGED used

AtLimit(s) == row[s].maxRuns > 0 /\ row[s].runCount + 1 >= row[s].maxRuns

\* It reached its end: the last one an active schedule is allowed completes it.
Finish(s) ==
    /\ Active(s)
    /\ IF AtLimit(s) THEN Reported(s, "completed", TRUE) ELSE Reported(s, "active", FALSE)

\* It was cancelled: the schedule is due again.
Interrupt(s) == Active(s) /\ Reported(s, "active", TRUE)

\* It outlived its schedule's activity, and changes nothing but the count.
Outlive(s) == ~Active(s) /\ Reported(s, row[s].status, row[s].due)

\* Executions are never reported: the process died, the row is gone or not writable.
Abandon ==
    /\ begun' \subseteq begun
    /\ UNCHANGED <<row, used>>

Next ==
    \/ \E s \in Schedules :
          \/ \E limit \in Limits : Create(s, limit)
          \/ Pause(s) \/ Resume(s) \/ FallsDue(s) \/ Delete(s)
          \/ Begin(s) \/ Finish(s) \/ Interrupt(s) \/ Outlive(s)
    \/ Abandon

Spec == Init /\ [][Next]_vars
=============================================================================
