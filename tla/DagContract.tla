---------------------------- MODULE DagContract ----------------------------
(***************************************************************************)
(* What a persisted workflow run promises whoever reads it                 *)
(* (get_workflow_status, the debug pages, an operator after a crash): it   *)
(* is a DAG being executed.  A task begins after its dependencies have     *)
(* succeeded, one task at a time; it is skipped only because a dependency  *)
(* failed or was skipped; the first failure stops nothing else; the run    *)
(* ends when every task has.  Nothing is said of the order, of how a task  *)
(* is executed, or of how long anything takes.                             *)
(***************************************************************************)
CONSTANT Tasks

VARIABLES
    deps,     \* each task's dependencies
    status,   \* the run
    result    \* each task

vars == <<deps, status, result>>

Ended == {"succeeded", "failed", "skipped", "cancelled"}

Init ==
    /\ deps \in [Tasks -> SUBSET Tasks]
    /\ status = "absent"
    /\ result = [t \in Tasks |-> "pending"]

\* The run is recorded before anything is done for it, and then started.
Record ==
    /\ status = "absent"
    /\ status' = "pending"
    /\ UNCHANGED <<deps, result>>

Start ==
    /\ status = "pending"
    /\ status' = "running"
    /\ UNCHANGED <<deps, result>>

\* Task t, of a running run, moves from one result to another.
Move(t, from, to) ==
    /\ status = "running"
    /\ result[t] = from
    /\ result' = [result EXCEPT ![t] = to]
    /\ UNCHANGED <<deps, status>>

Released(t) == \A d \in deps[t] : result[d] = "succeeded"

Begin(t) ==
    /\ Released(t)
    /\ \A u \in Tasks : result[u] # "running"
    /\ Move(t, "pending", "running")

End(t) == Move(t, "running", "succeeded") \/ Move(t, "running", "failed")

\* The arguments of a released task turn out to be unusable.
Refuse(t) == Released(t) /\ Move(t, "pending", "failed")

Skip(t) ==
    /\ \E d \in deps[t] : result[d] \in {"failed", "skipped"}
    /\ Move(t, "pending", "skipped")

\* Everything that has not ended is cancelled with the run.
Cancel ==
    /\ status = "running"
    /\ status' = "cancelled"
    /\ result' = [t \in Tasks |-> IF result[t] \in Ended THEN result[t] ELSE "cancelled"]
    /\ UNCHANGED deps

Finish ==
    /\ status = "running"
    /\ \A t \in Tasks : result[t] \in Ended
    /\ status' = IF \A t \in Tasks : result[t] = "succeeded" THEN "succeeded" ELSE "failed"
    /\ UNCHANGED <<deps, result>>

Next ==
    \/ Record \/ Start \/ Cancel \/ Finish
    \/ \E t \in Tasks : Begin(t) \/ End(t) \/ Refuse(t) \/ Skip(t)

Spec == Init /\ [][Next]_vars
=============================================================================
