---------------------------- MODULE WorkflowRun ----------------------------
(***************************************************************************)
(* One call of runWorkflow (src/core/workflow.go): a DAG of Core tool      *)
(* calls is ordered (WorkflowTopologicalOrder, src/model/workflow.go),     *)
(* recorded, and executed task by task in this order.  The row is written  *)
(* at every step and is all that is left after a crash; get_workflow_status *)
(* and the debug pages read it at any moment.                              *)
(*                                                                         *)
(* The caller's ctx may end at any moment (a paused schedule, a client     *)
(* that hangs up), every write may fail, and the process may die.          *)
(***************************************************************************)
EXTENDS Naturals, Sequences, FiniteSets

CONSTANTS
    NumTasks,       \* tasks are their positions in the input
    StoreMayFail    \* whether PutWorkflowRun may return an error

ASSUME ConstantsAssumption ==
    /\ NumTasks \in Nat \ {0}
    /\ StoreMayFail \in BOOLEAN

Tasks == 1..NumTasks

VARIABLES
    deps,       \* DependsOn of each task, as given
    order,      \* what WorkflowTopologicalOrder has listed so far
    pc,         \* where runWorkflow is
    at,         \* its position in the order
    status, task,  \* the workflow it holds in memory
    failure,    \* firstFailure # nil
    row,        \* the workflow_runs row
    ctxEnded,
    \* history
    called,     \* tasks whose tool was invoked
    putFailed   \* a write returned an error

memVars  == <<order, at, status, task, failure>>
histVars == <<called, putFailed>>
vars == <<deps, memVars, pc, row, ctxEnded, histVars>>

TaskStatuses == {"pending", "running", "succeeded", "failed", "skipped", "cancelled"}
Settled == {"succeeded", "failed", "skipped", "cancelled"}
Terminal(s) == s \in {"succeeded", "failed", "cancelled"}

Listed == {order[k] : k \in DOMAIN order}
Current == order[at]

Fresh == [t \in Tasks |-> "pending"]

Init ==
    /\ deps \in [Tasks -> SUBSET Tasks]
    /\ order = <<>> /\ at = 1 /\ pc = "ordering"
    /\ status = "pending" /\ task = Fresh /\ failure = FALSE
    /\ row = [status |-> "absent", task |-> Fresh]
    /\ ctxEnded = FALSE
    /\ called = {} /\ putFailed = FALSE

-----------------------------------------------------------------------------
(* WorkflowTopologicalOrder.                                               *)

\* A slip: one listed dependency makes a task ready.  (Slips are mistakes a maintainer
\* could make; no specification uses them, each breaks a property stated at the end.)
SlipReady(t) == t \notin Listed /\ (deps[t] = {} \/ deps[t] \cap Listed # {})

\* Indegree zero: every dependency is in the order.
Ready(t) == t \notin Listed /\ deps[t] \subseteq Listed

Last == IF order = <<>> THEN 0 ELSE order[Len(order)]

\* Passes over the tasks in input order: the next one listed is the first ready task
\* behind the last one listed, or the first ready task of a new pass.
NextListed(t) ==
    /\ Ready(t)
    /\ \/ t > Last /\ \A u \in Tasks : u > Last /\ Ready(u) => t <= u
       \/ \A u \in Tasks : Ready(u) => u <= Last /\ t <= u

List(t) ==
    /\ pc = "ordering" /\ NextListed(t)
    /\ order' = Append(order, t)
    /\ UNCHANGED <<deps, pc, at, status, task, failure, row, ctxEnded, histVars>>

\* A pass without progress is a cycle; a complete order may still name a tool that a
\* workflow may not call (validateWorkflowTools).
Reject ==
    /\ pc = "ordering"
    /\ Listed = Tasks \/ \A t \in Tasks : ~Ready(t)
    /\ pc' = "returned"
    /\ UNCHANGED <<deps, memVars, row, ctxEnded, histVars>>

-----------------------------------------------------------------------------
(* runWorkflow.                                                            *)

\* PutWorkflowRun: the whole row is replaced.  A write that fails ends runWorkflow
\* there and then, and the row stays what it was.
Put(s, ts, next) ==
    \/ /\ row' = [status |-> s, task |-> ts]
       /\ pc' = next
       /\ UNCHANGED putFailed
    \/ /\ StoreMayFail
       /\ pc' = "returned" /\ putFailed' = TRUE
       /\ UNCHANGED row

\* The memory takes the new statuses first, whatever becomes of the write.
Update(s, ts, next) ==
    /\ status' = s /\ task' = ts
    /\ Put(s, ts, next)

\* The pending row, once the order is complete and the tools are known.
Record ==
    /\ pc = "ordering" /\ Listed = Tasks
    /\ Update("pending", task, "recorded")
    /\ UNCHANGED <<deps, order, at, failure, ctxEnded, called>>

Begin ==
    /\ pc = "recorded"
    /\ Update("running", task, "next")
    /\ UNCHANGED <<deps, order, at, failure, ctxEnded, called>>

Cancelled(ts) == [t \in Tasks |-> IF ts[t] \in {"pending", "running"} THEN "cancelled" ELSE ts[t]]

\* A slip: cancelled, and out of runWorkflow instead of the loop.
SlipBreak ==
    /\ pc = "next" /\ at <= Len(order) /\ ctxEnded
    /\ status' = "cancelled" /\ task' = Cancelled(task) /\ failure' = TRUE
    /\ pc' = "returned"
    /\ UNCHANGED <<deps, order, at, row, ctxEnded, histVars>>

\* ctx has ended between two tasks: cancelPendingWorkflowTasks, and out of the loop.
Break ==
    /\ pc = "next" /\ at <= Len(order) /\ ctxEnded
    /\ status' = "cancelled" /\ task' = Cancelled(task) /\ failure' = TRUE
    /\ pc' = "closing"
    /\ UNCHANGED <<deps, order, at, row, ctxEnded, histVars>>

\* ctx is found alive; from here to the end of this task it is not looked at again.
Enter ==
    /\ pc = "next" /\ at <= Len(order) /\ ~ctxEnded
    /\ pc' = "entered"
    /\ UNCHANGED <<deps, memVars, row, ctxEnded, histVars>>

Blocked(t) == \E d \in deps[t] : task[d] # "succeeded"

\* A dependency did not succeed.
Skip ==
    /\ pc = "entered" /\ Blocked(Current)
    /\ Update(status, [task EXCEPT ![Current] = "skipped"], "next")
    /\ at' = at + 1
    /\ UNCHANGED <<deps, order, failure, ctxEnded, called>>

\* An argument refers to the output of a task that is not a dependency.
Refuse ==
    /\ pc = "entered" /\ ~Blocked(Current)
    /\ failure' = TRUE
    /\ Update(status, [task EXCEPT ![Current] = "failed"], "next")
    /\ at' = at + 1
    /\ UNCHANGED <<deps, order, ctxEnded, called>>

\* A slip: the write that says so is left out.
SlipMark ==
    /\ pc = "entered" /\ ~Blocked(Current)
    /\ task' = [task EXCEPT ![Current] = "running"]
    /\ pc' = "marked"
    /\ UNCHANGED <<deps, order, at, status, failure, row, ctxEnded, histVars>>

\* The row says that the task runs before it does.
Mark ==
    /\ pc = "entered" /\ ~Blocked(Current)
    /\ Update(status, [task EXCEPT ![Current] = "running"], "marked")
    /\ UNCHANGED <<deps, order, at, failure, ctxEnded, called>>

\* executeCoreToolWithError: the tool is invoked, unless the quota callback or the
\* human approval (see ReviewApproval) stops it, which is an error of the task.
Call ==
    /\ pc = "marked"
    /\ called' = called \cup {Current}
    /\ pc' = "called"
    /\ UNCHANGED <<deps, memVars, row, ctxEnded, putFailed>>

\* The tool, or the gate, has answered: a ctx that has ended by now outweighs the
\* answer and cancels the run; a failure does not stop the tasks that are left.
Settle(answers) ==
    /\ IF ctxEnded
       THEN /\ failure' = TRUE
            /\ Update("cancelled", Cancelled(task), "closing")
       ELSE \E answer \in answers :
            /\ failure' = (failure \/ answer = "failed")
            /\ Update(status, [task EXCEPT ![Current] = answer], "next")
    /\ at' = at + 1
    /\ UNCHANGED <<deps, order, ctxEnded, called>>

\* A slip: the position is advanced by the gate's refusal and again by the loop.
SlipStopped ==
    /\ pc = "marked"
    /\ Update(status, [task EXCEPT ![Current] = "failed"], "next")
    /\ failure' = TRUE /\ at' = at + 2
    /\ UNCHANGED <<deps, order, ctxEnded, called>>

Answered == pc = "called" /\ Settle({"succeeded", "failed"})
Stopped  == pc = "marked" /\ Settle({"failed"})

\* The terminal row, and runWorkflow returns.
Close ==
    /\ pc = "closing" \/ (pc = "next" /\ at > Len(order))
    /\ LET s == IF status = "cancelled" THEN "cancelled"
                ELSE IF failure THEN "failed" ELSE "succeeded"
       IN Update(s, task, "returned")
    /\ UNCHANGED <<deps, order, at, failure, ctxEnded, called>>

-----------------------------------------------------------------------------
(* The environment.                                                        *)

EndCtx ==
    /\ ~ctxEnded /\ pc # "returned"
    /\ ctxEnded' = TRUE
    /\ UNCHANGED <<deps, memVars, pc, row, histVars>>

\* Nothing resumes a run after a restart: "an activity interrupted by a process
\* crash is not automatically replayed".
Crash ==
    /\ pc \notin {"returned", "dead"}
    /\ pc' = "dead"
    /\ UNCHANGED <<deps, memVars, row, ctxEnded, histVars>>

Step ==
    \/ \E t \in Tasks : List(t)
    \/ Reject \/ Record \/ Begin
    \/ Break \/ Enter \/ Skip \/ Refuse \/ Mark \/ Call \/ Answered \/ Stopped
    \/ Close

Next == Step \/ EndCtx \/ Crash

Spec == Init /\ [][Next]_vars

\* The one goroutine goes on; a tool, like a human asked for approval, is taken to
\* answer (both get ctx and a deadline of their own).
FairSpec == Spec /\ WF_vars(Step)

-----------------------------------------------------------------------------
(* Properties.                                                             *)

Places == {"ordering", "recorded", "next", "entered", "marked", "called", "closing",
           "returned", "dead"}

TypeOK ==
    /\ deps \in [Tasks -> SUBSET Tasks]
    /\ order \in Seq(Tasks) /\ at \in Nat \ {0} /\ at <= Len(order) + 1
    /\ pc \in Places
    /\ status \in {"pending", "running", "succeeded", "failed", "cancelled"}
    /\ task \in [Tasks -> TaskStatuses]
    /\ failure \in BOOLEAN
    /\ row \in [status : {"absent", "pending", "running", "succeeded", "failed", "cancelled"},
                task : [Tasks -> TaskStatuses]]
    /\ ctxEnded \in BOOLEAN
    /\ called \subseteq Tasks /\ putFailed \in BOOLEAN

\* The row, read at any moment and after any crash or failed write, is a DAG being
\* executed by the rules of DagContract: the order in which the code takes the tasks
\* never skips one whose dependencies may still succeed, begins none too early, and
\* has them all behind it when the run is called finished.
Contract == INSTANCE DagContract WITH status <- row.status, result <- row.task
RowKeepsContract == Contract!Spec

\* No side effect is unrecorded: a task whose tool was invoked is never found pending
\* or skipped in the row, so an operator who inspects a dead run sees all it may have done.
CallsAreRecorded ==
    \A t \in called : row.task[t] \notin {"pending", "skipped"}

\* "Reports whether no more workflow state transitions are expected": a row that is not
\* terminal has a runWorkflow behind it, unless the process died or a write failed.
LiveRowIsBacked ==
    row.status \in {"pending", "running"} =>
        pc # "returned" \/ putFailed

\* A workflow in which nothing failed, was refused, skipped or cancelled succeeded, and
\* only then: the caller of execute_workflow gets an error exactly when the row tells one.
ErrorIsTold ==
    pc = "returned" /\ ~putFailed /\ row.status # "absent" =>
        (failure <=> row.status # "succeeded")

\* The two together: whoever reads the row, or asked for the run, learns the truth.
RowTellsTheTruth == LiveRowIsBacked /\ ErrorIsTold

\* A recorded run gets its terminal row, whatever the tools and the ctx do.
RunSettles ==
    row.status \in {"pending", "running"} ~> (Terminal(row.status) \/ putFailed \/ pc = "dead")
=============================================================================
