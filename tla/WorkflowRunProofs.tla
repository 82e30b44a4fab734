------------------------- MODULE WorkflowRunProofs -------------------------
(***************************************************************************)
(* For any number of tasks and any dependencies: the row of a workflow run *)
(* implements DagContract, and no tool call is missing from it.            *)
(*                                                                         *)
(* What carries both is that the order is topological and complete         *)
(* (Topological, Complete), so that the position in the order says of      *)
(* every task whether it is behind, current or ahead (Progress), and that  *)
(* the row equals the memory except while a cancellation is being written  *)
(* (RowFollows).                                                           *)
(***************************************************************************)
EXTENDS WorkflowRun, TLAPS

Alive == pc \in {"recorded", "next", "entered", "marked", "called"}
Behind == {"succeeded", "failed", "skipped"}

\* Each task once, and behind its dependencies.
Topological ==
    /\ \A j, k \in DOMAIN order : order[j] = order[k] => j = k
    /\ \A k \in DOMAIN order : \A d \in deps[order[k]] :
          \E j \in DOMAIN order : j < k /\ order[j] = d

\* Nothing is recorded before the order has every task.
Complete ==
    /\ pc = "ordering" => at = 1 /\ status = "pending" /\ task = Fresh /\ ~failure
                          /\ row = [status |-> "absent", task |-> Fresh] /\ called = {}
    /\ Alive => Listed = Tasks

\* The tasks before the position are done, those after it untouched.
Progress ==
    Alive =>
        /\ \A k \in DOMAIN order :
              /\ k < at => task[order[k]] \in Behind
              /\ k > at => task[order[k]] = "pending"
              /\ k = at => task[order[k]] = IF pc \in {"marked", "called"} THEN "running"
                                                                           ELSE "pending"
        /\ pc \in {"entered", "marked", "called"} => at \in DOMAIN order

RowFollows ==
    /\ Alive => /\ row = [status |-> status, task |-> task]
                /\ status = IF pc = "recorded" THEN "pending" ELSE "running"
    /\ pc = "closing" => /\ status = "cancelled"
                         /\ \/ row.status = "running" /\ task = Cancelled(row.task)
                            \/ row = [status |-> status, task |-> task]

FailureKnown ==
    /\ Alive => (failure <=> \E t \in Tasks : task[t] \in {"failed", "skipped"})
    /\ pc = "closing" => failure

Called ==
    \A t \in called : task[t] \notin {"pending", "skipped"}
                      /\ row.task[t] \notin {"pending", "skipped"}

IInv == TypeOK /\ Topological /\ Complete /\ Progress /\ RowFollows /\ FailureKnown /\ Called

-----------------------------------------------------------------------------
(* What the steps have in common.                                          *)

Statuses == {"pending", "running", "succeeded", "failed", "cancelled"}

\* Update keeps the types of what it writes, and the row is either that or what it was.
LEMMA UpdateEffect ==
    ASSUME TypeOK, NEW s \in Statuses, NEW ts \in [Tasks -> TaskStatuses],
           NEW next \in Places, Update(s, ts, next)
    PROVE  /\ status' = s /\ task' = ts
           /\ status' \in Statuses /\ task' \in [Tasks -> TaskStatuses]
           /\ row' \in [status : Statuses \cup {"absent"}, task : [Tasks -> TaskStatuses]]
           /\ pc' \in Places /\ putFailed' \in BOOLEAN
           /\ \/ pc' = next /\ row' = [status |-> s, task |-> ts] /\ putFailed' = putFailed
              \/ pc' = "returned" /\ row' = row /\ putFailed' = TRUE
<1>1. status' = s /\ task' = ts
  BY DEF Update
<1>2. \/ pc' = next /\ row' = [status |-> s, task |-> ts] /\ putFailed' = putFailed
      \/ pc' = "returned" /\ row' = row /\ putFailed' = TRUE
  BY DEF Update, Put
<1>3. [status |-> s, task |-> ts] \in [status : Statuses \cup {"absent"}, task : [Tasks -> TaskStatuses]]
  OBVIOUS
<1>4. row \in [status : Statuses \cup {"absent"}, task : [Tasks -> TaskStatuses]]
  BY DEF TypeOK, Statuses
<1>5. "returned" \in Places /\ putFailed \in BOOLEAN
  BY DEF TypeOK, Places
<1> QED
  BY <1>1, <1>2, <1>3, <1>4, <1>5

\* What a cancellation leaves is settled, and nothing that had settled changes.
LEMMA CancelledSettles ==
    ASSUME NEW ts \in [Tasks -> TaskStatuses]
    PROVE  /\ Cancelled(ts) \in [Tasks -> TaskStatuses]
           /\ \A t \in Tasks : Cancelled(ts)[t] = IF ts[t] \in Settled THEN ts[t] ELSE "cancelled"
  BY DEF Cancelled, TaskStatuses, Settled

\* The position is in the order, and the task there is one of the tasks.
LEMMA CurrentTask ==
    ASSUME TypeOK, Progress, pc \in {"entered", "marked", "called"}
    PROVE  at \in DOMAIN order /\ Current \in Tasks /\ task[Current] \in {"pending", "running"}
  BY DEF TypeOK, Progress, Alive, Current

\* The loop goes on to a position of the order, or to the first one behind it.
LEMMA NextPosition ==
    ASSUME TypeOK, at \in DOMAIN order
    PROVE  at + 1 \in Nat \ {0} /\ at + 1 <= Len(order) + 1
  BY DEF TypeOK

\* The dependencies of the current task are all behind the position.
LEMMA DependenciesBehind ==
    ASSUME IInv, pc \in {"entered", "marked", "called"}
    PROVE  \A d \in deps[Current] : task[d] \in Behind
<1>1. at \in DOMAIN order
  BY CurrentTask DEF IInv
<1> QED
  BY <1>1 DEF IInv, Topological, Progress, Alive, Current

\* One more task, ready, at the end of the order.
LEMMA ListOrdered ==
    ASSUME TypeOK, Topological, NEW t \in Tasks, List(t)
    PROVE  Topological'
<1> USE DEF TypeOK, Listed
<1>1. /\ DOMAIN order' = 1..Len(order) + 1 /\ DOMAIN order = 1..Len(order)
      /\ \A k \in DOMAIN order : order'[k] = order[k]
      /\ order'[Len(order) + 1] = t /\ Len(order) \in Nat /\ deps' = deps
  BY DEF List
<1>2. \A k \in DOMAIN order : order[k] # t
  BY DEF List, NextListed, Ready
<1>3. \A d \in deps[t] : \E j \in DOMAIN order : order[j] = d
  BY DEF List, NextListed, Ready
<1>4. \A j, k \in DOMAIN order' : order'[j] = order'[k] => j = k
  BY <1>1, <1>2 DEF Topological
<1>5. ASSUME NEW k \in DOMAIN order', NEW d \in deps'[order'[k]]
      PROVE  \E j \in DOMAIN order' : j < k /\ order'[j] = d
  BY <1>1, <1>3, <1>5 DEF Topological
<1> QED
  BY <1>4, <1>5 DEF Topological

-----------------------------------------------------------------------------
(* The invariant.                                                          *)

LEMMA InitInv == Init => IInv
<1> SUFFICES ASSUME Init PROVE IInv
  OBVIOUS
<1> USE ConstantsAssumption DEF Init, Tasks, Fresh, TaskStatuses, Places
<1>1. TypeOK
  <2>1. order \in Seq(Tasks) /\ at <= Len(order) + 1 /\ at \in Nat \ {0}
    OBVIOUS
  <2> QED
    BY <2>1 DEF TypeOK
<1>2. Topological /\ Complete /\ Progress /\ RowFollows /\ FailureKnown /\ Called
  BY DEF Topological, Complete, Progress, RowFollows, FailureKnown, Called, Alive
<1> QED  BY <1>1, <1>2 DEF IInv

LEMMA NextInv == IInv /\ [Next]_vars => IInv'
<1> SUFFICES ASSUME IInv, [Next]_vars PROVE IInv'
  OBVIOUS
<1> USE ConstantsAssumption DEF IInv, memVars, histVars
<1>1. ASSUME NEW t \in Tasks, List(t) PROVE IInv'
  <2>1. TypeOK'
    BY <1>1 DEF List, TypeOK, Places
  <2>2. Topological'
    BY <1>1, ListOrdered
  <2>3. (Complete /\ Progress /\ RowFollows /\ FailureKnown /\ Called)'
    BY <1>1 DEF List, Complete, Progress, RowFollows, FailureKnown, Called, Alive, Fresh
  <2> QED  BY <2>1, <2>2, <2>3
<1>2. ASSUME Reject PROVE IInv'
  <2>1. (TypeOK /\ Topological /\ Complete)'
    BY <1>2 DEF Reject, TypeOK, Places, Topological, Complete, Alive, Listed
  <2>2. (Progress /\ RowFollows /\ FailureKnown /\ Called)'
    BY <1>2 DEF Reject, TypeOK, Progress, RowFollows, FailureKnown, Called, Alive
  <2> QED  BY <2>1, <2>2
<1>3. ASSUME Record PROVE IInv'
  <2>1. Update("pending", task, "recorded") /\ "pending" \in Statuses /\ task \in [Tasks -> TaskStatuses]
    BY <1>3 DEF Record, TypeOK, Statuses, TaskStatuses
  <2>2. /\ status' = "pending" /\ task' = task
        /\ \/ pc' = "recorded" /\ row' = [status |-> "pending", task |-> task]
           \/ pc' = "returned" /\ row' = row
    BY <2>1, UpdateEffect DEF Places
  <2>3. TypeOK'
    BY <1>3, <2>1, UpdateEffect DEF Record, TypeOK, Statuses, Places
  <2>4. (Topological /\ Complete)'
    BY <1>3, <2>2 DEF Record, Topological, Complete, Alive, Listed
  <2>5. Progress'
    BY <1>3, <2>2 DEF Record, Complete, Alive, Fresh, Progress, TypeOK
  <2>6. RowFollows'
    BY <1>3, <2>2 DEF Record, RowFollows, Alive
  <2>7. FailureKnown'
    BY <1>3, <2>2 DEF Record, Complete, Alive, Fresh, FailureKnown, TypeOK
  <2>8. Called'
    BY <1>3, <2>2 DEF Record, TypeOK, Called, Progress, RowFollows, Alive, Current
  <2> QED  BY <2>3, <2>4, <2>5, <2>6, <2>7, <2>8
<1>4. ASSUME Begin PROVE IInv'
  <2>1. Update("running", task, "next") /\ "running" \in Statuses /\ task \in [Tasks -> TaskStatuses]
    BY <1>4 DEF Begin, TypeOK, Statuses, TaskStatuses
  <2>2. /\ status' = "running" /\ task' = task
        /\ \/ pc' = "next" /\ row' = [status |-> "running", task |-> task]
           \/ pc' = "returned" /\ row' = row
    BY <2>1, UpdateEffect DEF Places
  <2>3. TypeOK'
    BY <1>4, <2>1, UpdateEffect DEF Begin, TypeOK, Statuses, Places
  <2>4. (Topological /\ Complete)'
    BY <1>4, <2>2 DEF Begin, Topological, Complete, Alive, Listed
  <2>5. Progress'
    BY <1>4, <2>2 DEF Begin, Alive, Progress
  <2>6. RowFollows'
    BY <1>4, <2>2 DEF Begin, RowFollows, Alive
  <2>7. FailureKnown'
    BY <1>4, <2>2 DEF Begin, Alive, FailureKnown
  <2>8. Called'
    BY <1>4, <2>2 DEF Begin, TypeOK, Called, Progress, RowFollows, Alive, Current
  <2> QED  BY <2>3, <2>4, <2>5, <2>6, <2>7, <2>8
<1>5. ASSUME Break PROVE IInv'
  <2>1. (TypeOK /\ Topological /\ Complete)'
    BY <1>5, CancelledSettles DEF Break, TypeOK, Places, Topological, Complete, Alive, Listed
  <2>2. (Progress /\ RowFollows /\ FailureKnown)'
    BY <1>5 DEF Break, Progress, RowFollows, FailureKnown, Alive
  <2>3. Called'
    BY <1>5, CancelledSettles DEF Break, TypeOK, Called, Cancelled
  <2> QED  BY <2>1, <2>2, <2>3
<1>6. ASSUME Enter PROVE IInv'
  <2>1. (TypeOK /\ Topological /\ Complete)'
    BY <1>6 DEF Enter, TypeOK, Places, Topological, Complete, Alive, Listed
  <2>2. (Progress /\ RowFollows /\ FailureKnown /\ Called)'
    BY <1>6 DEF Enter, TypeOK, Progress, RowFollows, FailureKnown, Called, Alive
  <2> QED  BY <2>1, <2>2
<1>7. ASSUME Skip PROVE IInv'
  <2>1. Update(status, [task EXCEPT ![Current] = "skipped"], "next") /\ status \in Statuses /\ [task EXCEPT ![Current] = "skipped"] \in [Tasks -> TaskStatuses]
    BY <1>7, CurrentTask DEF Skip, TypeOK, Statuses, TaskStatuses
  <2>2. /\ status' = status /\ task' = [task EXCEPT ![Current] = "skipped"]
        /\ \/ pc' = "next" /\ row' = [status |-> status, task |-> [task EXCEPT ![Current] = "skipped"]]
           \/ pc' = "returned" /\ row' = row
    BY <2>1, UpdateEffect DEF Places
  <2>3. TypeOK'
    <3>1. at' = at + 1 /\ order' = order /\ deps' = deps /\ ctxEnded' = ctxEnded /\ called' = called /\ failure' \in BOOLEAN
      BY <1>7 DEF Skip, TypeOK
    <3>2. at' \in Nat \ {0} /\ at' <= Len(order') + 1
      BY <3>1, CurrentTask, NextPosition, <1>7 DEF Skip
    <3>3. /\ status' \in Statuses /\ task' \in [Tasks -> TaskStatuses]
          /\ row' \in [status : Statuses \cup {"absent"}, task : [Tasks -> TaskStatuses]]
          /\ pc' \in Places /\ putFailed' \in BOOLEAN
      BY <2>1, UpdateEffect DEF Places
    <3> QED  BY <3>1, <3>2, <3>3 DEF TypeOK, Statuses
  <2>4. (Topological /\ Complete)'
    BY <1>7, <2>2 DEF Skip, Topological, Complete, Alive, Listed
  <2>5. Progress'
    BY <1>7, <2>2, CurrentTask DEF Skip, TypeOK, Topological, Progress, Alive, Behind, Current
  <2>6. RowFollows'
    BY <1>7, <2>2, CurrentTask DEF Skip, RowFollows, Alive
  <2>7. FailureKnown'
    BY <1>7, <2>2, CurrentTask, DependenciesBehind
       DEF Skip, TypeOK, FailureKnown, Alive, Behind, Blocked
  <2>8. Called'
    BY <1>7, <2>2, CurrentTask DEF Skip, TypeOK, Called, Progress, RowFollows, Alive, Current
  <2> QED  BY <2>3, <2>4, <2>5, <2>6, <2>7, <2>8
<1>8. ASSUME Refuse PROVE IInv'
  <2>1. Update(status, [task EXCEPT ![Current] = "failed"], "next") /\ status \in Statuses /\ [task EXCEPT ![Current] = "failed"] \in [Tasks -> TaskStatuses]
    BY <1>8, CurrentTask DEF Refuse, TypeOK, Statuses, TaskStatuses
  <2>2. /\ status' = status /\ task' = [task EXCEPT ![Current] = "failed"]
        /\ \/ pc' = "next" /\ row' = [status |-> status, task |-> [task EXCEPT ![Current] = "failed"]]
           \/ pc' = "returned" /\ row' = row
    BY <2>1, UpdateEffect DEF Places
  <2>3. TypeOK'
    <3>1. at' = at + 1 /\ order' = order /\ deps' = deps /\ ctxEnded' = ctxEnded /\ called' = called /\ failure' \in BOOLEAN
      BY <1>8 DEF Refuse, TypeOK
    <3>2. at' \in Nat \ {0} /\ at' <= Len(order') + 1
      BY <3>1, CurrentTask, NextPosition, <1>8 DEF Refuse
    <3>3. /\ status' \in Statuses /\ task' \in [Tasks -> TaskStatuses]
          /\ row' \in [status : Statuses \cup {"absent"}, task : [Tasks -> TaskStatuses]]
          /\ pc' \in Places /\ putFailed' \in BOOLEAN
      BY <2>1, UpdateEffect DEF Places
    <3> QED  BY <3>1, <3>2, <3>3 DEF TypeOK, Statuses
  <2>4. (Topological /\ Complete)'
    BY <1>8, <2>2 DEF Refuse, Topological, Complete, Alive, Listed
  <2>5. Progress'
    BY <1>8, <2>2, CurrentTask DEF Refuse, TypeOK, Topological, Progress, Alive, Behind, Current
  <2>6. RowFollows'
    BY <1>8, <2>2, CurrentTask DEF Refuse, RowFollows, Alive
  <2>7. FailureKnown'
    BY <1>8, <2>2, CurrentTask DEF Refuse, TypeOK, Progress, FailureKnown, Alive, Current
  <2>8. Called'
    BY <1>8, <2>2, CurrentTask DEF Refuse, TypeOK, Called, Progress, RowFollows, Alive, Current
  <2> QED  BY <2>3, <2>4, <2>5, <2>6, <2>7, <2>8
<1>9. ASSUME Mark PROVE IInv'
  <2>1. Update(status, [task EXCEPT ![Current] = "running"], "marked") /\ status \in Statuses /\ [task EXCEPT ![Current] = "running"] \in [Tasks -> TaskStatuses]
    BY <1>9, CurrentTask DEF Mark, TypeOK, Statuses, TaskStatuses
  <2>2. /\ status' = status /\ task' = [task EXCEPT ![Current] = "running"]
        /\ \/ pc' = "marked" /\ row' = [status |-> status, task |-> [task EXCEPT ![Current] = "running"]]
           \/ pc' = "returned" /\ row' = row
    BY <2>1, UpdateEffect DEF Places
  <2>3. TypeOK'
    BY <1>9, <2>1, UpdateEffect, CurrentTask DEF Mark, TypeOK, Statuses, Places
  <2>4. (Topological /\ Complete)'
    BY <1>9, <2>2 DEF Mark, Topological, Complete, Alive, Listed
  <2>5. Progress'
    BY <1>9, <2>2, CurrentTask DEF Mark, TypeOK, Topological, Progress, Alive, Behind, Current
  <2>6. RowFollows'
    BY <1>9, <2>2, CurrentTask DEF Mark, RowFollows, Alive
  <2>7. FailureKnown'
    BY <1>9, <2>2, CurrentTask DEF Mark, TypeOK, Progress, FailureKnown, Alive, Current
  <2>8. Called'
    BY <1>9, <2>2, CurrentTask DEF Mark, TypeOK, Called, Progress, RowFollows, Alive, Current
  <2> QED  BY <2>3, <2>4, <2>5, <2>6, <2>7, <2>8
<1>10. ASSUME Call PROVE IInv'
  <2>1. (TypeOK /\ Topological /\ Complete)'
    BY <1>10, CurrentTask DEF Call, TypeOK, Places, Topological, Complete, Alive, Listed
  <2>2. (Progress /\ RowFollows /\ FailureKnown /\ Called)'
    BY <1>10 DEF Call, TypeOK, Progress, RowFollows, FailureKnown, Called, Alive, Current
  <2> QED  BY <2>1, <2>2
<1>11. ASSUME pc \in {"marked", "called"}, Settle({"succeeded", "failed"}), ctxEnded PROVE IInv'
  <2>1. Update("cancelled", Cancelled(task), "closing") /\ "cancelled" \in Statuses /\ Cancelled(task) \in [Tasks -> TaskStatuses]
    BY <1>11, CurrentTask, CancelledSettles DEF Settle, TypeOK, Statuses, TaskStatuses
  <2>2. /\ status' = "cancelled" /\ task' = Cancelled(task)
        /\ \/ pc' = "closing" /\ row' = [status |-> "cancelled", task |-> Cancelled(task)]
           \/ pc' = "returned" /\ row' = row
    BY <2>1, UpdateEffect DEF Places
  <2>3. TypeOK'
    <3>1. at' = at + 1 /\ order' = order /\ deps' = deps /\ ctxEnded' = ctxEnded /\ called' = called /\ failure' \in BOOLEAN
      BY <1>11 DEF Settle, TypeOK
    <3>2. at' \in Nat \ {0} /\ at' <= Len(order') + 1
      BY <3>1, CurrentTask, NextPosition, <1>11 DEF Settle
    <3>3. /\ status' \in Statuses /\ task' \in [Tasks -> TaskStatuses]
          /\ row' \in [status : Statuses \cup {"absent"}, task : [Tasks -> TaskStatuses]]
          /\ pc' \in Places /\ putFailed' \in BOOLEAN
      BY <2>1, UpdateEffect DEF Places
    <3> QED  BY <3>1, <3>2, <3>3 DEF TypeOK, Statuses
  <2>4. (Topological /\ Complete)'
    BY <1>11, <2>2 DEF Settle, Topological, Complete, Alive, Listed
  <2>5. Progress'
    BY <1>11, <2>2, CurrentTask, CancelledSettles DEF Settle, TypeOK, Topological, Progress, Alive, Behind, Current
  <2>6. RowFollows'
    BY <1>11, <2>2, CurrentTask, CancelledSettles DEF Settle, RowFollows, Alive
  <2>7. FailureKnown'
    BY <1>11, <2>2, CurrentTask, CancelledSettles DEF Settle, TypeOK, Progress, FailureKnown, Alive, Current
  <2>8. Called'
    BY <1>11, <2>2, CurrentTask, CancelledSettles DEF Settle, TypeOK, Called, Progress, RowFollows, Alive, Current
  <2> QED  BY <2>3, <2>4, <2>5, <2>6, <2>7, <2>8
<1>12. ASSUME pc \in {"marked", "called"}, ~ctxEnded, NEW answer \in {"succeeded", "failed"}, Settle({answer}) PROVE IInv'
  <2>1. Update(status, [task EXCEPT ![Current] = answer], "next") /\ status \in Statuses /\ [task EXCEPT ![Current] = answer] \in [Tasks -> TaskStatuses]
    BY <1>12, CurrentTask DEF Settle, TypeOK, Statuses, TaskStatuses
  <2>2. /\ status' = status /\ task' = [task EXCEPT ![Current] = answer]
        /\ \/ pc' = "next" /\ row' = [status |-> status, task |-> [task EXCEPT ![Current] = answer]]
           \/ pc' = "returned" /\ row' = row
    BY <2>1, UpdateEffect DEF Places
  <2>3. TypeOK'
    <3>1. at' = at + 1 /\ order' = order /\ deps' = deps /\ ctxEnded' = ctxEnded /\ called' = called /\ failure' \in BOOLEAN
      BY <1>12 DEF Settle, TypeOK
    <3>2. at' \in Nat \ {0} /\ at' <= Len(order') + 1
      BY <3>1, CurrentTask, NextPosition, <1>12 DEF Settle
    <3>3. /\ status' \in Statuses /\ task' \in [Tasks -> TaskStatuses]
          /\ row' \in [status : Statuses \cup {"absent"}, task : [Tasks -> TaskStatuses]]
          /\ pc' \in Places /\ putFailed' \in BOOLEAN
      BY <2>1, UpdateEffect DEF Places
    <3> QED  BY <3>1, <3>2, <3>3 DEF TypeOK, Statuses
  <2>4. (Topological /\ Complete)'
    BY <1>12, <2>2 DEF Settle, Topological, Complete, Alive, Listed
  <2>5. Progress'
    BY <1>12, <2>2, CurrentTask DEF Settle, TypeOK, Topological, Progress, Alive, Behind, Current
  <2>6. RowFollows'
    BY <1>12, <2>2, CurrentTask DEF Settle, RowFollows, Alive
  <2>7. FailureKnown'
    <3>1. SUFFICES ASSUME Alive' PROVE failure' <=> \E t \in Tasks : task'[t] \in {"failed", "skipped"}
      BY <1>12, <2>2 DEF FailureKnown
    <3>2. failure <=> \E t \in Tasks : task[t] \in {"failed", "skipped"}
      BY <1>12 DEF FailureKnown, Alive
    <3>3. Current \in Tasks /\ task[Current] = "running" /\ task \in [Tasks -> TaskStatuses]
      BY <1>12, CurrentTask DEF TypeOK, Progress, Alive, Current
    <3>4. failure' = (failure \/ answer = "failed")
      BY <1>12 DEF Settle
    <3>5. CASE answer = "failed"
      BY <2>2, <3>3, <3>4, <3>5
    <3>6. CASE answer = "succeeded"
      BY <2>2, <3>2, <3>3, <3>4, <3>6
    <3> QED  BY <3>5, <3>6
  <2>8. Called'
    BY <1>12, <2>2, CurrentTask DEF Settle, TypeOK, Called, Progress, RowFollows, Alive, Current
  <2> QED  BY <2>3, <2>4, <2>5, <2>6, <2>7, <2>8
<1>13. ASSUME Close PROVE IInv'
  <2> DEFINE s == IF status = "cancelled" THEN "cancelled" ELSE IF failure THEN "failed" ELSE "succeeded"
  <2>1. Update(s, task, "returned") /\ s \in Statuses /\ task \in [Tasks -> TaskStatuses]
    BY <1>13 DEF Close, TypeOK, Statuses
  <2>2. pc' = "returned" /\ task' = task /\ row' \in {row, [status |-> s, task |-> task]}
    BY <2>1, UpdateEffect DEF Places
  <2>3. TypeOK'
    BY <1>13, <2>1, UpdateEffect DEF Close, TypeOK, Statuses, Places
  <2>4. (Topological /\ Complete /\ Progress /\ RowFollows /\ FailureKnown)'
    BY <1>13, <2>2 DEF Close, Topological, Complete, Progress, RowFollows, FailureKnown, Alive
  <2>5. Called'
    BY <1>13, <2>2 DEF Close, Called
  <2> QED  BY <2>3, <2>4, <2>5
<1>14. ASSUME EndCtx PROVE IInv'
  <2>1. (TypeOK /\ Topological /\ Complete)'
    BY <1>14 DEF EndCtx, TypeOK, Places, Topological, Complete, Alive, Listed
  <2>2. (Progress /\ RowFollows /\ FailureKnown /\ Called)'
    BY <1>14 DEF EndCtx, TypeOK, Progress, RowFollows, FailureKnown, Called, Alive
  <2> QED  BY <2>1, <2>2
<1>15. ASSUME Crash PROVE IInv'
  <2>1. (TypeOK /\ Topological /\ Complete)'
    BY <1>15 DEF Crash, TypeOK, Places, Topological, Complete, Alive, Listed
  <2>2. (Progress /\ RowFollows /\ FailureKnown /\ Called)'
    BY <1>15 DEF Crash, TypeOK, Progress, RowFollows, FailureKnown, Called, Alive
  <2> QED  BY <2>1, <2>2
<1>16. CASE UNCHANGED vars
  BY <1>16 DEF vars, TypeOK, Topological, Complete, Progress, RowFollows, FailureKnown, Called, Alive, Listed, Cancelled, Fresh, Tasks
<1>17. ASSUME Answered \/ Stopped PROVE IInv'
  <2>1. CASE ctxEnded
    BY <1>11, <1>17, <2>1 DEF Answered, Stopped, Settle
  <2>2. CASE ~ctxEnded
    BY <1>12, <1>17, <2>2 DEF Answered, Stopped, Settle
  <2> QED  BY <2>1, <2>2
<1> QED
  BY <1>1, <1>2, <1>3, <1>4, <1>5, <1>6, <1>7, <1>8, <1>9, <1>10, <1>13, <1>14, <1>15, <1>16, <1>17 DEF Next, Step

-----------------------------------------------------------------------------
(* The theorems.                                                           *)

LEMMA SpecInv == Spec => []IInv
  BY InitInv, NextInv, PTL DEF Spec

\* The fields keep their types; the position never leaves the order by more than one.
THEOREM TypeCorrect == Spec => []TypeOK
<1>1. IInv => TypeOK
  BY DEF IInv
<1> QED  BY SpecInv, <1>1, PTL

\* A tool call, whatever fails after it, is never missing from the row.
THEOREM CallsRecorded == Spec => []CallsAreRecorded
<1>1. IInv => CallsAreRecorded
  BY DEF IInv, Called, CallsAreRecorded
<1> QED  BY SpecInv, <1>1, PTL

\* How runWorkflow returns: without a row, with a write that failed, or after Close.
LEMMA ReturnTells ==
    ASSUME IInv, LiveRowIsBacked, ErrorIsTold, [Next]_vars
    PROVE  LiveRowIsBacked' /\ ErrorIsTold'
<1> USE DEF LiveRowIsBacked, ErrorIsTold
<1>1. CASE pc' # "returned"
  BY <1>1
<1>2. CASE pc' = "returned" /\ putFailed'
  BY <1>2
<1>3. CASE pc' = "returned" /\ ~putFailed'
  <2>1. CASE UNCHANGED vars
    BY <2>1 DEF vars, memVars, histVars
  <2>2. CASE Reject
    BY <2>2 DEF Reject, IInv, Complete, memVars, histVars
  <2>3. CASE Close
    <3>1. status' # "cancelled" => status' \in {"failed", "succeeded"}
      BY <2>3 DEF Close, Update
    <3>2. failure' = failure /\ row'.status = status'
      BY <1>3, <2>3 DEF Close, Update, Put, IInv, TypeOK
    <3>3. status' = "cancelled" => failure
      BY <2>3 DEF Close, Update, IInv, FailureKnown, RowFollows, Alive
    <3>4. status' = "succeeded" => ~failure
      BY <2>3 DEF Close, Update
    <3>5. status' = "failed" => failure
      BY <2>3 DEF Close, Update, IInv, TypeOK
    <3> QED  BY <3>1, <3>2, <3>3, <3>4, <3>5
  <2>4. UNCHANGED vars \/ Reject \/ Close
    BY <1>3 DEF Next, Step, List, Record, Begin, Break, Enter, Skip, Refuse, Mark, Call,
                Answered, Stopped, Settle, Update, Put, EndCtx, Crash, IInv, TypeOK
  <2> QED  BY <2>1, <2>2, <2>3, <2>4
<1> QED  BY <1>1, <1>2, <1>3

\* No row is left behind that says "running" while nothing runs, and the caller gets an
\* error exactly when the row tells one: unless a write failed or the process died.
THEOREM RowIsTheTruth == Spec => []RowTellsTheTruth
<1>1. Init => RowTellsTheTruth
  BY DEF Init, RowTellsTheTruth, LiveRowIsBacked, ErrorIsTold
<1>2. IInv /\ RowTellsTheTruth /\ [Next]_vars => RowTellsTheTruth'
  BY ReturnTells DEF RowTellsTheTruth
<1> QED
  BY SpecInv, <1>1, <1>2, PTL DEF Spec

-----------------------------------------------------------------------------
(* The row implements DagContract.                                         *)

\* While the run is alive the row is the memory, and every task is behind the position,
\* at it, or ahead of it.
LEMMA RowKnows ==
    ASSUME IInv, Alive, pc # "recorded"
    PROVE  /\ row.status = "running" /\ row.task = task /\ status = "running"
           /\ \A t \in Tasks : \E k \in DOMAIN order : order[k] = t
  BY DEF IInv, Alive, RowFollows, Complete, Listed

LEMMA InitMaps == Init => Contract!Init
  BY DEF Init, Contract!Init, Fresh

\* A write that fails leaves the row, and a step that leaves the row is a stutter.
LEMMA Stutter ==
    ASSUME deps' = deps, row' = row
    PROVE  [Contract!Next]_Contract!vars
  BY DEF Contract!vars

\* One task moves, the run does not.
LEMMA Moves ==
    ASSUME IInv, pc \in {"entered", "marked", "called"}, NEW result \in TaskStatuses,
           NEW next \in Places,
           Update(status, [task EXCEPT ![Current] = result], next), row' # row
    PROVE  /\ Current \in Tasks
           /\ row.status = "running" /\ row'.status = row.status /\ row.task = task
           /\ row'.task = [row.task EXCEPT ![Current] = result]
<1>1. Current \in Tasks
  BY CurrentTask DEF IInv
<1>2. row.status = "running" /\ row.task = task /\ status = "running"
  BY RowKnows DEF Alive
<1>3. row' = [status |-> status, task |-> [task EXCEPT ![Current] = result]]
  BY DEF Update, Put
<1> QED  BY <1>1, <1>2, <1>3

LEMMA StepMaps == IInv /\ [Next]_vars => [Contract!Next]_Contract!vars
<1> SUFFICES ASSUME IInv, [Next]_vars PROVE [Contract!Next]_Contract!vars
  OBVIOUS
<1>1. CASE row' = row
  <2>1. deps' = deps
    BY DEF Next, Step, List, Reject, Record, Begin, Break, Enter, Skip, Refuse, Mark, Call,
           Answered, Stopped, Settle, Close, EndCtx, Crash, vars
  <2> QED  BY <1>1, <2>1, Stutter
<1> SUFFICES ASSUME row' # row PROVE Contract!Next
  BY <1>1
<1>2. CASE Record
  <2>1. row.status = "absent" /\ row.task = task
    BY <1>2 DEF Record, IInv, Complete
  <2>2. row' = [status |-> "pending", task |-> task] /\ deps' = deps
    BY <1>2 DEF Record, Update, Put
  <2> QED  BY <2>1, <2>2 DEF Contract!Record, Contract!Next
<1>3. CASE Begin
  <2>1. row.status = "pending" /\ row.task = task
    BY <1>3 DEF Begin, IInv, RowFollows, Alive
  <2>2. row' = [status |-> "running", task |-> task] /\ deps' = deps
    BY <1>3 DEF Begin, Update, Put
  <2> QED  BY <2>1, <2>2 DEF Contract!Start, Contract!Next
<1>4. CASE Skip
  <2>1. /\ Current \in Tasks
        /\ row.status = "running" /\ row'.status = row.status /\ row.task = task
        /\ row'.task = [row.task EXCEPT ![Current] = "skipped"]
    BY <1>4, Moves DEF Skip, TaskStatuses, Places
  <2>2. PICK d \in deps[Current] : task[d] # "succeeded"
    BY <1>4 DEF Skip, Blocked
  <2>3. task[d] \in {"failed", "skipped"}
    BY <1>4, <2>2, DependenciesBehind DEF Skip, Behind
  <2>4. task[Current] = "pending" /\ deps' = deps
    BY <1>4 DEF Skip, IInv, Progress, Alive, Current
  <2>5. Contract!Skip(Current)
    BY <2>1, <2>2, <2>3, <2>4 DEF Contract!Skip, Contract!Move
  <2> QED  BY <2>1, <2>5 DEF Contract!Next
<1>5. CASE Refuse
  <2>1. /\ Current \in Tasks
        /\ row.status = "running" /\ row'.status = row.status /\ row.task = task
        /\ row'.task = [row.task EXCEPT ![Current] = "failed"]
    BY <1>5, Moves DEF Refuse, TaskStatuses, Places
  <2>2. task[Current] = "pending" /\ deps' = deps
    BY <1>5 DEF Refuse, IInv, Progress, Alive, Current
  <2>3. Contract!Refuse(Current)
    BY <1>5, <2>1, <2>2 DEF Refuse, Blocked, Contract!Refuse, Contract!Released, Contract!Move
  <2> QED  BY <2>1, <2>3 DEF Contract!Next
<1>6. CASE Mark
  <2>1. /\ Current \in Tasks
        /\ row.status = "running" /\ row'.status = row.status /\ row.task = task
        /\ row'.task = [row.task EXCEPT ![Current] = "running"]
    BY <1>6, Moves DEF Mark, TaskStatuses, Places
  <2>2. \A u \in Tasks : task[u] # "running"
    <3>1. at \in DOMAIN order /\ at \in Nat /\ DOMAIN order \subseteq Nat
      BY <1>6, CurrentTask DEF Mark, IInv, TypeOK
    <3>2. \A k \in DOMAIN order : task[order[k]] \in Behind \cup {"pending"}
      BY <1>6, <3>1 DEF Mark, IInv, Progress, Alive, Behind
    <3> QED  BY <1>6, <3>2, RowKnows DEF Mark, Alive, Behind
  <2>3. task[Current] = "pending" /\ deps' = deps
    BY <1>6 DEF Mark, IInv, Progress, Alive, Current
  <2>4. Contract!Begin(Current)
    BY <1>6, <2>1, <2>2, <2>3 DEF Mark, Blocked, Contract!Begin, Contract!Released, Contract!Move
  <2> QED  BY <2>1, <2>4 DEF Contract!Next
<1>7. CASE Answered \/ Stopped
  <2>1. pc \in {"marked", "called"} /\ deps' = deps
    BY <1>7 DEF Answered, Stopped, Settle
  <2>2. row.status = "running" /\ row.task = task /\ task \in [Tasks -> TaskStatuses]
    BY <2>1, RowKnows DEF Alive, IInv, TypeOK
  <2>3. CASE ctxEnded
    <3>1. row' = [status |-> "cancelled", task |-> Cancelled(task)]
      BY <1>7, <2>3 DEF Answered, Stopped, Settle, Update, Put
    <3>2. row'.task = [t \in Tasks |-> IF task[t] \in Contract!Ended THEN task[t] ELSE "cancelled"]
      BY <2>2, <3>1 DEF Cancelled, TaskStatuses, Contract!Ended
    <3> QED  BY <2>1, <2>2, <3>1, <3>2 DEF Contract!Cancel, Contract!Next
  <2>4. CASE ~ctxEnded
    <3>1. PICK answer \in {"succeeded", "failed"} :
             Update(status, [task EXCEPT ![Current] = answer], "next")
      BY <1>7, <2>4 DEF Answered, Stopped, Settle
    <3>2. /\ Current \in Tasks /\ row'.status = row.status
          /\ row'.task = [row.task EXCEPT ![Current] = answer]
      BY <2>1, <3>1, Moves DEF TaskStatuses, Places
    <3>3. task[Current] = "running"
      BY <2>1 DEF IInv, Progress, Alive, Current
    <3>4. Contract!End(Current)
      BY <2>1, <2>2, <3>2, <3>3 DEF Contract!End, Contract!Move
    <3> QED  BY <3>2, <3>4 DEF Contract!Next
  <2> QED  BY <2>3, <2>4
<1>8. CASE Close
  <2> DEFINE s == IF status = "cancelled" THEN "cancelled" ELSE IF failure THEN "failed" ELSE "succeeded"
  <2>1. row' = [status |-> s, task |-> task] /\ deps' = deps
    BY <1>8 DEF Close, Update, Put
  <2>2. CASE pc = "closing"
    <3>1. row.status = "running" /\ task = Cancelled(row.task) /\ s = "cancelled"
      BY <2>1, <2>2 DEF IInv, RowFollows
    <3>2. row.task \in [Tasks -> TaskStatuses]
      BY DEF IInv, TypeOK
    <3>3. row'.task = [t \in Tasks |-> IF row.task[t] \in Contract!Ended THEN row.task[t] ELSE "cancelled"]
      BY <2>1, <3>1, <3>2 DEF Cancelled, TaskStatuses, Contract!Ended
    <3> QED  BY <2>1, <3>1, <3>3 DEF Contract!Cancel, Contract!Next
  <2>3. CASE pc = "next" /\ at > Len(order)
    <3>1. row.status = "running" /\ row.task = task /\ status = "running"
      BY <2>3, RowKnows DEF Alive
    <3>2. \A k \in DOMAIN order : task[order[k]] \in Behind
      BY <2>3 DEF IInv, TypeOK, Progress, Alive
    <3>3. \A t \in Tasks : task[t] \in Behind
      BY <2>3, <3>2, RowKnows DEF Alive
    <3>4. \A t \in Tasks : task[t] \in Contract!Ended
      BY <3>3 DEF Behind, Contract!Ended
    <3>5. failure <=> \E t \in Tasks : task[t] # "succeeded"
      BY <2>3, <3>3 DEF IInv, FailureKnown, Alive, Behind
    <3>6. s = IF \A t \in Tasks : task[t] = "succeeded" THEN "succeeded" ELSE "failed"
      BY <3>1, <3>5
    <3> QED  BY <2>1, <3>1, <3>4, <3>6 DEF Contract!Finish, Contract!Next
  <2> QED  BY <1>8, <2>2, <2>3 DEF Close
<1>9. row' = row \/ Record \/ Begin \/ Skip \/ Refuse \/ Mark \/ Answered \/ Stopped \/ Close
  BY DEF Next, Step, List, Reject, Break, Enter, Call, EndCtx, Crash, vars
<1> QED
  BY <1>2, <1>3, <1>4, <1>5, <1>6, <1>7, <1>8, <1>9

\* Whatever the DAG, and wherever a write fails, ctx ends or the process dies, the row is
\* that of a DAG executed by the rules of DagContract.
THEOREM Implements == Spec => RowKeepsContract
<1>1. Spec => Contract!Init
  BY InitMaps DEF Spec
<1>2. Spec => [][Contract!Next]_Contract!vars
  BY SpecInv, StepMaps, PTL DEF Spec
<1> QED  BY <1>1, <1>2 DEF RowKeepsContract, Contract!Spec
=============================================================================
