------------------------ MODULE ReviewApprovalProofs ------------------------
(***************************************************************************)
(* Theorems about ReviewApproval, for every number of reviews, tool calls, *)
(* hosts and answers, with failing stores and any number of deletions; the *)
(* last one is that it implements ReviewContract.                          *)
(***************************************************************************)
EXTENDS ReviewApproval, TLAPS

Written == {"persisted", "waking", "telling"}
Locked  == Written \cup {"loaded"}

\* Only the call of Resolve that holds resolveMu is between its load and its return.
HoldsMutex == \A a \in Answers : at[a] \in Locked => resolveMu = a

\* A call that has not begun has no review and no result; one that has, has a review.
Begun ==
    /\ \A w \in Waiters : IF pc[w] = "idle" THEN on[w] = NoReview /\ result[w] = "none"
                                            ELSE on[w] \in Reviews
    /\ \A a \in Answers : IF at[a] = "idle" THEN answer[a] = "none"
                                            ELSE about[a] \in Reviews

\* A row, or a decision, belongs to a review some caller raised, and ids are not reused.
Raised(r) == r \in Expiring \/ \E g \in Gates : on[g] = r
RowsRaised ==
    /\ \A r \in Reviews : status[r] # "absent" \/ decisions[r] # {} => Raised(r)
    /\ \A a \in Answers : at[a] = "loaded" => Raised(about[a])

\* The store agrees with the one decision made, and has it when it is needed.
RowsDecided ==
    /\ \A r \in Reviews : \A d, e \in decisions[r] : d = e
    /\ \A r \in Reviews : status[r] \in Decided => decisions[r] = {status[r]}
    /\ \A r \in Reviews : status[r] = "pending" => decisions[r] = {}
    /\ \A a \in Answers : at[a] = "loaded" => choice[a] \in Decided /\ decisions[about[a]] = {}
    /\ \A a \in Answers : at[a] \in Written => choice[a] \in Decided /\ decisions[about[a]] = {choice[a]}

\* What Resolve and Await returned is that decision; only an approval opens the gate.
Returned ==
    /\ \A a \in Answers : answer[a] \in Decided => decisions[about[a]] = {answer[a]}
    /\ \A w \in Waiters : result[w] \in Decided => decisions[on[w]] = {result[w]}
    /\ \A g \in Gates : pc[g] \in {"executing", "ran"} => result[g] = "approved"

IInv == TypeOK /\ HoldsMutex /\ Begun /\ RowsRaised /\ RowsDecided /\ Returned

\* A blocked waiter's channel is in m.waiters, in the hands of a wake, or closed.
Woken(w) == \E a \in Answers : at[a] = "waking" /\ w \in woken[a]
ChannelsKept ==
    /\ \A w \in Waiters : pc[w] \in {"idle", "calling", "registering"} => wake[w] = "none"
    /\ \A w \in Waiters : pc[w] \in Blocked => w \in waiters[on[w]] \/ Woken(w) \/ wake[w] = "closed"
    /\ \A a \in Answers : \A w \in woken[a] :
          /\ at[a] = "waking" /\ on[w] = about[a]
          /\ pc[w] \notin {"idle", "calling", "registering"} /\ w \notin waiters[on[w]]

\* A waiter that waits although its review is resolved is about to be woken.
WakeIsComing ==
    \A w \in Waiters :
        pc[w] = "waiting" /\ Resolved(on[w]) /\ w \in waiters[on[w]]
        => \E a \in Answers : at[a] = "persisted" /\ about[a] = on[w]

WInv == NoWaiterLeaks /\ ChannelsKept /\ WakeIsComing

-----------------------------------------------------------------------------
(* What the steps have in common.                                          *)

\* A read of the store returns the row's status or an error.
LEMMA ReadValue ==
    ASSUME NEW r, NEW v \in Read(r)
    PROVE  v = status[r] \/ v = "error"
  BY DEF Read

\* A step of an Await moves one waiter and leaves the store and every answer alone;
\* what it returns is what it read.
LEMMA AwaitEffect ==
    ASSUME TypeOK, NEW w \in Waiters, AwaitStep(w)
    PROVE  /\ UNCHANGED <<status, expired, resolveMu, on, answerVars, historyVars, deletes>>
           /\ pc[w] \in Blocked \cup {"calling", "registering"}
           /\ \E place \in Blocked \cup {"registering", "returned"} : pc' = [pc EXCEPT ![w] = place]
           /\ \E v \in {result[w], status[on[w]], "error"} : result' = [result EXCEPT ![w] = v]
<1> USE DEF Blocked, Goes, Returns, Leaves, TypeOK
<1>0. result = [result EXCEPT ![w] = result[w]]
  OBVIOUS
<1>1. CASE FastPath(w)
  <2>1. PICK v \in Read(on[w]) :
           IF v = "pending" /\ on[w] \notin expired
               THEN Goes(w, "registering")
               ELSE Returns(w, IF v = "absent" THEN "error" ELSE v)
    BY <1>1 DEF FastPath
  <2>2. v = status[on[w]] \/ v = "error"
    BY <2>1, ReadValue
  <2> QED
    BY <1>0, <1>1, <2>1, <2>2 DEF FastPath
<1>2. CASE Register(w)
  BY <1>0, <1>2 DEF Register
<1>3. CASE Recheck(w)
  <2>1. PICK v \in Read(on[w]) :
           IF v \in Decided \cup {"error"} THEN Leaves(w, v) ELSE Goes(w, "waiting")
    BY <1>3 DEF Recheck
  <2>2. v = status[on[w]] \/ v = "error"
    BY <2>1, ReadValue
  <2> QED
    BY <1>0, <1>3, <2>1, <2>2 DEF Recheck
<1>4. CASE Wakes(w)
  BY <1>0, <1>4 DEF Wakes
<1>5. CASE GivesUp(w)
  BY <1>5 DEF GivesUp
<1>6. CASE ReadBack(w)
  <2>1. PICK v \in Read(on[w]) : Leaves(w, v)
    BY <1>6 DEF ReadBack
  <2>2. v = status[on[w]] \/ v = "error"
    BY <2>1, ReadValue
  <2> QED
    BY <1>6, <2>1, <2>2 DEF ReadBack
<1>7. CASE RemoveWaiter(w)
  BY <1>0, <1>7 DEF RemoveWaiter
<1> QED
  BY <1>1, <1>2, <1>3, <1>4, <1>5, <1>6, <1>7 DEF AwaitStep

\* A step is a step of the waiters, of Resolve, or of neither.
LEMMA Steps ==
    ASSUME [Next]_vars
    PROVE  \/ \E w \in Waiters : AwaitStep(w)
           \/ \E g \in Gates : Gate(g) \/ RunTool(g) \/ \E r \in Reviews : Request(g, r)
           \/ \E h \in Hosts, r \in Reviews : HostAwait(h, r)
           \/ \E a \in Answers, r \in Reviews, d \in Decided \cup {"none"} : Resolve(a, r, d)
           \/ \E a \in Answers : Persist(a) \/ TakeWaiters(a) \/ CloseChannels(a) \/ FireListeners(a)
           \/ \E w \in Waiters : CtxEnds(w)
           \/ \E r \in Reviews : HostRequest(r) \/ Expire(r) \/ DeleteUserData(r)
           \/ UNCHANGED vars
  BY DEF Next, GateStep, ResolveStep

-----------------------------------------------------------------------------
(* The type invariant.                                                     *)

LEMMA TypeInit == Init => TypeOK
  BY ConstantsAssumption DEF Init, TypeOK, Waiters, Places, Blocked, Results, Decided

LEMMA TypeStep ==
    ASSUME IInv, [Next]_vars
    PROVE  TypeOK'
<1> USE DEF TypeOK, Decided, Results, Places, Blocked
<1>0. TypeOK /\ Gates \subseteq Waiters /\ Hosts \subseteq Waiters
  BY DEF IInv, Waiters
<1>1. ASSUME NEW w \in Waiters, AwaitStep(w) PROVE TypeOK'
  <2>1. PICK place \in Blocked \cup {"registering", "returned"} : pc' = [pc EXCEPT ![w] = place]
    BY <1>0, <1>1, AwaitEffect
  <2>2. PICK v \in {result[w], status[on[w]], "error"} : result' = [result EXCEPT ![w] = v]
    BY <1>0, <1>1, AwaitEffect
  <2>3. on[w] \in Reviews
    BY <1>0, <1>1, AwaitEffect DEF IInv, Begun
  <2>4. v \in Results
    BY <1>0, <2>2, <2>3
  <2>5. pc' \in [Waiters -> Places] /\ result' \in [Waiters -> Results]
    BY <1>0, <2>1, <2>2, <2>4
  <2>6. UNCHANGED <<status, expired, resolveMu, on, answerVars, historyVars, deletes>>
    BY <1>0, <1>1, AwaitEffect DEF answerVars, historyVars
  <2>7. waiters' \in [Reviews -> SUBSET Waiters]
    BY <1>0, <1>1, <2>3 DEF AwaitStep, FastPath, Register, Recheck, Wakes, GivesUp, ReadBack, RemoveWaiter
  <2>8. wake' \in [Waiters -> {"none", "open", "closed"}]
    BY <1>0, <1>1 DEF AwaitStep, FastPath, Register, Recheck, Wakes, GivesUp, ReadBack, RemoveWaiter
  <2>9. done' \in [Waiters -> BOOLEAN]
    BY <1>0, <1>1 DEF AwaitStep, FastPath, Register, Recheck, Wakes, GivesUp, ReadBack, RemoveWaiter
  <2>10. armed' \in [Waiters -> BOOLEAN]
    BY <1>0, <1>1, ZenonT(30) DEF AwaitStep, FastPath, Register, Recheck, Wakes, GivesUp, ReadBack, RemoveWaiter
  <2> QED
    BY <1>0, <2>5, <2>6, <2>7, <2>8, <2>9, <2>10 DEF answerVars, historyVars
<1>2. ASSUME NEW g \in Gates, Gate(g) \/ RunTool(g) PROVE TypeOK'
  BY <1>0, <1>2 DEF Gate, RunTool, Goes, answerVars, historyVars
<1>3. ASSUME NEW g \in Gates, NEW r \in Reviews, Request(g, r) PROVE TypeOK'
  <2>1. UNCHANGED <<expired, waiters, wake, resolveMu, done, armed, answerVars, historyVars, deletes>>
    BY <1>3 DEF Request
  <2>2. on' \in [Waiters -> Reviews \cup {NoReview}]
    BY <1>0, <1>3 DEF Request
  <2>3. pc' \in [Waiters -> Places] /\ result' \in [Waiters -> Results]
    BY <1>0, <1>3 DEF Request, Goes, Returns
  <2>4. status' \in [Reviews -> Decided \cup {"absent", "pending"}]
    BY <1>0, <1>3 DEF Request
  <2> QED
    BY <1>0, <2>1, <2>2, <2>3, <2>4 DEF answerVars, historyVars
<1>4. ASSUME NEW h \in Hosts, NEW r \in Reviews, HostAwait(h, r) PROVE TypeOK'
  BY <1>0, <1>4 DEF HostAwait, Goes, answerVars, historyVars
<1>5. ASSUME NEW a \in Answers, NEW r \in Reviews, NEW d \in Decided \cup {"none"}, Resolve(a, r, d)
      PROVE  TypeOK'
  <2>1. /\ at' \in [Answers -> {"idle", "loaded", "persisted", "waking", "telling", "returned"}]
        /\ about' \in [Answers -> Reviews \cup {NoReview}]
    BY <1>0, <1>5 DEF Resolve
  <2>2. /\ choice' \in [Answers -> Decided \cup {"none"}]
        /\ answer' \in [Answers -> Decided \cup {"none", "error"}]
        /\ resolveMu' \in Answers \cup {NoAnswer}
    BY <1>0, <1>5 DEF Resolve
  <2>3. UNCHANGED <<status, expired, waiters, wake, waiterVars, woken, historyVars, deletes>>
    BY <1>5 DEF Resolve
  <2> QED
    BY <1>0, <2>1, <2>2, <2>3 DEF waiterVars, historyVars
<1>6. ASSUME NEW a \in Answers, Persist(a) PROVE TypeOK'
  <2>1. choice[a] \in Decided /\ about[a] \in Reviews
    BY <1>6 DEF IInv, RowsDecided, Begun, Persist
  <2>2. status' \in [Reviews -> Decided \cup {"absent", "pending"}]
    BY <1>0, <1>6, <2>1 DEF Persist
  <2>3. decisions' \in [Reviews -> SUBSET Decided]
    BY <1>0, <1>6, <2>1 DEF Persist
  <2>4. /\ at' \in [Answers -> {"idle", "loaded", "persisted", "waking", "telling", "returned"}]
        /\ answer' \in [Answers -> Decided \cup {"none", "error"}]
        /\ resolveMu' \in Answers \cup {NoAnswer}
    BY <1>0, <1>6 DEF Persist
  <2>5. UNCHANGED <<expired, waiters, wake, pc, on, result, done, armed, about, choice, woken, heard, deletes>>
    BY <1>6 DEF Persist, waiterVars
  <2> QED
    BY <1>0, <2>2, <2>3, <2>4, <2>5
<1>7. ASSUME NEW a \in Answers, TakeWaiters(a) PROVE TypeOK'
  <2>1. about[a] \in Reviews
    BY <1>7 DEF IInv, Begun, TakeWaiters
  <2> QED
    BY <1>0, <1>7, <2>1 DEF TakeWaiters, waiterVars, historyVars
<1>8. ASSUME NEW a \in Answers, CloseChannels(a) PROVE TypeOK'
  BY <1>0, <1>8 DEF CloseChannels, waiterVars, historyVars
<1>9. ASSUME NEW a \in Answers, FireListeners(a) PROVE TypeOK'
  <2>1. about[a] \in Reviews
    BY <1>9 DEF IInv, Begun, FireListeners
  <2> QED
    BY <1>0, <1>9, <2>1 DEF FireListeners, waiterVars
<1>10. ASSUME NEW w \in Waiters, CtxEnds(w) PROVE TypeOK'
  BY <1>0, <1>10 DEF CtxEnds, answerVars, historyVars
<1>11. ASSUME NEW r \in Reviews, HostRequest(r) \/ Expire(r) \/ DeleteUserData(r) PROVE TypeOK'
  BY <1>0, <1>11 DEF HostRequest, Expire, DeleteUserData, waiterVars, answerVars, historyVars
<1>12. CASE UNCHANGED vars
  BY <1>0, <1>12 DEF vars, waiterVars, answerVars, historyVars
<1> QED
  BY <1>1, <1>2, <1>3, <1>4, <1>5, <1>6, <1>7, <1>8, <1>9, <1>10, <1>11, <1>12, Steps

-----------------------------------------------------------------------------
(* One decision, and what follows from it.                                 *)

LEMMA MutexStep ==
    ASSUME IInv, [Next]_vars
    PROVE  HoldsMutex'
<1> USE DEF HoldsMutex, Locked, Written
<1>0. TypeOK /\ HoldsMutex
  BY DEF IInv
<1>1. ASSUME NEW w \in Waiters, AwaitStep(w) PROVE HoldsMutex'
  BY <1>0, <1>1, AwaitEffect DEF answerVars
<1>2. ASSUME NEW a \in Answers, NEW r \in Reviews, NEW d \in Decided \cup {"none"}, Resolve(a, r, d)
      PROVE  HoldsMutex'
  BY <1>0, <1>2, ConstantsAssumption DEF Resolve, TypeOK
<1>3. ASSUME NEW a \in Answers, Persist(a) \/ TakeWaiters(a) \/ CloseChannels(a) \/ FireListeners(a)
      PROVE  HoldsMutex'
  BY <1>0, <1>3 DEF Persist, TakeWaiters, CloseChannels, FireListeners, TypeOK
<1>4. CASE \/ UNCHANGED vars
           \/ \E g \in Gates : Gate(g) \/ RunTool(g) \/ \E r \in Reviews : Request(g, r)
           \/ \E h \in Hosts, r \in Reviews : HostAwait(h, r)
           \/ \E w \in Waiters : CtxEnds(w)
           \/ \E r \in Reviews : HostRequest(r) \/ Expire(r) \/ DeleteUserData(r)
  <2>1. UNCHANGED <<at, resolveMu>>
    BY <1>4 DEF vars, answerVars, Gate, RunTool, Request, HostAwait, CtxEnds, HostRequest, Expire,
                DeleteUserData
  <2> QED
    BY <1>0, <2>1
<1> QED
  BY <1>1, <1>2, <1>3, <1>4, Steps

LEMMA BegunStep ==
    ASSUME IInv, [Next]_vars
    PROVE  Begun'
<1> USE DEF Begun
<1>0. TypeOK /\ Begun /\ Gates \subseteq Waiters /\ Hosts \subseteq Waiters
  BY DEF IInv, Waiters
<1>1. ASSUME NEW w \in Waiters, AwaitStep(w) PROVE Begun'
  <2>1. PICK place \in Blocked \cup {"registering", "returned"} : pc' = [pc EXCEPT ![w] = place]
    BY <1>0, <1>1, AwaitEffect
  <2>2. PICK v : result' = [result EXCEPT ![w] = v]
    BY <1>0, <1>1, AwaitEffect
  <2>3. pc[w] # "idle" /\ place # "idle" /\ UNCHANGED <<on, at, about, answer>>
    BY <1>0, <1>1, AwaitEffect DEF answerVars, Blocked
  <2> QED
    BY <1>0, <2>1, <2>2, <2>3 DEF TypeOK
<1>2. ASSUME NEW g \in Gates, Gate(g) \/ RunTool(g) PROVE Begun'
  BY <1>0, <1>2 DEF Gate, RunTool, Goes, answerVars, TypeOK
<1>3. ASSUME NEW g \in Gates, NEW r \in Reviews, Request(g, r) PROVE Begun'
  BY <1>0, <1>3 DEF Request, Goes, Returns, answerVars, TypeOK
<1>4. ASSUME NEW h \in Hosts, NEW r \in Reviews, HostAwait(h, r) PROVE Begun'
  BY <1>0, <1>4 DEF HostAwait, Goes, answerVars, TypeOK
<1>5. ASSUME NEW a \in Answers, NEW r \in Reviews, NEW d \in Decided \cup {"none"}, Resolve(a, r, d)
      PROVE  Begun'
  BY <1>0, <1>5 DEF Resolve, waiterVars, TypeOK
<1>6. ASSUME NEW a \in Answers, Persist(a) \/ TakeWaiters(a) \/ CloseChannels(a) \/ FireListeners(a)
      PROVE  Begun'
  BY <1>0, <1>6 DEF Persist, TakeWaiters, CloseChannels, FireListeners, waiterVars, TypeOK
<1>7. CASE \/ UNCHANGED vars
           \/ \E w \in Waiters : CtxEnds(w)
           \/ \E r \in Reviews : HostRequest(r) \/ Expire(r) \/ DeleteUserData(r)
  <2>1. UNCHANGED <<pc, on, result, at, about, answer>>
    BY <1>7 DEF vars, waiterVars, answerVars, CtxEnds, HostRequest, Expire, DeleteUserData
  <2> QED
    BY <1>0, <2>1
<1> QED
  BY <1>1, <1>2, <1>3, <1>4, <1>5, <1>6, <1>7, Steps

\* Nothing un-raises a review: a gate keeps the id it was given.
LEMMA RaisedKept ==
    ASSUME IInv, [Next]_vars, NEW r \in Reviews, Raised(r)
    PROVE  Raised(r)'
<1> USE DEF Raised
<1>0. TypeOK /\ Begun /\ Gates \subseteq Waiters /\ Hosts \subseteq Waiters
  BY DEF IInv, Waiters
<1>1. ASSUME NEW g \in Gates, NEW q \in Reviews, Request(g, q) PROVE Raised(r)'
  BY <1>0, <1>1, ConstantsAssumption DEF Request, Begun, TypeOK
<1>2. ASSUME NEW h \in Hosts, NEW q \in Reviews, HostAwait(h, q) PROVE Raised(r)'
  BY <1>0, <1>2, ConstantsAssumption DEF HostAwait, TypeOK
<1>3. ASSUME NEW w \in Waiters, AwaitStep(w) PROVE Raised(r)'
  BY <1>0, <1>3, AwaitEffect
<1>4. CASE \/ UNCHANGED vars
           \/ \E g \in Gates : Gate(g) \/ RunTool(g)
           \/ \E a \in Answers, q \in Reviews, d \in Decided \cup {"none"} : Resolve(a, q, d)
           \/ \E a \in Answers : Persist(a) \/ TakeWaiters(a) \/ CloseChannels(a) \/ FireListeners(a)
           \/ \E w \in Waiters : CtxEnds(w)
           \/ \E q \in Reviews : HostRequest(q) \/ Expire(q) \/ DeleteUserData(q)
  <2>1. UNCHANGED on
    BY <1>4 DEF vars, waiterVars, Gate, RunTool, Resolve, Persist, TakeWaiters, CloseChannels,
                FireListeners, CtxEnds, HostRequest, Expire, DeleteUserData
  <2> QED
    BY <2>1
<1> QED
  BY <1>1, <1>2, <1>3, <1>4, Steps

LEMMA RowsRaisedStep ==
    ASSUME IInv, [Next]_vars
    PROVE  RowsRaised'
<1> USE DEF RowsRaised
<1>0. /\ TypeOK /\ RowsRaised /\ Begun /\ Gates \subseteq Waiters
      /\ \A r \in Reviews : Raised(r) => Raised(r)'
  BY RaisedKept DEF IInv, Waiters
<1>1. ASSUME NEW w \in Waiters, AwaitStep(w) PROVE RowsRaised'
  BY <1>0, <1>1, AwaitEffect DEF Begun, answerVars, historyVars
<1>2. ASSUME NEW g \in Gates, NEW r \in Reviews, Request(g, r) PROVE RowsRaised'
  <2>1. Raised(r)'
    BY <1>0, <1>2 DEF Request, Raised, TypeOK
  <2> QED
    BY <1>0, <1>2, <2>1 DEF Request, Begun, answerVars, historyVars, TypeOK
<1>3. ASSUME NEW a \in Answers, NEW r \in Reviews, NEW d \in Decided \cup {"none"}, Resolve(a, r, d)
      PROVE  RowsRaised'
  <2>1. at'[a] = "loaded" => status[r] = "pending"
    BY <1>0, <1>3, ReadValue DEF Resolve, TypeOK
  <2> QED
    BY <1>0, <1>3, <2>1 DEF Resolve, historyVars, Begun, TypeOK
<1>4. ASSUME NEW a \in Answers, Persist(a) \/ TakeWaiters(a) \/ CloseChannels(a) \/ FireListeners(a)
      PROVE  RowsRaised'
  BY <1>0, <1>4 DEF Persist, TakeWaiters, CloseChannels, FireListeners, historyVars, Begun, TypeOK
<1>5. ASSUME NEW r \in Reviews, HostRequest(r) \/ Expire(r) \/ DeleteUserData(r) PROVE RowsRaised'
  BY <1>0, <1>5 DEF HostRequest, Expire, DeleteUserData, Raised, answerVars, historyVars, Begun, TypeOK
<1>6. CASE \/ UNCHANGED vars
           \/ \E g \in Gates : Gate(g) \/ RunTool(g)
           \/ \E h \in Hosts, r \in Reviews : HostAwait(h, r)
           \/ \E w \in Waiters : CtxEnds(w)
  <2>1. UNCHANGED <<status, decisions, at, about>>
    BY <1>6 DEF vars, answerVars, historyVars, Gate, RunTool, HostAwait, CtxEnds
  <2> QED
    BY <1>0, <2>1 DEF Begun
<1> QED
  BY <1>1, <1>2, <1>3, <1>4, <1>5, <1>6, Steps

LEMMA RowsDecidedStep ==
    ASSUME IInv, [Next]_vars
    PROVE  RowsDecided'
<1> USE DEF RowsDecided, Written
<1>0. TypeOK /\ RowsDecided /\ Begun /\ RowsRaised /\ HoldsMutex
  BY DEF IInv
<1>1. ASSUME NEW w \in Waiters, AwaitStep(w) PROVE RowsDecided'
  BY <1>0, <1>1, AwaitEffect DEF answerVars, historyVars
<1>2. ASSUME NEW g \in Gates, NEW r \in Reviews, Request(g, r) PROVE RowsDecided'
  <2>1. decisions[r] = {}
    BY <1>0, <1>2 DEF Request, RowsRaised, Raised
  <2> QED
    BY <1>0, <1>2, <2>1 DEF Request, answerVars, historyVars, TypeOK, Decided
<1>3. ASSUME NEW a \in Answers, NEW r \in Reviews, NEW d \in Decided \cup {"none"}, Resolve(a, r, d)
      PROVE  RowsDecided'
  <2>1. at'[a] = "loaded" => status[r] = "pending" /\ choice'[a] \in Decided
    BY <1>0, <1>3, ReadValue DEF Resolve, TypeOK
  <2>2. at'[a] \notin Written
    BY <1>0, <1>3 DEF Resolve, TypeOK
  <2> QED
    BY <1>0, <1>3, <2>1, <2>2 DEF Resolve, historyVars, TypeOK
<1>4. ASSUME NEW a \in Answers, Persist(a) PROVE RowsDecided'
  <2>1. choice[a] \in Decided /\ about[a] \in Reviews /\ decisions[about[a]] = {}
    BY <1>0, <1>4 DEF Persist, Begun
  <2>2. \A b \in Answers : at[b] \in Locked => b = a
    BY <1>0, <1>4 DEF Persist, HoldsMutex, Locked
  <2>3. UNCHANGED <<about, choice>>
    BY <1>4 DEF Persist
  <2>4. CASE at' = [at EXCEPT ![a] = "returned"] /\ UNCHANGED <<status, decisions>>
    BY <1>0, <2>3, <2>4 DEF TypeOK
  <2>5. CASE /\ at' = [at EXCEPT ![a] = "persisted"]
             /\ status' = [status EXCEPT ![about[a]] = choice[a]]
             /\ decisions' = [decisions EXCEPT ![about[a]] = @ \cup {choice[a]}]
    <3>1. /\ status'[about[a]] = choice[a] /\ decisions'[about[a]] = {choice[a]}
          /\ \A r \in Reviews : r # about[a] => status'[r] = status[r] /\ decisions'[r] = decisions[r]
      BY <1>0, <2>1, <2>5 DEF TypeOK
    <3>2. at'[a] = "persisted" /\ \A b \in Answers : b # a => at'[b] \notin Locked
      BY <1>0, <2>2, <2>5 DEF Locked, TypeOK
    <3> QED
      BY <1>0, <2>1, <2>3, <3>1, <3>2 DEF Locked, Decided
  <2> QED
    BY <1>4, <2>4, <2>5 DEF Persist
<1>5. ASSUME NEW a \in Answers, TakeWaiters(a) \/ CloseChannels(a) \/ FireListeners(a)
      PROVE  RowsDecided'
  BY <1>0, <1>5 DEF TakeWaiters, CloseChannels, FireListeners, historyVars, TypeOK
<1>6. ASSUME NEW r \in Reviews, HostRequest(r) \/ Expire(r) \/ DeleteUserData(r) PROVE RowsDecided'
  BY <1>0, <1>6 DEF HostRequest, Expire, DeleteUserData, answerVars, historyVars, TypeOK, Decided
<1>7. CASE \/ UNCHANGED vars
           \/ \E g \in Gates : Gate(g) \/ RunTool(g)
           \/ \E h \in Hosts, r \in Reviews : HostAwait(h, r)
           \/ \E w \in Waiters : CtxEnds(w)
  <2>1. UNCHANGED <<status, decisions, at, about, choice>>
    BY <1>7 DEF vars, answerVars, historyVars, Gate, RunTool, HostAwait, CtxEnds
  <2> QED
    BY <1>0, <2>1
<1> QED
  BY <1>1, <1>2, <1>3, <1>4, <1>5, <1>6, <1>7, Steps

\* A decision that was made is never joined by another.
LEMMA DecisionKept ==
    ASSUME IInv, [Next]_vars, NEW r \in Reviews, decisions[r] # {}
    PROVE  decisions'[r] = decisions[r]
<1>0. TypeOK /\ RowsDecided
  BY DEF IInv
<1>1. ASSUME NEW a \in Answers, Persist(a) PROVE decisions'[r] = decisions[r]
  BY <1>0, <1>1 DEF Persist, RowsDecided, TypeOK
<1>2. ASSUME NEW w \in Waiters, AwaitStep(w) PROVE decisions'[r] = decisions[r]
  BY <1>0, <1>2, AwaitEffect DEF historyVars
<1>3. CASE \/ UNCHANGED vars
           \/ \E g \in Gates : Gate(g) \/ RunTool(g) \/ \E q \in Reviews : Request(g, q)
           \/ \E h \in Hosts, q \in Reviews : HostAwait(h, q)
           \/ \E a \in Answers, q \in Reviews, d \in Decided \cup {"none"} : Resolve(a, q, d)
           \/ \E a \in Answers : TakeWaiters(a) \/ CloseChannels(a) \/ FireListeners(a)
           \/ \E w \in Waiters : CtxEnds(w)
           \/ \E q \in Reviews : HostRequest(q) \/ Expire(q) \/ DeleteUserData(q)
  BY <1>3 DEF vars, historyVars, Gate, RunTool, Request, HostAwait, Resolve, TakeWaiters,
              CloseChannels, FireListeners, CtxEnds, HostRequest, Expire, DeleteUserData
<1> QED
  BY <1>1, <1>2, <1>3, Steps

LEMMA ReturnedStep ==
    ASSUME IInv, [Next]_vars
    PROVE  Returned'
<1> USE DEF Returned
<1>0. /\ TypeOK /\ Returned /\ Begun /\ RowsDecided /\ Gates \subseteq Waiters /\ Hosts \subseteq Waiters
      /\ \A r \in Reviews : decisions[r] # {} => decisions'[r] = decisions[r]
  BY DecisionKept DEF IInv, Waiters
<1>1. \A w \in Waiters : result[w] \in Decided => on[w] \in Reviews
  BY <1>0 DEF Begun, Decided
<1>2. \A a \in Answers : answer[a] \in Decided => about[a] \in Reviews
  BY <1>0 DEF Begun, Decided
<1>3. ASSUME NEW w \in Waiters, AwaitStep(w) PROVE Returned'
  <2>1. PICK place \in Blocked \cup {"registering", "returned"} : pc' = [pc EXCEPT ![w] = place]
    BY <1>0, <1>3, AwaitEffect
  <2>2. PICK v \in {result[w], status[on[w]], "error"} : result' = [result EXCEPT ![w] = v]
    BY <1>0, <1>3, AwaitEffect
  <2>3. /\ UNCHANGED <<on, about, answer, decisions>>
        /\ on[w] \in Reviews /\ pc[w] \notin {"idle", "executing", "ran"}
        /\ place \notin {"executing", "ran"}
    BY <1>0, <1>3, AwaitEffect DEF answerVars, historyVars, Blocked, Begun
  <2>4. v \in Decided => decisions[on[w]] = {v}
    BY <1>0, <2>2, <2>3 DEF RowsDecided, Decided
  <2> QED
    BY <1>0, <2>1, <2>2, <2>3, <2>4 DEF TypeOK
<1>4. ASSUME NEW g \in Gates, Gate(g) \/ RunTool(g) PROVE Returned'
  BY <1>0, <1>4 DEF Gate, RunTool, Goes, answerVars, historyVars, TypeOK
<1>5. ASSUME NEW g \in Gates, NEW r \in Reviews, Request(g, r) PROVE Returned'
  BY <1>0, <1>5 DEF Request, Goes, Returns, answerVars, historyVars, TypeOK, Begun, Decided
<1>6. ASSUME NEW h \in Hosts, NEW r \in Reviews, HostAwait(h, r) PROVE Returned'
  BY <1>0, <1>6 DEF HostAwait, Goes, answerVars, historyVars, TypeOK, Begun, Decided
<1>7. ASSUME NEW a \in Answers, NEW r \in Reviews, NEW d \in Decided \cup {"none"}, Resolve(a, r, d)
      PROVE  Returned'
  <2>1. UNCHANGED <<pc, on, result, decisions>>
    BY <1>7 DEF Resolve, waiterVars, historyVars
  <2>2. answer'[a] \in Decided => answer'[a] = status[r] /\ about'[a] = r
    BY <1>0, <1>7, ReadValue DEF Resolve, TypeOK, Decided, Begun
  <2>3. \A b \in Answers \ {a} : answer'[b] = answer[b] /\ about'[b] = about[b]
    BY <1>0, <1>7 DEF Resolve, TypeOK
  <2> QED
    BY <1>0, <2>1, <2>2, <2>3 DEF RowsDecided
<1>8. ASSUME NEW a \in Answers, Persist(a) PROVE Returned'
  <2>1. UNCHANGED <<pc, on, result, about>>
    BY <1>8 DEF Persist, waiterVars
  <2>2. \A b \in Answers : answer'[b] = answer[b] \/ answer'[b] = "error"
    BY <1>0, <1>8 DEF Persist, TypeOK
  <2> QED
    BY <1>0, <1>1, <1>2, <2>1, <2>2 DEF Decided
<1>9. ASSUME NEW a \in Answers, FireListeners(a) PROVE Returned'
  <2>1. UNCHANGED <<pc, on, result, about, decisions>>
    BY <1>9 DEF FireListeners, waiterVars
  <2>2. answer' = [answer EXCEPT ![a] = choice[a]] /\ decisions[about[a]] = {choice[a]}
    BY <1>0, <1>9 DEF FireListeners, RowsDecided, Written
  <2> QED
    BY <1>0, <2>1, <2>2 DEF TypeOK
<1>10. CASE \/ UNCHANGED vars
            \/ \E a \in Answers : TakeWaiters(a) \/ CloseChannels(a)
            \/ \E w \in Waiters : CtxEnds(w)
            \/ \E r \in Reviews : HostRequest(r) \/ Expire(r) \/ DeleteUserData(r)
  <2>1. UNCHANGED <<pc, on, result, about, answer, decisions>>
    BY <1>10 DEF vars, waiterVars, answerVars, historyVars, TakeWaiters, CloseChannels, CtxEnds,
                 HostRequest, Expire, DeleteUserData
  <2> QED
    BY <1>0, <2>1
<1> QED
  BY <1>3, <1>4, <1>5, <1>6, <1>7, <1>8, <1>9, <1>10, Steps

LEMMA Inductive ==
    /\ Init => IInv
    /\ IInv /\ [Next]_vars => IInv'
<1>1. Init => IInv
  <2>1. ASSUME Init PROVE HoldsMutex /\ Begun /\ RowsRaised /\ RowsDecided /\ Returned
    BY <2>1 DEF Init, HoldsMutex, Begun, RowsRaised, RowsDecided, Returned, Decided, Locked, Written, Waiters
  <2> QED
    BY <2>1, TypeInit DEF IInv
<1>2. ASSUME IInv, [Next]_vars PROVE IInv'
  BY <1>2, TypeStep, MutexStep, BegunStep, RowsRaisedStep, RowsDecidedStep, ReturnedStep DEF IInv
<1> QED
  BY <1>1, <1>2

\* Every variable keeps its type.
THEOREM TypeCorrect == Spec => []TypeOK
<1>1. IInv => TypeOK
  BY DEF IInv
<1> QED
  BY <1>1, Inductive, PTL DEF Spec

\* However many answers race, one decision is stored and everybody returns that one.
THEOREM FirstAnswerWins == Spec => []OneDecision
<1>1. IInv => OneDecision
  BY DEF IInv, RowsDecided, Returned, OneDecision
<1> QED
  BY <1>1, Inductive, PTL DEF Spec

\* The gate fails closed: a tool that runs was approved and never rejected.
THEOREM GateFailsClosed == Spec => []FailsClosed
<1>1. IInv => FailsClosed
  BY DEF IInv, Returned, FailsClosed, Waiters, Decided
<1> QED
  BY <1>1, Inductive, PTL DEF Spec

LEMMA HeardStep ==
    ASSUME IInv, HeardOnce, [Next]_vars
    PROVE  HeardOnce'
<1> USE DEF HeardOnce, Written
<1>0. TypeOK /\ HoldsMutex /\ RowsDecided /\ \A a \in Answers : at[a] # "idle" => about[a] \in Reviews
  BY DEF IInv, Begun
<1>1. ASSUME UNCHANGED <<heard, decisions>>,
             \A a \in Answers : \/ at'[a] = at[a] /\ about'[a] = about[a]
                                \/ at[a] \in Written /\ at'[a] \in Written /\ about'[a] = about[a]
                                \/ at[a] \notin Written /\ at'[a] \notin Written
      PROVE  HeardOnce'
  BY <1>1
<1>2. ASSUME NEW w \in Waiters, AwaitStep(w) PROVE HeardOnce'
  BY <1>0, <1>1, <1>2, AwaitEffect DEF answerVars, historyVars
<1>3. ASSUME NEW a \in Answers, NEW r \in Reviews, NEW d \in Decided \cup {"none"}, Resolve(a, r, d)
      PROVE  HeardOnce'
  BY <1>0, <1>1, <1>3 DEF Resolve, TypeOK, historyVars
<1>4. ASSUME NEW a \in Answers, Persist(a) PROVE HeardOnce'
  <2>0. about[a] \in Reviews /\ at[a] = "loaded" /\ \A b \in Answers : b # a => at[b] \notin Written
    BY <1>0, <1>4 DEF Persist, HoldsMutex, Locked
  <2>1. CASE at' = [at EXCEPT ![a] = "returned"] /\ UNCHANGED decisions
    BY <1>0, <1>4, <2>0, <2>1 DEF Persist, TypeOK
  <2>2. CASE /\ decisions' = [decisions EXCEPT ![about[a]] = @ \cup {choice[a]}]
             /\ at' = [at EXCEPT ![a] = "persisted"]
    <3>1. UNCHANGED <<heard, about>> /\ heard[about[a]] = 0
      <4>1. decisions[about[a]] = {}
        BY <1>0, <2>0 DEF RowsDecided
      <4> QED  BY <1>4, <2>0, <4>1 DEF Persist
    <3>2. decisions'[about[a]] # {} /\ at'[a] = "persisted"
      BY <1>0, <2>0, <2>2 DEF TypeOK
    <3>3. \A r \in Reviews : r # about[a] => decisions'[r] = decisions[r]
      BY <1>0, <2>2 DEF TypeOK
    <3>4. \A b \in Answers : b # a => at'[b] = at[b]
      BY <1>0, <2>2 DEF TypeOK
    <3> QED
      BY <2>0, <3>1, <3>2, <3>3, <3>4
  <2> QED
    BY <1>4, <2>1, <2>2 DEF Persist
<1>5. ASSUME NEW a \in Answers, TakeWaiters(a) \/ CloseChannels(a) PROVE HeardOnce'
  <2>1. /\ UNCHANGED <<decisions, heard, about>>
        /\ at[a] \in {"persisted", "waking"}
        /\ \/ at' = [at EXCEPT ![a] = "waking"]
           \/ at' = [at EXCEPT ![a] = "telling"]
    BY <1>5 DEF TakeWaiters, CloseChannels, historyVars
  <2>2. /\ \A b \in Answers : b # a => at'[b] = at[b]
        /\ at'[a] \in {"waking", "telling"}
    BY <1>0, <2>1 DEF TypeOK
  <2> QED
    BY <1>0, <1>1, <2>1, <2>2
<1>6. ASSUME NEW a \in Answers, FireListeners(a) PROVE HeardOnce'
  <2>1. about[a] \in Reviews /\ \A b \in Answers : b # a => at[b] \notin Written
    BY <1>0, <1>6 DEF FireListeners, HoldsMutex, Locked
  <2>2. decisions[about[a]] # {} /\ heard[about[a]] = 0
    BY <1>0, <1>6, <2>1 DEF FireListeners, RowsDecided
  <2>3. /\ heard' = [heard EXCEPT ![about[a]] = @ + 1]
        /\ at' = [at EXCEPT ![a] = "returned"] /\ UNCHANGED <<about, decisions>>
    BY <1>6 DEF FireListeners
  <2> QED
    BY <1>0, <2>1, <2>2, <2>3 DEF TypeOK
<1>7. CASE \/ UNCHANGED vars
           \/ \E g \in Gates : Gate(g) \/ RunTool(g) \/ \E r \in Reviews : Request(g, r)
           \/ \E h \in Hosts, r \in Reviews : HostAwait(h, r)
           \/ \E w \in Waiters : CtxEnds(w)
           \/ \E r \in Reviews : HostRequest(r) \/ Expire(r) \/ DeleteUserData(r)
  <2>1. UNCHANGED <<at, about, heard, decisions>>
    BY <1>7 DEF vars, answerVars, historyVars, Gate, RunTool, Request, HostAwait, CtxEnds, HostRequest,
                Expire, DeleteUserData
  <2> QED
    BY <1>1, <2>1
<1> QED
  BY <1>2, <1>3, <1>4, <1>5, <1>6, <1>7, Steps

\* The listeners hear of every decision once, and of no repeated answer (Resolve).
THEOREM ListenersHearOnce == Spec => []HeardOnce
<1>1. Init => HeardOnce
  BY DEF Init, HeardOnce
<1>2. IInv /\ HeardOnce /\ [Next]_vars => HeardOnce'
  BY HeardStep
<1> QED
  BY <1>1, <1>2, Inductive, PTL DEF Spec

-----------------------------------------------------------------------------
(* No channel is left behind and no wake-up is lost.                       *)

LEMMA LeakStep ==
    ASSUME IInv, WInv, [Next]_vars
    PROVE  NoWaiterLeaks'
<1> USE DEF NoWaiterLeaks, Blocked
<1>0. /\ TypeOK /\ Begun /\ NoWaiterLeaks /\ ChannelsKept
      /\ Gates \subseteq Waiters /\ Hosts \subseteq Waiters
  BY DEF IInv, WInv, Waiters
<1>1. ASSUME NEW w \in Waiters, AwaitStep(w) PROVE NoWaiterLeaks'
  <2>1. CASE FastPath(w)
    BY <1>0, <2>1 DEF FastPath, Goes, Returns, TypeOK
  <2>2. CASE Register(w)
    BY <1>0, <2>2 DEF Register, Goes, TypeOK
  <2>3. CASE Recheck(w)
    BY <1>0, <2>3 DEF Recheck, Goes, Leaves, TypeOK
  <2>4. CASE Wakes(w) \/ GivesUp(w) \/ ReadBack(w)
    BY <1>0, <2>4 DEF Wakes, GivesUp, ReadBack, Goes, Leaves, TypeOK
  <2>5. CASE RemoveWaiter(w)
    BY <1>0, <2>5 DEF RemoveWaiter, Goes, TypeOK
  <2> QED
    BY <1>1, <2>1, <2>2, <2>3, <2>4, <2>5 DEF AwaitStep
<1>2. ASSUME NEW g \in Gates, Gate(g) \/ RunTool(g) PROVE NoWaiterLeaks'
  BY <1>0, <1>2 DEF Gate, RunTool, Goes, TypeOK
<1>3. ASSUME NEW w \in Waiters, NEW r \in Reviews, Request(w, r) \/ HostAwait(w, r)
      PROVE  NoWaiterLeaks'
  BY <1>0, <1>3 DEF Request, HostAwait, Goes, Returns, TypeOK
<1>4. ASSUME NEW a \in Answers, NEW r \in Reviews, NEW d \in Decided \cup {"none"}, Resolve(a, r, d)
      PROVE  NoWaiterLeaks'
  BY <1>0, <1>4 DEF Resolve, waiterVars
<1>5. ASSUME NEW a \in Answers, Persist(a) \/ TakeWaiters(a) \/ FireListeners(a) PROVE NoWaiterLeaks'
  <2>1. UNCHANGED <<wake, pc, on>>
    BY <1>5 DEF Persist, TakeWaiters, FireListeners, waiterVars
  <2>2. \A r \in Reviews : waiters'[r] \subseteq waiters[r]
    <3>1. UNCHANGED waiters \/ waiters' = [waiters EXCEPT ![about[a]] = {}]
      BY <1>5 DEF Persist, TakeWaiters, FireListeners
    <3> QED  BY <1>0, <3>1 DEF TypeOK
  <2> QED
    BY <1>0, <2>1, <2>2
<1>6. ASSUME NEW a \in Answers, CloseChannels(a) PROVE NoWaiterLeaks'
  BY <1>0, <1>6 DEF CloseChannels, ChannelsKept, waiterVars, TypeOK
<1>7. CASE \/ UNCHANGED vars
           \/ \E w \in Waiters : CtxEnds(w)
           \/ \E r \in Reviews : HostRequest(r) \/ Expire(r) \/ DeleteUserData(r)
  <2>1. UNCHANGED <<waiters, wake, pc, on>>
    BY <1>7 DEF vars, waiterVars, CtxEnds, HostRequest, Expire, DeleteUserData
  <2> QED
    BY <1>0, <2>1
<1> QED
  BY <1>0, <1>1, <1>2, <1>3, <1>4, <1>5, <1>6, <1>7, Steps

LEMMA ChannelsStep ==
    ASSUME IInv, WInv, [Next]_vars
    PROVE  ChannelsKept'
<1> USE DEF ChannelsKept, Woken, Blocked
<1>0. /\ TypeOK /\ Begun /\ NoWaiterLeaks /\ ChannelsKept
      /\ Gates \subseteq Waiters /\ Hosts \subseteq Waiters
  BY DEF IInv, WInv, Waiters
<1>1. ASSUME NEW w \in Waiters, AwaitStep(w) PROVE ChannelsKept'
  <2>0. UNCHANGED <<on, at, about, woken>> /\ on[w] \in Reviews
    BY <1>0, <1>1, AwaitEffect DEF answerVars, Begun
  <2>1. CASE FastPath(w)
    BY <1>0, <2>0, <2>1 DEF FastPath, Goes, Returns, TypeOK
  <2>2. CASE Register(w)
    BY <1>0, <2>0, <2>2 DEF Register, Goes, TypeOK
  <2>3. CASE Recheck(w)
    BY <1>0, <2>0, <2>3 DEF Recheck, Goes, Leaves, TypeOK
  <2>4. CASE Wakes(w) \/ GivesUp(w) \/ ReadBack(w)
    BY <1>0, <2>0, <2>4 DEF Wakes, GivesUp, ReadBack, Goes, Leaves, TypeOK
  <2>5. CASE RemoveWaiter(w)
    BY <1>0, <2>0, <2>5 DEF RemoveWaiter, Goes, TypeOK
  <2> QED
    BY <1>1, <2>1, <2>2, <2>3, <2>4, <2>5 DEF AwaitStep
<1>2. ASSUME NEW g \in Gates, Gate(g) \/ RunTool(g) PROVE ChannelsKept'
  BY <1>0, <1>2 DEF Gate, RunTool, Goes, answerVars, TypeOK
<1>3. ASSUME NEW w \in Waiters, NEW r \in Reviews, Request(w, r) \/ HostAwait(w, r)
      PROVE  ChannelsKept'
  <2>1. /\ pc[w] = "idle" /\ UNCHANGED <<waiters, wake, at, about, woken>>
        /\ on' = [on EXCEPT ![w] = r]
        /\ pc' = [pc EXCEPT ![w] = "calling"] \/ pc' = [pc EXCEPT ![w] = "returned"]
    BY <1>3 DEF Request, HostAwait, Goes, Returns, answerVars
  <2>2. \A w2 \in Waiters : w2 # w => pc'[w2] = pc[w2] /\ on'[w2] = on[w2]
    BY <1>0, <2>1 DEF TypeOK
  <2>3. pc'[w] \in {"calling", "returned"} /\ wake[w] = "none" /\ \A a \in Answers : w \notin woken[a]
    BY <1>0, <2>1 DEF TypeOK
  <2>4. \A w2 \in Waiters : Woken(w2) => Woken(w2)'
    BY <2>1
  <2>5. (\A w2 \in Waiters : pc[w2] \in {"idle", "calling", "registering"} => wake[w2] = "none")'
    BY <1>0, <2>1, <2>2, <2>3
  <2>6. (\A w2 \in Waiters : pc[w2] \in Blocked => w2 \in waiters[on[w2]] \/ Woken(w2) \/ wake[w2] = "closed")'
    BY <1>0, <2>1, <2>2, <2>3
  <2>7. \A a \in Answers : \A w2 \in woken[a] : w2 \in Waiters /\ w2 # w
    BY <1>0, <2>3 DEF TypeOK
  <2> QED
    BY <1>0, <2>1, <2>2, <2>5, <2>6, <2>7
<1>4. ASSUME NEW a \in Answers, NEW r \in Reviews, NEW d \in Decided \cup {"none"}, Resolve(a, r, d)
      PROVE  ChannelsKept'
  BY <1>0, <1>4 DEF Resolve, waiterVars, TypeOK
<1>5. ASSUME NEW a \in Answers, Persist(a) \/ FireListeners(a) PROVE ChannelsKept'
  BY <1>0, <1>5 DEF Persist, FireListeners, waiterVars, TypeOK
<1>6. ASSUME NEW a \in Answers, TakeWaiters(a) PROVE ChannelsKept'
  <2>0. about[a] \in Reviews
    BY <1>0, <1>6 DEF TakeWaiters, Begun
  <2> QED
    BY <1>0, <1>6, <2>0 DEF TakeWaiters, waiterVars, NoWaiterLeaks, TypeOK
<1>7. ASSUME NEW a \in Answers, CloseChannels(a) PROVE ChannelsKept'
  BY <1>0, <1>7 DEF CloseChannels, waiterVars, TypeOK
<1>8. CASE \/ UNCHANGED vars
           \/ \E w \in Waiters : CtxEnds(w)
           \/ \E r \in Reviews : HostRequest(r) \/ Expire(r) \/ DeleteUserData(r)
  <2>1. UNCHANGED <<waiters, wake, pc, on, at, about, woken>>
    BY <1>8 DEF vars, waiterVars, answerVars, CtxEnds, HostRequest, Expire, DeleteUserData
  <2> QED
    BY <1>0, <2>1
<1> QED
  BY <1>0, <1>1, <1>2, <1>3, <1>4, <1>5, <1>6, <1>7, <1>8, Steps

LEMMA ComingStep ==
    ASSUME IInv, WInv, [Next]_vars
    PROVE  WakeIsComing'
<1> USE DEF WakeIsComing, Resolved
<1>0. /\ TypeOK /\ Begun /\ RowsDecided /\ NoWaiterLeaks /\ ChannelsKept /\ WakeIsComing
      /\ Gates \subseteq Waiters /\ Hosts \subseteq Waiters
  BY DEF IInv, WInv, Waiters
<1>1. ASSUME NEW w \in Waiters, AwaitStep(w) PROVE WakeIsComing'
  <2>0. UNCHANGED <<status, on, at, about>> /\ on[w] \in Reviews
    BY <1>0, <1>1, AwaitEffect DEF answerVars, Begun, Blocked
  <2>1. CASE FastPath(w) \/ Register(w) \/ Wakes(w) \/ GivesUp(w) \/ ReadBack(w) \/ RemoveWaiter(w)
    <3>1. /\ pc'[w] # "waiting"
          /\ \A w2 \in Waiters : w2 # w => pc'[w2] = pc[w2]
      BY <1>0, <2>1 DEF FastPath, Register, Wakes, GivesUp, ReadBack, RemoveWaiter, Goes,
                        Returns, Leaves, TypeOK
    <3>2. \/ waiters' = waiters
          \/ waiters' = [waiters EXCEPT ![on[w]] = @ \cup {w}]
          \/ waiters' = [waiters EXCEPT ![on[w]] = @ \ {w}]
      BY <2>1 DEF FastPath, Register, Wakes, GivesUp, ReadBack, RemoveWaiter
    <3>3. \A w2 \in Waiters : pc[w2] = "waiting" => on[w2] \in Reviews
      BY <1>0 DEF Begun
    <3>4. \A w2 \in Waiters : w2 # w /\ pc[w2] = "waiting" /\ w2 \in waiters'[on[w2]] => w2 \in waiters[on[w2]]
      BY <1>0, <3>2, <3>3 DEF TypeOK
    <3> QED
      BY <1>0, <2>0, <3>1, <3>4
  <2>2. CASE Recheck(w)
    <3>1. pc'[w] = "waiting" => ~Resolved(on[w])
      BY <1>0, <2>2, ReadValue DEF Recheck, Goes, Leaves, TypeOK
    <3> QED
      BY <1>0, <2>0, <2>2, <3>1 DEF Recheck, Goes, Leaves, TypeOK
  <2> QED
    BY <1>1, <2>1, <2>2 DEF AwaitStep
<1>2. ASSUME NEW g \in Gates, Gate(g) \/ RunTool(g) PROVE WakeIsComing'
  BY <1>0, <1>2 DEF Gate, RunTool, Goes, answerVars, TypeOK
<1>3. ASSUME NEW w \in Waiters, NEW r \in Reviews, Request(w, r) \/ HostAwait(w, r)
      PROVE  WakeIsComing'
  <2>1. /\ UNCHANGED <<waiters, at, about>> /\ on' = [on EXCEPT ![w] = r]
        /\ pc' = [pc EXCEPT ![w] = "calling"] \/ pc' = [pc EXCEPT ![w] = "returned"]
        /\ status' = status \/ status' = [status EXCEPT ![r] = "pending"]
    BY <1>3 DEF Request, HostAwait, Goes, Returns, answerVars
  <2>2. pc'[w] # "waiting" /\ \A w2 \in Waiters : w2 # w => pc'[w2] = pc[w2] /\ on'[w2] = on[w2]
    BY <1>0, <2>1 DEF TypeOK
  <2>3. \A w2 \in Waiters : w2 # w /\ pc[w2] = "waiting" => on[w2] \in Reviews
    BY <1>0 DEF Begun
  <2>4. \A r2 \in Reviews : status'[r2] \in Decided => status[r2] \in Decided
    BY <1>0, <2>1 DEF TypeOK, Decided
  <2> QED
    BY <1>0, <2>1, <2>2, <2>3, <2>4
<1>4. ASSUME NEW a \in Answers, NEW r \in Reviews, NEW d \in Decided \cup {"none"}, Resolve(a, r, d)
      PROVE  WakeIsComing'
  BY <1>0, <1>4 DEF Resolve, waiterVars, TypeOK
<1>5. ASSUME NEW a \in Answers, Persist(a) PROVE WakeIsComing'
  <2>1. at[a] = "loaded" /\ UNCHANGED <<waiters, pc, on, about>>
    BY <1>5 DEF Persist, waiterVars
  <2>2. \/ at' = [at EXCEPT ![a] = "persisted"] /\ status' = [status EXCEPT ![about[a]] = choice[a]]
        \/ at' = [at EXCEPT ![a] = "returned"] /\ status' = status
    BY <1>5 DEF Persist
  <2>3. \A a2 \in Answers : at[a2] = "persisted" => at'[a2] = "persisted"
    BY <1>0, <2>1, <2>2 DEF TypeOK
  <2>4. ASSUME NEW w \in Waiters, pc[w] = "waiting", status'[on[w]] \in Decided, w \in waiters[on[w]]
        PROVE  \E a2 \in Answers : at'[a2] = "persisted" /\ about[a2] = on[w]
    <3>1. on[w] \in Reviews
      BY <1>0, <2>4 DEF Begun
    <3>2. CASE status[on[w]] \in Decided
      BY <1>0, <2>3, <2>4, <3>2
    <3>3. CASE status[on[w]] \notin Decided
      <4>1. about[a] = on[w] /\ at'[a] = "persisted"
        BY <1>0, <2>2, <2>4, <3>1, <3>3 DEF TypeOK
      <4> QED
        BY <4>1
    <3> QED
      BY <3>2, <3>3
  <2> QED
    BY <2>1, <2>4
<1>6. ASSUME NEW a \in Answers, TakeWaiters(a) PROVE WakeIsComing'
  <2>0. about[a] \in Reviews
    BY <1>0, <1>6 DEF TakeWaiters, Begun
  <2> QED
    BY <1>0, <1>6, <2>0 DEF TakeWaiters, waiterVars, TypeOK
<1>7. ASSUME NEW a \in Answers, CloseChannels(a) \/ FireListeners(a) PROVE WakeIsComing'
  BY <1>0, <1>7 DEF CloseChannels, FireListeners, waiterVars, TypeOK
<1>8. ASSUME NEW r \in Reviews, HostRequest(r) \/ Expire(r) \/ DeleteUserData(r) PROVE WakeIsComing'
  <2>1. /\ UNCHANGED <<waiters, pc, on, at, about>>
        /\ \/ status' = status
           \/ status' = [status EXCEPT ![r] = "pending"]
           \/ status' = [status EXCEPT ![r] = "absent"]
    BY <1>8 DEF HostRequest, Expire, DeleteUserData, waiterVars, answerVars
  <2>2. \A r2 \in Reviews : status'[r2] \in Decided => status[r2] \in Decided
    BY <1>0, <2>1 DEF TypeOK, Decided
  <2>3. \A w \in Waiters : pc[w] = "waiting" => on[w] \in Reviews
    BY <1>0 DEF Begun
  <2> QED
    BY <1>0, <2>1, <2>2, <2>3
<1>9. CASE UNCHANGED vars \/ \E w \in Waiters : CtxEnds(w)
  <2>1. UNCHANGED <<status, waiters, pc, on, at, about>>
    BY <1>9 DEF vars, waiterVars, answerVars, CtxEnds
  <2> QED
    BY <1>0, <2>1
<1> QED
  BY <1>0, <1>1, <1>2, <1>3, <1>4, <1>5, <1>6, <1>7, <1>8, <1>9, Steps

LEMMA WakeInductive ==
    /\ Init => IInv /\ WInv
    /\ IInv /\ WInv /\ [Next]_vars => IInv' /\ WInv'
<1>1. Init => WInv
  BY DEF Init, WInv, NoWaiterLeaks, ChannelsKept, WakeIsComing, Blocked
<1>2. ASSUME IInv, WInv, [Next]_vars PROVE WInv'
  BY <1>2, LeakStep, ChannelsStep, ComingStep DEF WInv
<1> QED
  BY <1>1, <1>2, Inductive

\* Nobody waits on a decided review without a wake-up that was sent or is being sent.
THEOREM NoWakeupLost == Spec => []NoLostWakeup
<1>1. ASSUME IInv, WInv PROVE NoLostWakeup
  <2> SUFFICES ASSUME NEW w \in Waiters, pc[w] = "waiting", Resolved(on[w]),
                      \A a \in Answers : about[a] = on[w] => at[a] \in {"idle", "returned"}
               PROVE  wake[w] = "closed"
    BY DEF NoLostWakeup
  <2>1. w \in waiters[on[w]] \/ Woken(w) \/ wake[w] = "closed"
    BY <1>1 DEF WInv, ChannelsKept, Blocked
  <2>2. w \notin waiters[on[w]]
    BY <1>1 DEF WInv, WakeIsComing
  <2>3. ~Woken(w)
    BY <1>1 DEF WInv, ChannelsKept, Woken
  <2> QED
    BY <2>1, <2>2, <2>3
<1> QED
  BY <1>1, WakeInductive, PTL DEF Spec

\* An Await that has returned leaves no channel in m.waiters.
THEOREM NoChannelLeaks == Spec => []NoWaiterLeaks
<1>1. WInv => NoWaiterLeaks
  BY DEF WInv
<1> QED
  BY <1>1, WakeInductive, PTL DEF Spec

-----------------------------------------------------------------------------
(* The refinement of ReviewContract.                                       *)

\* Two tool calls never have the same review, ...
OwnReview == \A g, h \in Gates : on[g] = on[h] /\ on[g] # NoReview => g = h

\* ... and a call that is still on its way has been told nothing.
Untold ==
    /\ \A w \in Waiters : pc[w] \in (Blocked \ {"leaving"}) \cup {"calling", "registering"}
                              => result[w] \notin Decided
    /\ \A a \in Answers : at[a] # "returned" => answer[a] = "none"

CInv == IInv /\ HeardOnce /\ OwnReview /\ Untold

LEMMA OwnReviewStep == ASSUME IInv, OwnReview, [Next]_vars PROVE OwnReview'
<1> USE DEF OwnReview
<1>0. TypeOK /\ Gates \subseteq Waiters /\ Hosts \subseteq Waiters
  BY DEF IInv, Waiters
<1>1. ASSUME NEW g \in Gates, NEW r \in Reviews, Request(g, r) PROVE OwnReview'
  BY <1>0, <1>1 DEF Request, TypeOK
<1>2. ASSUME NEW h \in Hosts, NEW r \in Reviews, HostAwait(h, r) PROVE OwnReview'
  BY <1>0, <1>2, ConstantsAssumption DEF HostAwait, TypeOK
<1>3. ASSUME NEW w \in Waiters, AwaitStep(w) PROVE OwnReview'
  BY <1>0, <1>3, AwaitEffect
<1>4. CASE \/ UNCHANGED vars
           \/ \E g \in Gates : Gate(g) \/ RunTool(g)
           \/ \E a \in Answers, r \in Reviews, d \in Decided \cup {"none"} : Resolve(a, r, d)
           \/ \E a \in Answers : Persist(a) \/ TakeWaiters(a) \/ CloseChannels(a) \/ FireListeners(a)
           \/ \E w \in Waiters : CtxEnds(w)
           \/ \E r \in Reviews : HostRequest(r) \/ Expire(r) \/ DeleteUserData(r)
  <2>1. UNCHANGED on
    BY <1>4 DEF vars, waiterVars, Gate, RunTool, Resolve, Persist, TakeWaiters, CloseChannels,
                FireListeners, CtxEnds, HostRequest, Expire, DeleteUserData
  <2> QED
    BY <2>1
<1> QED
  BY <1>1, <1>2, <1>3, <1>4, Steps

LEMMA UntoldStep == ASSUME IInv, Untold, [Next]_vars PROVE Untold'
<1> USE DEF Untold, Blocked
<1>0. TypeOK /\ Begun /\ Gates \subseteq Waiters /\ Hosts \subseteq Waiters
  BY DEF IInv, Waiters
<1>1. ASSUME NEW w \in Waiters, AwaitStep(w) PROVE Untold'
  <2>1. UNCHANGED <<at, answer>> /\ \A v \in Waiters \ {w} : pc'[v] = pc[v] /\ result'[v] = result[v]
    BY <1>0, <1>1, AwaitEffect DEF TypeOK, answerVars
  <2>2. CASE result'[w] = result[w]
    <3>1. pc[w] \in (Blocked \ {"leaving"}) \cup {"calling", "registering"} \/ pc'[w] = "returned"
      BY <1>0, <1>1 DEF AwaitStep, FastPath, Register, Recheck, Wakes, GivesUp, ReadBack, RemoveWaiter, Goes, TypeOK
    <3> QED
      BY <2>1, <2>2, <3>1
  <2>3. CASE pc'[w] \in {"leaving", "returned"}
    BY <2>1, <2>3
  <2>4. result'[w] = result[w] \/ pc'[w] \in {"leaving", "returned"}
    BY <1>0, <1>1 DEF AwaitStep, FastPath, Register, Recheck, Wakes, GivesUp, ReadBack, RemoveWaiter,
                      Goes, Leaves, Returns, TypeOK
  <2> QED
    BY <2>2, <2>3, <2>4
<1>2. ASSUME NEW g \in Gates, Gate(g) \/ RunTool(g) PROVE Untold'
  BY <1>0, <1>2 DEF Gate, RunTool, Goes, answerVars, TypeOK
<1>3. ASSUME NEW g \in Gates, NEW r \in Reviews, Request(g, r) PROVE Untold'
  BY <1>0, <1>3 DEF Request, Goes, Returns, answerVars, TypeOK, Begun, Decided
<1>4. ASSUME NEW h \in Hosts, NEW r \in Reviews, HostAwait(h, r) PROVE Untold'
  BY <1>0, <1>4 DEF HostAwait, Goes, answerVars, TypeOK, Begun, Decided
<1>5. ASSUME NEW a \in Answers, NEW r \in Reviews, NEW d \in Decided \cup {"none"}, Resolve(a, r, d)
      PROVE  Untold'
  BY <1>0, <1>5 DEF Resolve, waiterVars, TypeOK
<1>6. ASSUME NEW a \in Answers, Persist(a) \/ TakeWaiters(a) \/ CloseChannels(a) \/ FireListeners(a)
      PROVE  Untold'
  BY <1>0, <1>6 DEF Persist, TakeWaiters, CloseChannels, FireListeners, waiterVars, TypeOK
<1>7. CASE \/ UNCHANGED vars
           \/ \E w \in Waiters : CtxEnds(w)
           \/ \E r \in Reviews : HostRequest(r) \/ Expire(r) \/ DeleteUserData(r)
  <2>1. UNCHANGED <<pc, result, at, answer>>
    BY <1>7 DEF vars, waiterVars, answerVars, CtxEnds, HostRequest, Expire, DeleteUserData
  <2> QED
    BY <2>1
<1> QED
  BY <1>1, <1>2, <1>3, <1>4, <1>5, <1>6, <1>7, Steps

\* What the mapping shows, as values of the variables of the contract.
ToldFn     == [w \in Waiters |-> Told(w)]
AnsweredFn == [a \in Answers |-> Answered(a)]
Shown      == <<status, decisions, heard, ToldFn, AnsweredFn, Opened>>

LEMMA Unseen ==
    ASSUME UNCHANGED <<status, decisions, heard, on, result, pc, about, answer>>
    PROVE  UNCHANGED Shown
  BY DEF Shown, ToldFn, AnsweredFn, Told, Answered, Opened

\* A step of the contract, or one that it does not see.
Step == Contract!Next \/ UNCHANGED Shown

\* Await: the waiter is told the decision it read, or nothing.
LEMMA MapAwait == ASSUME CInv, NEW w \in Waiters, AwaitStep(w) PROVE Step
<1>0. TypeOK /\ Begun /\ RowsDecided /\ Untold
  BY DEF CInv, IInv
<1>1. /\ UNCHANGED <<status, on, at, about, answer, decisions, heard>> /\ on[w] \in Reviews
      /\ pc[w] \notin {"executing", "ran"}
  BY <1>0, AwaitEffect DEF answerVars, historyVars, Blocked, Begun
<1>2. PICK place \in Blocked \cup {"registering", "returned"} : pc' = [pc EXCEPT ![w] = place]
  BY <1>0, AwaitEffect
<1>3. PICK v \in {result[w], status[on[w]], "error"} : result' = [result EXCEPT ![w] = v]
  BY <1>0, AwaitEffect
<1>4. UNCHANGED Opened
  BY <1>0, <1>1, <1>2 DEF Opened, TypeOK, Blocked
<1>5. UNCHANGED AnsweredFn
  BY <1>1 DEF AnsweredFn, Answered
<1>6. \A u \in Waiters \ {w} : Told(u)' = Told(u)
  BY <1>0, <1>1, <1>3 DEF Told, TypeOK
<1>7. CASE Told(w)' = Told(w)
  <2>1. UNCHANGED ToldFn
    BY <1>6, <1>7 DEF ToldFn
  <2> QED
    BY <1>1, <1>4, <1>5, <2>1 DEF Shown, Step
<1>8. CASE Told(w)' # Told(w)
  <2>1. result'[w] = v /\ v # result[w]
    BY <1>0, <1>1, <1>3, <1>8 DEF Told, TypeOK
  <2>2. result[w] \notin Decided
    <3>1. pc[w] # "leaving"
      BY <1>0, <2>1 DEF AwaitStep, FastPath, Register, Recheck, Wakes, GivesUp, ReadBack, RemoveWaiter, Goes
    <3>2. pc[w] \in (Blocked \ {"leaving"}) \cup {"calling", "registering"}
      BY <1>0, <3>1, AwaitEffect
    <3> QED
      BY <1>0, <3>2 DEF Untold
  <2>3. v \in Decided /\ v = status[on[w]]
    BY <1>1, <1>3, <1>8, <2>1, <2>2 DEF Told, Decided
  <2>4. decisions[on[w]] = {v} /\ Told(w) = <<>> /\ Told(w)' = <<on[w], v>>
    BY <1>0, <1>1, <2>1, <2>2, <2>3 DEF RowsDecided, Told
  <2>5. ToldFn[w] = <<>> /\ ToldFn' = [ToldFn EXCEPT ![w] = <<on[w], v>>]
    BY <1>6, <2>4 DEF ToldFn
  <2>6. Contract!Tell(w, on[w], v)
    BY <1>1, <1>4, <1>5, <2>4, <2>5 DEF Contract!Tell, Contract!Nothing, ToldFn, AnsweredFn
  <2>7. Contract!Next
    BY <1>1, <2>3, <2>6 DEF Contract!Next, Decided
  <2> QED
    BY <2>7 DEF Step
<1> QED
  BY <1>7, <1>8

\* The gate: an approval of the tool call's own review opens it.
LEMMA MapGate == ASSUME CInv, NEW g \in Gates, Gate(g) \/ RunTool(g) PROVE Step
<1>0. TypeOK /\ Begun /\ Returned /\ OwnReview /\ g \in Waiters /\ Gates \subseteq Waiters
  BY DEF CInv, IInv, Waiters
<1>1. UNCHANGED <<status, on, about, answer, decisions, heard, result>>
  BY DEF Gate, RunTool, Goes, answerVars, historyVars
<1>2. UNCHANGED <<ToldFn, AnsweredFn>>
  BY <1>1 DEF ToldFn, AnsweredFn, Told, Answered
<1>3. CASE RunTool(g)
  <2>1. UNCHANGED Opened
    BY <1>0, <1>3 DEF RunTool, Goes, Opened, TypeOK
  <2> QED
    BY <1>1, <1>2, <2>1 DEF Shown, Step
<1>4. CASE Gate(g) /\ result[g] # "approved"
  <2>1. UNCHANGED Opened
    BY <1>0, <1>4 DEF Gate, Goes, Opened, TypeOK
  <2> QED
    BY <1>1, <1>2, <2>1 DEF Shown, Step
<1>5. CASE Gate(g) /\ result[g] = "approved"
  <2>1. g \notin Opened /\ Opened' = Opened \cup {g}
    BY <1>0, <1>5 DEF Gate, Goes, Opened, TypeOK
  <2>2. on[g] \in Reviews /\ ToldFn[g] = <<on[g], "approved">> /\ decisions[on[g]] = {"approved"}
    BY <1>0, <1>5 DEF Gate, Begun, Returned, ToldFn, Told, Decided
  <2>3. ASSUME NEW other \in Opened PROVE ToldFn[other] # ToldFn[g]
    <3>1. other \in Gates /\ other # g /\ on[other] # on[g]
      BY <1>0, <2>1, <2>2, ConstantsAssumption DEF Opened, OwnReview
    <3>2. ToldFn[other] = <<on[other], "approved">>
      BY <1>0, <2>3 DEF Opened, Returned, ToldFn, Told, Decided
    <3> QED
      BY <2>2, <3>1, <3>2
  <2>4. Contract!Open(g)
    BY <1>1, <1>2, <2>1, <2>2, <2>3 DEF Contract!Open, ToldFn, AnsweredFn
  <2> QED
    BY <2>4 DEF Contract!Next, Step
<1> QED
  BY <1>3, <1>4, <1>5

\* A row appears, for a review that nobody has decided.
LEMMA MapRaise ==
    ASSUME CInv, NEW r \in Reviews, HostRequest(r) \/ \E g \in Gates : Request(g, r)
    PROVE  Step
<1>0. TypeOK /\ Begun /\ RowsRaised /\ Gates \subseteq Waiters
  BY DEF CInv, IInv, Waiters
<1>1. CASE HostRequest(r)
  <2>1. UNCHANGED <<ToldFn, AnsweredFn, Opened, decisions, heard>>
    BY <1>1 DEF HostRequest, ToldFn, AnsweredFn, Told, Answered, Opened, waiterVars, answerVars, historyVars
  <2>2. Contract!Raise(r)
    BY <1>1, <2>1 DEF HostRequest, Contract!Raise, ToldFn, AnsweredFn
  <2> QED
    BY <2>2 DEF Contract!Next, Step
<1>2. ASSUME NEW g \in Gates, Request(g, r) PROVE Step
  <2>1. UNCHANGED <<AnsweredFn, decisions, heard>>
    BY <1>2 DEF Request, AnsweredFn, Answered, answerVars, historyVars
  <2>2. \A w \in Waiters : Told(w)' = Told(w)
    <3>1. result[g] = "none" /\ result'[g] \in {"none", "error"}
      BY <1>0, <1>2 DEF Request, Goes, Returns, Begun, TypeOK
    <3>2. \A w \in Waiters \ {g} : result'[w] = result[w] /\ on'[w] = on[w]
      BY <1>0, <1>2 DEF Request, Goes, Returns, TypeOK
    <3>3. Told(g)' = <<>> /\ Told(g) = <<>>
      BY <3>1 DEF Told, Decided
    <3>4. \A w \in Waiters \ {g} : Told(w)' = Told(w)
      BY <3>2 DEF Told
    <3> QED
      BY <3>3, <3>4
  <2>3. UNCHANGED <<ToldFn, Opened>>
    BY <1>0, <1>2, <2>2 DEF Request, Goes, Returns, ToldFn, Opened, TypeOK
  <2>4. CASE status' = status
    BY <2>1, <2>3, <2>4 DEF Shown, Step
  <2>5. CASE status' = [status EXCEPT ![r] = "pending"]
    <3>1. status[r] = "absent" /\ decisions[r] = {}
      BY <1>0, <1>2 DEF Request, RowsRaised, Raised
    <3>2. Contract!Raise(r)
      BY <2>1, <2>3, <2>5, <3>1 DEF Contract!Raise, ToldFn, AnsweredFn
    <3> QED
      BY <3>2 DEF Contract!Next, Step
  <2> QED
    BY <1>2, <2>4, <2>5 DEF Request
<1> QED
  BY <1>1, <1>2

\* Resolve finds the review decided, and announced, or says nothing yet.
LEMMA MapResolve ==
    ASSUME CInv, NEW a \in Answers, NEW r \in Reviews, NEW d \in Decided \cup {"none"}, Resolve(a, r, d)
    PROVE  Step
<1>0. TypeOK /\ RowsDecided /\ HoldsMutex /\ HeardOnce /\ Untold
  BY DEF CInv, IInv
<1>1. UNCHANGED <<status, on, result, pc, decisions, heard>> /\ at[a] = "idle" /\ answer[a] = "none"
  BY <1>0 DEF Resolve, waiterVars, historyVars, Untold
<1>2. UNCHANGED <<ToldFn, Opened>>
  BY <1>1 DEF ToldFn, Told, Opened
<1>3. \A b \in Answers \ {a} : Answered(b)' = Answered(b)
  BY <1>0 DEF Resolve, Answered, TypeOK
<1>4. CASE answer'[a] \notin Decided
  <2>1. UNCHANGED AnsweredFn
    BY <1>1, <1>3, <1>4 DEF AnsweredFn, Answered, Decided
  <2> QED
    BY <1>1, <1>2, <2>1 DEF Shown, Step
<1>5. CASE answer'[a] \in Decided
  <2>1. answer'[a] = status[r] /\ about'[a] = r
    BY <1>0, <1>1, <1>5, ReadValue DEF Resolve, TypeOK, Decided
  <2> DEFINE v == status[r]
  <2>2. v \in Decided /\ decisions[r] = {v}
    BY <1>0, <1>5, <2>1 DEF RowsDecided
  <2>3. heard[r] = 1
    <3>1. \A b \in Answers : at[b] \notin {"persisted", "waking", "telling"}
      BY <1>0, ConstantsAssumption DEF Resolve, HoldsMutex, Locked, Written
    <3> QED
      BY <1>0, <2>2, <3>1 DEF HeardOnce
  <2>4. Answered(a) = <<>> /\ Answered(a)' = <<r, v>>
    BY <1>1, <1>5, <2>1 DEF Answered, Decided
  <2>5. AnsweredFn[a] = <<>> /\ AnsweredFn' = [AnsweredFn EXCEPT ![a] = <<r, v>>]
    BY <1>3, <2>4 DEF AnsweredFn
  <2>6. Contract!Repeat(a, r, v)
    BY <1>1, <1>2, <2>2, <2>3, <2>5 DEF Contract!Repeat, Contract!Answered, Contract!Nothing, ToldFn, AnsweredFn
  <2> QED
    BY <2>2, <2>6 DEF Contract!Next, Step, Decided
<1> QED
  BY <1>4, <1>5

\* Persist stores the one decision, or fails and shows nothing.
LEMMA MapPersist == ASSUME CInv, NEW a \in Answers, Persist(a) PROVE Step
<1>0. TypeOK /\ Begun /\ RowsDecided /\ Untold
  BY DEF CInv, IInv
<1>1. /\ UNCHANGED <<on, result, pc, about, heard>> /\ answer[a] = "none"
      /\ about[a] \in Reviews /\ choice[a] \in Decided /\ decisions[about[a]] = {}
  BY <1>0 DEF Persist, waiterVars, Untold, Begun, RowsDecided
<1>2. UNCHANGED <<ToldFn, Opened>>
  BY <1>1 DEF ToldFn, Told, Opened
<1>3. UNCHANGED AnsweredFn
  <2>1. \A b \in Answers : answer'[b] = answer[b] \/ (answer[b] = "none" /\ answer'[b] = "error")
    BY <1>0, <1>1 DEF Persist, TypeOK
  <2>2. \A b \in Answers : Answered(b)' = Answered(b)
    BY <1>1, <2>1 DEF Answered, Decided
  <2> QED
    BY <2>2 DEF AnsweredFn
<1>4. CASE UNCHANGED <<status, decisions>>
  BY <1>1, <1>2, <1>3, <1>4 DEF Shown, Step
<1>5. CASE /\ status' = [status EXCEPT ![about[a]] = choice[a]]
           /\ decisions' = [decisions EXCEPT ![about[a]] = @ \cup {choice[a]}]
  <2>1. status[about[a]] \in {"pending", "absent"}
    <3>1. status[about[a]] \in Decided \cup {"absent", "pending"}
      BY <1>0, <1>1 DEF TypeOK
    <3>2. status[about[a]] \notin Decided
      BY <1>0, <1>1 DEF RowsDecided
    <3> QED
      BY <3>1, <3>2
  <2>2. decisions' = [decisions EXCEPT ![about[a]] = {choice[a]}]
    BY <1>1, <1>5
  <2>3. Contract!Decide(about[a], choice[a])
    BY <1>1, <1>2, <1>3, <1>5, <2>1, <2>2 DEF Contract!Decide, ToldFn, AnsweredFn
  <2> QED
    BY <1>1, <2>3 DEF Contract!Next, Step, Decided
<1> QED
  BY <1>4, <1>5 DEF Persist

\* The listeners are told, and Resolve returns its decision.
LEMMA MapListeners == ASSUME CInv, NEW a \in Answers, FireListeners(a) PROVE Step
<1>0. TypeOK /\ Begun /\ RowsDecided /\ HeardOnce /\ Untold
  BY DEF CInv, IInv
<1>1. /\ UNCHANGED <<status, on, result, pc, about, decisions>> /\ answer[a] = "none"
      /\ about[a] \in Reviews /\ choice[a] \in Decided /\ decisions[about[a]] = {choice[a]}
      /\ heard[about[a]] = 0
  BY <1>0 DEF FireListeners, waiterVars, Untold, Begun, RowsDecided, Written, HeardOnce
<1>2. UNCHANGED <<ToldFn, Opened>>
  BY <1>1 DEF ToldFn, Told, Opened
<1>3. answer' = [answer EXCEPT ![a] = choice[a]] /\ heard' = [heard EXCEPT ![about[a]] = 1]
  BY <1>1 DEF FireListeners
<1>4. AnsweredFn[a] = <<>> /\ AnsweredFn' = [AnsweredFn EXCEPT ![a] = <<about[a], choice[a]>>]
  <2>1. answer'[a] = choice[a] /\ \A b \in Answers \ {a} : answer'[b] = answer[b]
    BY <1>0, <1>3 DEF TypeOK
  <2>2. Answered(a) = <<>> /\ Answered(a)' = <<about[a], choice[a]>>
    BY <1>1, <2>1 DEF Answered, Decided
  <2>3. \A b \in Answers \ {a} : Answered(b)' = Answered(b)
    BY <1>1, <2>1 DEF Answered
  <2> QED
    BY <2>2, <2>3 DEF AnsweredFn
<1>5. Contract!Announce(a, about[a], choice[a])
  BY <1>1, <1>2, <1>3, <1>4 DEF Contract!Announce, Contract!Answered, Contract!Nothing, ToldFn, AnsweredFn
<1> QED
  BY <1>1, <1>5 DEF Contract!Next, Step, Decided

LEMMA MapDelete == ASSUME CInv, NEW r \in Reviews, DeleteUserData(r) PROVE Step
<1>1. UNCHANGED <<ToldFn, AnsweredFn, Opened, decisions, heard>>
  BY DEF DeleteUserData, ToldFn, AnsweredFn, Told, Answered, Opened, waiterVars, answerVars, historyVars
<1>2. Contract!Delete(r)
  BY <1>1 DEF DeleteUserData, Contract!Delete, ToldFn, AnsweredFn
<1> QED
  BY <1>2 DEF Contract!Next, Step

LEMMA MapOthers ==
    ASSUME CInv,
           \/ \E h \in Hosts, r \in Reviews : HostAwait(h, r)
           \/ \E a \in Answers : TakeWaiters(a) \/ CloseChannels(a)
           \/ \E w \in Waiters : CtxEnds(w)
           \/ \E r \in Reviews : Expire(r)
           \/ UNCHANGED vars
    PROVE  Step
<1>0. TypeOK /\ Begun /\ Hosts \subseteq Waiters
  BY DEF CInv, IInv, Waiters
<1>1. ASSUME NEW h \in Hosts, NEW r \in Reviews, HostAwait(h, r) PROVE Step
  <2>1. UNCHANGED <<status, decisions, heard, AnsweredFn, result>> /\ result[h] = "none"
    BY <1>0, <1>1 DEF HostAwait, Goes, AnsweredFn, Answered, answerVars, historyVars, Begun
  <2>2. Told(h)' = <<>> /\ Told(h) = <<>>
    BY <2>1 DEF Told, Decided
  <2>3. \A w \in Waiters \ {h} : Told(w)' = Told(w)
    BY <1>0, <1>1, <2>1 DEF HostAwait, Told, TypeOK
  <2>4. UNCHANGED <<ToldFn, Opened>>
    BY <1>0, <1>1, <2>2, <2>3 DEF HostAwait, Goes, ToldFn, Opened, TypeOK
  <2> QED
    BY <2>1, <2>4 DEF Shown, Step
<1>2. ASSUME NEW a \in Answers, TakeWaiters(a) \/ CloseChannels(a) PROVE Step
  BY <1>2, Unseen DEF TakeWaiters, CloseChannels, waiterVars, historyVars, Step
<1>3. ASSUME NEW w \in Waiters, CtxEnds(w) PROVE Step
  BY <1>3, Unseen DEF CtxEnds, answerVars, historyVars, Step
<1>4. ASSUME NEW r \in Reviews, Expire(r) PROVE Step
  BY <1>4, Unseen DEF Expire, waiterVars, answerVars, historyVars, Step
<1>5. CASE UNCHANGED vars
  BY <1>5, Unseen DEF vars, waiterVars, answerVars, historyVars, Step
<1> QED
  BY <1>1, <1>2, <1>3, <1>4, <1>5

\* The review manager implements the register that is written once (Resolve, Await, the
\* gate): for any number of frontends, waiters and tool calls, failing stores and deletions.
THEOREM Implements == Spec => KeepsContract
<1>1. Init => CInv
  <2>1. ASSUME Init PROVE HeardOnce /\ OwnReview /\ Untold
    BY <2>1 DEF Init, HeardOnce, OwnReview, Untold, Decided, Waiters, Blocked
  <2> QED
    BY <2>1, Inductive DEF CInv
<1>2. CInv /\ [Next]_vars => CInv'
  BY Inductive, HeardStep, OwnReviewStep, UntoldStep DEF CInv
<1>3. Init => Contract!Init
  <2>1. ASSUME Init PROVE Opened = {} /\ ToldFn = [c \in Waiters |-> <<>>] /\ AnsweredFn = [a \in Answers |-> <<>>]
    BY <2>1 DEF Init, Opened, ToldFn, AnsweredFn, Told, Answered, Decided, Waiters
  <2> QED
    BY <2>1 DEF Init, Contract!Init, Contract!Nothing, ToldFn, AnsweredFn
<1>4. CInv /\ [Next]_vars => [Contract!Next]_(Contract!vars)
  <2>1. ASSUME CInv, [Next]_vars PROVE Step
    BY <2>1, Steps, MapAwait, MapGate, MapRaise, MapResolve, MapPersist, MapListeners, MapDelete, MapOthers
  <2>2. Contract!vars' = Contract!vars <=> Shown' = Shown
    BY DEF Contract!vars, Shown, ToldFn, AnsweredFn
  <2> QED
    BY <2>1, <2>2 DEF Step
<1> QED
  BY <1>1, <1>2, <1>3, <1>4, PTL DEF Spec, KeepsContract, Contract!Spec
=============================================================================
