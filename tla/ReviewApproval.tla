--------------------------- MODULE ReviewApproval ---------------------------
(***************************************************************************)
(* Human approval: the review manager (src/review/review.go) and the gate  *)
(* every tool call passes through (AwaitToolApproval and executeTool in    *)
(* src/engine).  Waiters are tool calls blocked in Await and hosts that    *)
(* call Await themselves; answers are calls of Resolve from any frontend.  *)
(* Both read and write the reviews table without a common lock, and a      *)
(* user's rows may be deleted under them.                                  *)
(*                                                                         *)
(* A review is its status: decisionToStatus has already turned the free    *)
(* text of a decision into "approved" or "rejected".                       *)
(***************************************************************************)
EXTENDS Naturals

CONSTANTS
    Reviews,        \* review ids
    Expiring,       \* the reviews a host raised with an ExpiresAt
    Gates,          \* tool calls that need an approval
    Hosts,          \* calls of Await by host code, on a review of its choice
    Answers,        \* calls of Resolve
    MaxDeletes,     \* the bound on DeleteUserData
    StoreMayFail,   \* TRUE: a read or a write of the store may return an error
    NoReview, NoAnswer  \* model values

ASSUME ConstantsAssumption ==
    /\ Expiring \subseteq Reviews /\ Gates \cap Hosts = {}
    /\ MaxDeletes \in Nat /\ StoreMayFail \in BOOLEAN
    /\ NoReview \notin Reviews /\ NoAnswer \notin Answers

Waiters == Gates \cup Hosts

VARIABLES
    status,         \* the reviews table
    expired,        \* reviews whose ExpiresAt has passed
    waiters,        \* m.waiters: who has a channel registered, by review id
    wake,           \* each waiter's channel
    resolveMu,      \* the call of Resolve that holds it
    pc, on, result, \* each waiter: place, review, what Await returned
    done, armed,    \* each waiter: its ctx has ended; it has an expiry timer
    at, about, choice, answer, \* each Resolve: place, review, decision, what it returned
    woken,          \* each Resolve: the channels wake took out of m.waiters
    decisions,      \* history: the decisions ever stored for a review
    heard,          \* history: how often the listeners were called for it
    deletes

waiterVars  == <<pc, on, result, done, armed>>
answerVars  == <<at, about, choice, answer, woken>>
historyVars == <<decisions, heard>>
vars == <<status, expired, waiters, wake, resolveMu, waiterVars, answerVars, historyVars, deletes>>

Decided == {"approved", "rejected"}
Results == Decided \cup {"none", "pending", "absent", "error"}

\* Where an Await is, from the call to its return; a tool call goes on from there.
Blocked == {"rechecking", "waiting", "reading", "leaving"}
Places  == Blocked \cup {"idle", "calling", "registering", "returned", "executing", "ran", "refused"}

Resolved(r) == status[r] \in Decided

Init ==
    /\ status = [r \in Reviews |-> "absent"] /\ expired = {}
    /\ waiters = [r \in Reviews |-> {}] /\ wake = [w \in Waiters |-> "none"]
    /\ resolveMu = NoAnswer
    /\ pc = [w \in Waiters |-> "idle"] /\ on = [w \in Waiters |-> NoReview]
    /\ result = [w \in Waiters |-> "none"]
    /\ done = [w \in Waiters |-> FALSE] /\ armed = [w \in Waiters |-> FALSE]
    /\ at = [a \in Answers |-> "idle"] /\ about = [a \in Answers |-> NoReview]
    /\ choice = [a \in Answers |-> "none"] /\ answer = [a \in Answers |-> "none"]
    /\ woken = [a \in Answers |-> {}]
    /\ decisions = [r \in Reviews |-> {}] /\ heard = [r \in Reviews |-> 0]
    /\ deletes = 0

\* GetReviewRequest: the row, or an error.
Read(r) == {status[r]} \cup IF StoreMayFail THEN {"error"} ELSE {}

\* Await returns v, before it registered a channel or after.
Returns(w, v) == pc' = [pc EXCEPT ![w] = "returned"] /\ result' = [result EXCEPT ![w] = v]
Leaves(w, v)  == pc' = [pc EXCEPT ![w] = "leaving"] /\ result' = [result EXCEPT ![w] = v]
Goes(w, place) == pc' = [pc EXCEPT ![w] = place] /\ UNCHANGED result

-----------------------------------------------------------------------------
(* Slips: some of the steps below with a mistake a maintainer could make.  *)
(* No specification uses them; each breaks a property stated at the end.   *)

\* The second read is left out.
SlipRecheck(w) ==
    /\ pc[w] = "rechecking"
    /\ armed' = [armed EXCEPT ![w] = on[w] \in Expiring]
    /\ Goes(w, "waiting")
    /\ UNCHANGED <<status, expired, waiters, wake, resolveMu, on, done, answerVars, historyVars, deletes>>

\* An Await that gave up forgets its channel in m.waiters.
SlipRemoveWaiter(w) ==
    /\ pc[w] = "leaving"
    /\ Goes(w, "returned")
    /\ UNCHANGED <<status, expired, waiters, wake, resolveMu, on, done, armed, answerVars, historyVars, deletes>>

\* The gate looks for a rejection instead of an approval.
SlipGate(g) ==
    /\ pc[g] = "returned"
    /\ Goes(g, IF result[g] = "rejected" THEN "refused" ELSE "executing")
    /\ UNCHANGED <<status, expired, waiters, wake, resolveMu, on, done, armed, answerVars, historyVars, deletes>>

\* A Resolve that loads what "goes" says is open, with or without the mutex.
SlipLoad(a, r, d, goes(_)) ==
    /\ at[a] = "idle"
    /\ \E v \in Read(r) :
          \/ /\ goes(v) /\ d # "none"
             /\ at' = [at EXCEPT ![a] = "loaded"] /\ resolveMu' = a
             /\ choice' = [choice EXCEPT ![a] = d]
             /\ UNCHANGED answer
          \/ /\ ~goes(v) \/ d = "none"
             /\ at' = [at EXCEPT ![a] = "returned"]
             /\ answer' = [answer EXCEPT ![a] = IF v \in Decided THEN v ELSE "error"]
             /\ UNCHANGED <<resolveMu, choice>>
    /\ about' = [about EXCEPT ![a] = r]
    /\ UNCHANGED <<status, expired, waiters, wake, waiterVars, woken, historyVars, deletes>>

\* Load, check and persist are not serialized.
SlipResolve(a, r, d) == SlipLoad(a, r, d, LAMBDA v : v = "pending")

\* The decision that is already there is stored again.
SlipResolveAgain(a, r, d) == resolveMu = NoAnswer /\ SlipLoad(a, r, d, LAMBDA v : v \in {"pending", d})

\* The map's entry is deleted before it is read.
SlipCloseChannels(a) ==
    /\ at[a] = "waking"
    /\ wake' = [w \in Waiters |-> IF w \in waiters[about[a]] THEN "closed" ELSE wake[w]]
    /\ woken' = [woken EXCEPT ![a] = {}]
    /\ at' = [at EXCEPT ![a] = "telling"]
    /\ UNCHANGED <<status, expired, waiters, resolveMu, waiterVars, about, choice, answer, historyVars, deletes>>

\* DeleteUserData marks the reviews instead of removing them.
SlipDelete(r) ==
    /\ deletes < MaxDeletes /\ status[r] # "absent"
    /\ deletes' = deletes + 1
    /\ status' = [status EXCEPT ![r] = "deleted"]
    /\ UNCHANGED <<expired, waiters, wake, resolveMu, waiterVars, answerVars, historyVars>>

-----------------------------------------------------------------------------
(* Raising a review.                                                       *)

\* A fresh random id, stored as pending; the notifier's errors are ignored.
\* A gate whose request cannot be stored is refused.
Request(g, r) ==
    /\ pc[g] = "idle" /\ status[r] = "absent" /\ r \notin Expiring
    /\ \A w \in Gates : on[w] # r
    /\ on' = [on EXCEPT ![g] = r]
    /\ \/ status' = [status EXCEPT ![r] = "pending"] /\ Goes(g, "calling")
       \/ StoreMayFail /\ Returns(g, "error") /\ UNCHANGED status
    /\ UNCHANGED <<expired, waiters, wake, resolveMu, done, armed, answerVars, historyVars, deletes>>

\* Host code raises one of its own, with an expiry, and may Await any review.
HostRequest(r) ==
    /\ r \in Expiring /\ status[r] = "absent" /\ decisions[r] = {} /\ r \notin expired
    /\ status' = [status EXCEPT ![r] = "pending"]
    /\ UNCHANGED <<expired, waiters, wake, resolveMu, waiterVars, answerVars, historyVars, deletes>>

HostAwait(h, r) ==
    /\ pc[h] = "idle"
    /\ on' = [on EXCEPT ![h] = r]
    /\ Goes(h, "calling")
    /\ UNCHANGED <<status, expired, waiters, wake, resolveMu, done, armed, answerVars, historyVars, deletes>>

-----------------------------------------------------------------------------
(* Await.                                                                  *)

\* The fast path: an error, no row, a decision or a passed expiry return at once.
FastPath(w) ==
    /\ pc[w] = "calling"
    /\ \E v \in Read(on[w]) :
          IF v = "pending" /\ on[w] \notin expired
              THEN Goes(w, "registering")
              ELSE Returns(w, IF v = "absent" THEN "error" ELSE v)
    /\ UNCHANGED <<status, expired, waiters, wake, resolveMu, on, done, armed, answerVars, historyVars, deletes>>

\* A new channel goes into m.waiters.
Register(w) ==
    /\ pc[w] = "registering"
    /\ waiters' = [waiters EXCEPT ![on[w]] = @ \cup {w}]
    /\ wake' = [wake EXCEPT ![w] = "open"]
    /\ Goes(w, "rechecking")
    /\ UNCHANGED <<status, expired, resolveMu, on, done, armed, answerVars, historyVars, deletes>>

\* The second read: a decision that landed before the channel existed is seen here.
\* A row that has gone leaves the waiter without an expiry timer.
Recheck(w) ==
    /\ pc[w] = "rechecking"
    /\ \E v \in Read(on[w]) :
          /\ IF v \in Decided \cup {"error"} THEN Leaves(w, v) ELSE Goes(w, "waiting")
          /\ armed' = [armed EXCEPT ![w] = v = "pending" /\ on[w] \in Expiring]
    /\ UNCHANGED <<status, expired, waiters, wake, resolveMu, on, done, answerVars, historyVars, deletes>>

\* select: the channel was closed or the timer fired ...
Wakes(w) ==
    /\ pc[w] = "waiting"
    /\ wake[w] = "closed" \/ (armed[w] /\ on[w] \in expired)
    /\ Goes(w, "reading")
    /\ UNCHANGED <<status, expired, waiters, wake, resolveMu, on, done, armed, answerVars, historyVars, deletes>>

\* ... or the ctx ended.
GivesUp(w) ==
    /\ pc[w] = "waiting" /\ done[w]
    /\ Leaves(w, "error")
    /\ UNCHANGED <<status, expired, waiters, wake, resolveMu, on, done, armed, answerVars, historyVars, deletes>>

\* Whoever was woken reads the review once more and returns what it finds.
ReadBack(w) ==
    /\ pc[w] = "reading"
    /\ \E v \in Read(on[w]) : Leaves(w, v)
    /\ UNCHANGED <<status, expired, waiters, wake, resolveMu, on, done, armed, answerVars, historyVars, deletes>>

\* The deferred calls: stop the timer, removeWaiter; channel and ctx are gone.
RemoveWaiter(w) ==
    /\ pc[w] = "leaving"
    /\ waiters' = [waiters EXCEPT ![on[w]] = @ \ {w}]
    /\ wake' = [wake EXCEPT ![w] = "none"]
    /\ done' = [done EXCEPT ![w] = FALSE] /\ armed' = [armed EXCEPT ![w] = FALSE]
    /\ Goes(w, "returned")
    /\ UNCHANGED <<status, expired, resolveMu, on, answerVars, historyVars, deletes>>

-----------------------------------------------------------------------------
(* The gate in executeTool.                                                *)

\* An error, no review, and every review that is not approved refuse the call.
Gate(g) ==
    /\ pc[g] = "returned"
    /\ Goes(g, IF result[g] = "approved" THEN "executing" ELSE "refused")
    /\ UNCHANGED <<status, expired, waiters, wake, resolveMu, on, done, armed, answerVars, historyVars, deletes>>

\* The tool's function runs.
RunTool(g) ==
    /\ pc[g] = "executing"
    /\ Goes(g, "ran")
    /\ UNCHANGED <<status, expired, waiters, wake, resolveMu, on, done, armed, answerVars, historyVars, deletes>>

-----------------------------------------------------------------------------
(* Resolve, under resolveMu from its first line to its return.             *)

\* Load: an error, no row or an empty decision is an error, and a review that is
\* resolved already is returned as it is.
Resolve(a, r, d) ==
    /\ at[a] = "idle" /\ resolveMu = NoAnswer
    /\ \E v \in Read(r) :
          \/ /\ v = "pending" /\ d # "none"
             /\ at' = [at EXCEPT ![a] = "loaded"] /\ resolveMu' = a
             /\ choice' = [choice EXCEPT ![a] = d]
             /\ UNCHANGED answer
          \/ /\ v # "pending" \/ d = "none"
             /\ at' = [at EXCEPT ![a] = "returned"]
             /\ answer' = [answer EXCEPT ![a] = IF v \in Decided THEN v ELSE "error"]
             /\ UNCHANGED <<resolveMu, choice>>
    /\ about' = [about EXCEPT ![a] = r]
    /\ UNCHANGED <<status, expired, waiters, wake, waiterVars, woken, historyVars, deletes>>

\* The decided review is put back, over whatever is in the store by now; a write
\* that fails leaves the review pending.
Persist(a) ==
    /\ at[a] = "loaded"
    /\ \/ /\ status' = [status EXCEPT ![about[a]] = choice[a]]
          /\ decisions' = [decisions EXCEPT ![about[a]] = @ \cup {choice[a]}]
          /\ at' = [at EXCEPT ![a] = "persisted"]
          /\ UNCHANGED <<answer, resolveMu>>
       \/ /\ StoreMayFail
          /\ at' = [at EXCEPT ![a] = "returned"]
          /\ answer' = [answer EXCEPT ![a] = "error"]
          /\ resolveMu' = NoAnswer
          /\ UNCHANGED <<status, decisions>>
    /\ UNCHANGED <<expired, waiters, wake, waiterVars, about, choice, woken, heard, deletes>>

\* wake takes the review's channels out of m.waiters ...
TakeWaiters(a) ==
    /\ at[a] = "persisted"
    /\ woken' = [woken EXCEPT ![a] = waiters[about[a]]]
    /\ waiters' = [waiters EXCEPT ![about[a]] = {}]
    /\ at' = [at EXCEPT ![a] = "waking"]
    /\ UNCHANGED <<status, expired, wake, resolveMu, waiterVars, about, choice, answer, historyVars, deletes>>

\* ... and closes them.
CloseChannels(a) ==
    /\ at[a] = "waking"
    /\ wake' = [w \in Waiters |-> IF w \in woken[a] THEN "closed" ELSE wake[w]]
    /\ woken' = [woken EXCEPT ![a] = {}]
    /\ at' = [at EXCEPT ![a] = "telling"]
    /\ UNCHANGED <<status, expired, waiters, resolveMu, waiterVars, about, choice, answer, historyVars, deletes>>

\* The listeners are called one after the other, then the mutex is released.
FireListeners(a) ==
    /\ at[a] = "telling"
    /\ heard' = [heard EXCEPT ![about[a]] = @ + 1]
    /\ at' = [at EXCEPT ![a] = "returned"]
    /\ answer' = [answer EXCEPT ![a] = choice[a]]
    /\ resolveMu' = NoAnswer
    /\ UNCHANGED <<status, expired, waiters, wake, waiterVars, about, choice, woken, decisions, deletes>>

-----------------------------------------------------------------------------
(* The environment.                                                        *)

\* A caller goes away, or the task scheduler cancels the run the call is part of; an
\* end that came earlier shows at the same place, the select.
CtxEnds(w) ==
    /\ pc[w] = "waiting" /\ ~done[w]
    /\ done' = [done EXCEPT ![w] = TRUE]
    /\ UNCHANGED <<status, expired, waiters, wake, resolveMu, pc, on, result, armed, answerVars, historyVars, deletes>>

Expire(r) ==
    /\ r \in Expiring /\ r \notin expired /\ status[r] = "pending"
    /\ expired' = expired \cup {r}
    /\ UNCHANGED <<status, waiters, wake, resolveMu, waiterVars, answerVars, historyVars, deletes>>

\* DeleteUserData removes the user's reviews, whoever waits for them.
DeleteUserData(r) ==
    /\ deletes < MaxDeletes /\ status[r] # "absent"
    /\ deletes' = deletes + 1
    /\ status' = [status EXCEPT ![r] = "absent"]
    /\ UNCHANGED <<expired, waiters, wake, resolveMu, waiterVars, answerVars, historyVars>>

-----------------------------------------------------------------------------
AwaitStep(w) ==
    \/ FastPath(w) \/ Register(w) \/ Recheck(w) \/ Wakes(w) \/ GivesUp(w)
    \/ ReadBack(w) \/ RemoveWaiter(w)

GateStep(g) == Gate(g) \/ RunTool(g)

ResolveStep(a) == Persist(a) \/ TakeWaiters(a) \/ CloseChannels(a) \/ FireListeners(a)

Next ==
    \/ \E g \in Gates : GateStep(g) \/ \E r \in Reviews : Request(g, r)
    \/ \E h \in Hosts, r \in Reviews : HostAwait(h, r)
    \/ \E w \in Waiters : AwaitStep(w) \/ CtxEnds(w)
    \/ \E a \in Answers :
          \/ ResolveStep(a)
          \/ \E r \in Reviews, d \in Decided \cup {"none"} : Resolve(a, r, d)
    \/ \E r \in Reviews : HostRequest(r) \/ Expire(r) \/ DeleteUserData(r)

Spec == Init /\ [][Next]_vars

(* Fairness.  Goroutines that can go on do.  Nobody has to answer a review, *)
(* no ctx has to end, and nothing is assumed of the clock.                  *)
Fairness ==
    /\ \A w \in Waiters : WF_vars(AwaitStep(w))
    /\ \A g \in Gates : WF_vars(GateStep(g))
    /\ \A a \in Answers : WF_vars(ResolveStep(a))

FairSpec == Spec /\ Fairness

-----------------------------------------------------------------------------
(* Properties.                                                             *)

TypeOK ==
    /\ status \in [Reviews -> Decided \cup {"absent", "pending"}]
    /\ expired \subseteq Expiring
    /\ waiters \in [Reviews -> SUBSET Waiters]
    /\ wake \in [Waiters -> {"none", "open", "closed"}]
    /\ resolveMu \in Answers \cup {NoAnswer}
    /\ pc \in [Waiters -> Places]
    /\ on \in [Waiters -> Reviews \cup {NoReview}]
    /\ result \in [Waiters -> Results]
    /\ done \in [Waiters -> BOOLEAN] /\ armed \in [Waiters -> BOOLEAN]
    /\ at \in [Answers -> {"idle", "loaded", "persisted", "waking", "telling", "returned"}]
    /\ about \in [Answers -> Reviews \cup {NoReview}]
    /\ choice \in [Answers -> Decided \cup {"none"}]
    /\ answer \in [Answers -> Decided \cup {"none", "error"}]
    /\ woken \in [Answers -> SUBSET Waiters]
    /\ decisions \in [Reviews -> SUBSET Decided]
    /\ heard \in [Reviews -> Nat]
    /\ deletes \in Nat

\* "This function fails closed": a tool runs only if its own review was approved and
\* nobody ever stored a rejection of it, whatever read, write, race, expired review,
\* ended ctx or deletion happened on the way.
FailsClosed ==
    \A g \in Gates : pc[g] \in {"executing", "ran"} => decisions[on[g]] = {"approved"}

\* "Exactly one decision wins and every caller observes that same terminal decision":
\* concurrent calls of Resolve and the waiters they woke all return the one decision
\* that was ever stored.
OneDecision ==
    /\ \A r \in Reviews : \A d, e \in decisions[r] : d = e
    /\ \A a \in Answers : answer[a] \in Decided => decisions[about[a]] = {answer[a]}
    /\ \A w \in Waiters : result[w] \in Decided => decisions[on[w]] = {result[w]}

\* The listeners hear of every decision exactly once; a repeated answer is not news.
HeardOnce ==
    \A r \in Reviews :
        heard[r] = IF decisions[r] = {} \/ (\E a \in Answers : about[a] = r /\ at[a] \in {"persisted", "waking", "telling"})
                       THEN 0 ELSE 1

\* "Await never blocks on an already-resolved review": when no Resolve is on its way
\* to wake it, a waiter of a resolved review has its channel closed.
NoLostWakeup ==
    \A w \in Waiters :
        pc[w] = "waiting" /\ Resolved(on[w]) /\ (\A a \in Answers : about[a] = on[w] => at[a] \in {"idle", "returned"})
        => wake[w] = "closed"

\* m.waiters holds the channels of calls of Await that have not returned, each under
\* its own review, and no others: an abandoned wait leaves nothing behind.
NoWaiterLeaks ==
    \A r \in Reviews : \A w \in waiters[r] : on[w] = r /\ pc[w] \in Blocked /\ wake[w] = "open"

\* What a caller that has been told, and an answer that has returned, hold of a decision.
Told(w)     == IF result[w] \in Decided THEN <<on[w], result[w]>> ELSE <<>>
Answered(a) == IF answer[a] \in Decided THEN <<about[a], answer[a]>> ELSE <<>>
Opened      == {g \in Gates : pc[g] \in {"executing", "ran"}}

\* The manager implements a register that is written once: no order of answers, reads,
\* wake-ups and deletions shows anyone a second decision, announces one twice, returns one
\* before the listeners have heard it, or lets two tool calls share an approval.
Contract == INSTANCE ReviewContract WITH
    Callers <- Waiters, Tools <- Gates, row <- status,
    told <- [w \in Waiters |-> Told(w)],
    answered <- [a \in Answers |-> Answered(a)],
    opened <- Opened
KeepsContract == Contract!Spec

\* A blocked Await returns once its review is decided, and an approved tool call goes
\* on to run its tool, unless its ctx ended or its review was deleted or unreadable.
Approved(g) == pc[g] \notin {"idle", "refused"} /\ status[on[g]] = "approved" /\ ~done[g]
DecisionReaches ==
    /\ \A w \in Waiters : pc[w] = "waiting" /\ Resolved(on[w]) ~> pc[w] # "waiting"
    /\ ~StoreMayFail => \A g \in Gates : Approved(g) ~> (pc[g] = "ran" \/ ~Approved(g))
=============================================================================
