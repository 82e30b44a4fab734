---------------------------- MODULE SessionTurn ----------------------------
(***************************************************************************)
(* The life of one agent session (src/engine/user_agent.go): callers that  *)
(* queue behind a turn (src/engine/progress_guard.go), the turn itself,    *)
(* and the two others who write the same session: the summarizer           *)
(* (src/engine/schedules.go) and RecordUserFile                            *)
(* (src/engine/user_files.go), called by tools and by uploads.             *)
(*                                                                         *)
(* Every one of them works on a copy: the store clones on Get and replaces *)
(* the whole session on Put.  A turn holds the session's mutex, the        *)
(* summarizer a different one, RecordUserFile none, so a Put may be based  *)
(* on a copy that another Put has made stale.                              *)
(***************************************************************************)
EXTENDS Naturals, Sequences, FiniteSets, Functions

CONSTANTS
    Messages,         \* the user messages; each is sent once, by its own caller
    Scheduled,        \* those that ProcessScheduledMessage sends
    NoMessage,        \* model value: no turn
    QueueCap,         \* maxQueuedPerKey
    MaxIterations,    \* the LLM calls a message may take
    Retain,           \* RetainRecentMessages
    First, Subsequent,    \* summarization thresholds, in messages
    MaxSummaries, MaxUploads, \* bounds on the other two writers
    Nodes             \* the knowledge nodes a tool may open, the root aside

ASSUME ConstantsAssumption ==
    /\ Scheduled \subseteq Messages /\ NoMessage \notin Messages
    /\ QueueCap \in Nat /\ MaxIterations \in Nat \ {0} /\ Retain \in Nat
    /\ First \in Nat \ {0} /\ Subsequent \in Nat \ {0}
    /\ MaxSummaries \in Nat /\ MaxUploads \in Nat

VARIABLES
    \* the store
    session,          \* the sessions row
    rowIds, rowsPut,  \* ids in the messages table, and how many inserts made them
    fileIds, filesPut, \* the same for user_files
    openRow,          \* what opened_files says is open
    \* the progress guard and the session's mutex
    inProgress, queue,
    turn,             \* the message whose caller holds the mutex
    pc,               \* each caller
    \* the turn
    stage, body, calls, copy, drained,
    \* the summarizer
    sumPc, sumCopy,
    \* history
    begun,            \* messages put into the session, in order
    acked,            \* messages queued, in order
    ahead,            \* what was queued and unanswered when a message was sent
    stale,            \* whose copy is out of date: "turn", "summary"
    lostUpdate,       \* a stale copy was put back
    summaries, uploads

fileVars    == <<fileIds, filesPut, openRow>>
storeVars   == <<session, rowIds, rowsPut, fileVars>>
guardVars   == <<inProgress, queue, turn, pc>>
turnVars    == <<stage, body, calls, copy, drained>>
sumVars     == <<sumPc, sumCopy>>
orderVars   == <<begun, acked, ahead>>
raceVars    == <<stale, lostUpdate>>
boundVars   == <<summaries, uploads>>
vars == <<storeVars, guardVars, turnVars, sumVars, orderVars, raceVars, boundVars>>

Kinds   == {"user", "call", "result", "reply"}
Entry(kind, m) == [kind |-> kind, of |-> m]
Session == [msgs : Seq([kind : Kinds, of : Messages]),
            archived : Seq([kind : Kinds, of : Messages]),
            msgSeq : Nat, fileSeq : Nat, summarized : BOOLEAN, opened : SUBSET Nodes]
NewSession == [msgs |-> <<>>, archived |-> <<>>, msgSeq |-> 0, fileSeq |-> 0,
               summarized |-> FALSE, opened |-> {}]

Idle   == turn = NoMessage

\* The entries of some kinds, in their order: a loop that appends what it keeps.
Kept(s, kinds) ==
    LET kept[n \in 0..Len(s)] ==
            IF n = 0 THEN <<>>
            ELSE IF s[n].kind \in kinds THEN Append(kept[n - 1], s[n]) ELSE kept[n - 1]
    IN  kept[Len(s)]
Users(s) == Kept(s, {"user"})
NoTools(s) == Kept(s, {"user", "reply"})

\* A slip (see below): the window is cut at a fixed distance from its end.
SlipCut(msgs) == IF Len(msgs) <= Retain THEN 0 ELSE Len(msgs) - Retain

\* splitRollingWindow: the cut moves back so that no tool result is parted from its call.
Cut(msgs) ==
    IF Len(msgs) <= Retain THEN 0
    ELSE LET cuts == {c \in 0..Len(msgs) - Retain :
                         c = 0 \/ c = Len(msgs) \/ msgs[c + 1].kind # "result"}
         IN CHOOSE c \in cuts : \A d \in cuts : d <= c

\* Who holds a copy it will put back.
Holders ==
    (IF stage \in {"cleaning", "appending", "thinking", "tool", "saving", "closing"}
        THEN {"turn"} ELSE {})
    \cup (IF sumPc = "thinking" THEN {"summary"} ELSE {})

\* Sessions.Put by "turn", "summary" or "file": the whole row is replaced, and the
\* copies the others hold are out of date from here on.
Put(who, s) ==
    /\ session' = s
    /\ stale' = Holders \ {who}
    /\ lostUpdate' = (lostUpdate \/ who \in stale)

\* The id a session's counter gives next is inserted or replaced in the messages table.
PutRow(id) ==
    /\ rowIds' = rowIds \cup {id}
    /\ rowsPut' = rowsPut + 1

Init ==
    /\ session = NewSession
    /\ rowIds = {} /\ rowsPut = 0 /\ fileIds = {} /\ filesPut = 0 /\ openRow = {}
    /\ inProgress = FALSE /\ queue = <<>> /\ turn = NoMessage
    /\ pc = [m \in Messages |-> "unsent"]
    /\ stage = "none" /\ body = NoMessage /\ calls = 0 /\ copy = NewSession /\ drained = <<>>
    /\ sumPc = "idle" /\ sumCopy = NewSession
    /\ begun = <<>> /\ acked = <<>> /\ ahead = [m \in Messages |-> {}]
    /\ stale = {} /\ lostUpdate = FALSE
    /\ summaries = 0 /\ uploads = 0

-----------------------------------------------------------------------------
(* Slips: some of the steps below with a mistake a maintainer could make.  *)
(* No specification uses them; each breaks a property stated at the end.   *)

\* The loop does not count its iterations against the limit.
SlipSave ==
    /\ stage = "saving"
    /\ Put("turn", copy)
    /\ calls' = calls + 1 /\ stage' = "thinking"
    /\ UNCHANGED <<rowIds, rowsPut, fileVars, guardVars, body, copy, drained,
                   sumVars, orderVars, boundVars>>

\* The user's message is numbered after the session was put.
SlipAppendUser ==
    /\ stage = "appending"
    /\ Put("turn", [copy EXCEPT !.msgs = Append(@, Entry("user", body))])
    /\ PutRow(copy.msgSeq + 1)
    /\ begun' = Append(begun, body)
    /\ copy' = NewSession
    /\ stage' = "load"
    /\ UNCHANGED <<fileVars, guardVars, body, calls, drained, sumVars, acked,
                   ahead, boundVars>>

\* The drained messages are handled from the newest to the oldest.
SlipNextDrained ==
    /\ stage = "next" /\ drained # <<>>
    /\ body' = drained[Len(drained)] /\ drained' = SubSeq(drained, 1, Len(drained) - 1)
    /\ stage' = "append"
    /\ UNCHANGED <<storeVars, guardVars, calls, copy, sumVars, orderVars, raceVars, boundVars>>

\* An early return keeps the mutex.
SlipLeave ==
    /\ stage = "leave" \/ (stage = "next" /\ drained = <<>>)
    /\ pc' = [pc EXCEPT ![turn] = IF stage = "next" THEN "answered" ELSE "failed"]
    /\ inProgress' = FALSE /\ turn' = (IF stage = "next" THEN NoMessage ELSE turn)
    /\ stage' = "none" /\ body' = NoMessage
    /\ UNCHANGED <<storeVars, queue, calls, copy, drained, sumVars, orderVars, raceVars,
                   boundVars>>

\* What is archived stays in the window too.
SlipKeep(s) ==
    [s EXCEPT !.archived = @ \o SubSeq(s.msgs, 1, Cut(s.msgs)), !.summarized = TRUE]

-----------------------------------------------------------------------------
(* Callers: ProcessMessage and ProcessScheduledMessage up to the mutex.    *)

\* TryQueue reads the flag under a read lock; a scheduled message does not ask.
Send(m) ==
    /\ pc[m] = "unsent"
    /\ pc' = [pc EXCEPT ![m] = IF inProgress /\ m \notin Scheduled THEN "queueing"
                                                                    ELSE "waiting"]
    /\ ahead' = [ahead EXCEPT ![m] = Range(acked) \ Range(begun)]
    /\ UNCHANGED <<storeVars, inProgress, queue, turn, turnVars, sumVars, begun, acked,
                   raceVars, boundVars>>

\* TryQueue takes the lock again to append, without looking at the flag again; the
\* caller is told that its message was queued even when the queue was full.
Enqueue(m) ==
    /\ pc[m] = "queueing"
    /\ pc' = [pc EXCEPT ![m] = "acked"]
    /\ IF Len(queue) < QueueCap
       THEN queue' = Append(queue, m) /\ acked' = Append(acked, m)
       ELSE UNCHANGED <<queue, acked>>
    /\ UNCHANGED <<storeVars, inProgress, turn, turnVars, sumVars, begun, ahead,
                   raceVars, boundVars>>

\* A scheduled message whose ctx has ended leaves once it has the mutex.
GiveUp(m) ==
    /\ pc[m] = "waiting" /\ m \in Scheduled /\ Idle
    /\ pc' = [pc EXCEPT ![m] = "failed"]
    /\ UNCHANGED <<storeVars, inProgress, queue, turn, turnVars, sumVars, orderVars,
                   raceVars, boundVars>>

\* The mutex is taken and the flag set; a session idle for two hours is cleaned first.
Begin(m) ==
    /\ pc[m] = "waiting" /\ Idle
    /\ pc' = [pc EXCEPT ![m] = "turn"]
    /\ turn' = m /\ inProgress' = TRUE
    /\ body' = m /\ stage' \in {"clean", "append"}
    /\ UNCHANGED <<storeVars, queue, calls, copy, drained, sumVars, orderVars, raceVars,
                   boundVars>>

-----------------------------------------------------------------------------
(* The turn.                                                               *)

\* Sessions.Get: removeFunctionCalls, processOneMessageBody and processChatRequest
\* each begin with it.
Fetch ==
    /\ stage \in {"clean", "append", "load"}
    /\ copy' = session
    /\ stage' = CASE stage = "clean"  -> "cleaning"
                  [] stage = "append" -> "appending"
                  [] stage = "load"   -> "thinking"
    /\ UNCHANGED <<storeVars, guardVars, body, calls, drained, sumVars, orderVars,
                   raceVars, boundVars>>

\* removeFunctionCalls drops every tool call and tool result.
Clean ==
    /\ stage = "cleaning"
    /\ Put("turn", [copy EXCEPT !.msgs = NoTools(@)])
    /\ copy' = NewSession
    /\ stage' = "append"
    /\ UNCHANGED <<rowIds, rowsPut, fileVars, guardVars, body, calls, drained,
                   sumVars, orderVars, boundVars>>

\* processOneMessageBody: the user's message enters the session and the messages table.
AppendUser ==
    /\ stage = "appending"
    /\ Put("turn", [copy EXCEPT !.msgs = Append(@, Entry("user", body)), !.msgSeq = @ + 1])
    /\ PutRow(copy.msgSeq + 1)
    /\ begun' = Append(begun, body)
    /\ copy' = NewSession
    /\ stage' = "load"
    /\ UNCHANGED <<fileVars, guardVars, body, calls, drained, sumVars, acked,
                   ahead, boundVars>>

\* One LLM call that answers with text or with a tool call; saveMessage numbers the
\* answer on the copy and inserts it at once.
Think ==
    /\ stage = "thinking"
    /\ \E answer \in {"reply", "call"} :
          /\ copy' = [copy EXCEPT !.msgs = Append(@, Entry(answer, body)), !.msgSeq = @ + 1]
          /\ stage' = IF answer = "reply" THEN "closing" ELSE "tool"
    /\ PutRow(copy.msgSeq + 1)
    /\ UNCHANGED <<session, fileVars, guardVars, body, calls, drained, sumVars,
                   orderVars, raceVars, boundVars>>

\* RecordUserFile: its own Get, counter and Put, then the user_files row.
RecordFile ==
    /\ Put("file", [session EXCEPT !.fileSeq = @ + 1])
    /\ fileIds' = fileIds \cup {session.fileSeq + 1}
    /\ filesPut' = filesPut + 1
    /\ UNCHANGED openRow

\* open_file: a session of its own gets the node.  The opened_files row is numbered after
\* that Put, so the number is the same each time and the row of another node is replaced.
OpenFile(n) ==
    /\ IF n \in session.opened THEN UNCHANGED <<session, raceVars>>
       ELSE Put("file", [session EXCEPT !.opened = @ \cup {n}])
    /\ openRow' = {n}

CloseFile(n) ==
    /\ n \in session.opened
    /\ Put("file", [session EXCEPT !.opened = @ \ {n}])
    /\ openRow' = openRow \ {n}

\* An open_file or close_file among the tool calls of one answer.
UseNode(n) ==
    /\ stage = "tool"
    /\ OpenFile(n) \/ CloseFile(n)
    /\ UNCHANGED <<rowIds, rowsPut, fileIds, filesPut, guardVars, turnVars, sumVars, orderVars,
                   boundVars>>

\* The tool runs, or is blocked or refused; some record a file.  Its result joins the copy.
Tool ==
    /\ stage = "tool"
    /\ copy' = [copy EXCEPT !.msgs = Append(@, Entry("result", body))]
    /\ stage' = "saving"
    /\ RecordFile \/ UNCHANGED <<session, fileVars, raceVars>>
    /\ UNCHANGED <<rowIds, rowsPut, guardVars, body, calls, drained, sumVars, orderVars,
                   boundVars>>

\* A turn that ends well drains the queue once; a failure of a drained message is
\* only logged, a failure of the turn's own message ends the turn with no drain.
AfterBody(ok) ==
    IF body # turn THEN "next" ELSE IF ok THEN "drain" ELSE "leave"

\* processChatRequest returns, and its locals are gone.
Return(next) == stage' = next /\ copy' = NewSession /\ calls' = 0

\* The session is put after the tools of one iteration; ten iterations are an error.
Save ==
    /\ stage = "saving"
    /\ Put("turn", copy)
    /\ IF calls + 1 < MaxIterations
       THEN calls' = calls + 1 /\ stage' = "thinking" /\ UNCHANGED copy
       ELSE Return(AfterBody(FALSE))
    /\ UNCHANGED <<rowIds, rowsPut, fileVars, guardVars, body, drained,
                   sumVars, orderVars, boundVars>>

\* The final answer is put.
Close ==
    /\ stage = "closing"
    /\ Put("turn", copy)
    /\ Return(AfterBody(TRUE))
    /\ UNCHANGED <<rowIds, rowsPut, fileVars, guardVars, body, drained,
                   sumVars, orderVars, boundVars>>

\* The LLM call fails, or the quota callback blocks it (which is no error).
Stop ==
    /\ stage = "thinking"
    /\ \E blocked \in BOOLEAN : Return(AfterBody(blocked))
    /\ stale' = stale \ {"turn"}
    /\ UNCHANGED <<storeVars, guardVars, body, drained, sumVars, orderVars, lostUpdate,
                   boundVars>>

\* DrainQueue: the whole queue, once.
Drain ==
    /\ stage = "drain"
    /\ drained' = queue /\ queue' = <<>>
    /\ stage' = "next"
    /\ UNCHANGED <<storeVars, inProgress, turn, pc, body, calls, copy, sumVars, orderVars,
                   raceVars, boundVars>>

NextDrained ==
    /\ stage = "next" /\ drained # <<>>
    /\ body' = Head(drained) /\ drained' = Tail(drained)
    /\ stage' = "append"
    /\ UNCHANGED <<storeVars, guardVars, calls, copy, sumVars, orderVars, raceVars, boundVars>>

\* The flag is cleared, the mutex released and the caller answered.
Leave ==
    /\ stage = "leave" \/ (stage = "next" /\ drained = <<>>)
    /\ pc' = [pc EXCEPT ![turn] = IF stage = "next" THEN "answered" ELSE "failed"]
    /\ inProgress' = FALSE /\ turn' = NoMessage
    /\ stage' = "none" /\ body' = NoMessage
    /\ UNCHANGED <<storeVars, queue, calls, copy, drained, sumVars, orderVars, raceVars,
                   boundVars>>

-----------------------------------------------------------------------------
(* The summarizer and the uploads.                                         *)

\* checkAndSummarizeSessions finds the session eligible in a listing of all sessions.
Eligible(s) == Len(s.msgs) >= IF s.summarized THEN Subsequent ELSE First

Select ==
    /\ sumPc = "idle" /\ summaries < MaxSummaries
    /\ Eligible(session)
    /\ sumPc' = "listed" /\ summaries' = summaries + 1
    /\ UNCHANGED <<storeVars, guardVars, turnVars, sumCopy, orderVars, raceVars, uploads>>

\* summarizeSession re-fetches it under the SessionHandler's lock, not the turn's.
SumFetch ==
    /\ sumPc = "listed"
    /\ sumCopy' = session
    /\ sumPc' = "thinking"
    /\ UNCHANGED <<storeVars, guardVars, turnVars, orderVars, raceVars, boundVars>>

\* summarizeSession archives what lies before the cut.
Summarized(s) ==
    LET cut == Cut(s.msgs) IN
    [s EXCEPT !.msgs = SubSeq(@, cut + 1, Len(@)),
              !.archived = @ \o SubSeq(s.msgs, 1, cut),
              !.summarized = TRUE]

\* The LLM has answered: older messages are archived and the session is put.
SumPut ==
    /\ sumPc = "thinking"
    /\ Put("summary", Summarized(sumCopy))
    /\ sumPc' = "idle" /\ sumCopy' = NewSession
    /\ UNCHANGED <<rowIds, rowsPut, fileVars, guardVars, turnVars, orderVars,
                   boundVars>>

\* The LLM fails, or reports offensive content: nothing is saved.
SumFail ==
    /\ sumPc = "thinking"
    /\ sumPc' = "idle" /\ sumCopy' = NewSession
    /\ stale' = stale \ {"summary"}
    /\ UNCHANGED <<storeVars, guardVars, turnVars, orderVars, lostUpdate, boundVars>>

\* ProcessMessageWithFiles records what the user attached before it sends the message.
Upload ==
    /\ uploads < MaxUploads
    /\ RecordFile
    /\ uploads' = uploads + 1
    /\ UNCHANGED <<rowIds, rowsPut, guardVars, turnVars, sumVars, orderVars, summaries>>

-----------------------------------------------------------------------------
TurnStep ==
    \/ Fetch \/ Clean \/ AppendUser \/ Think \/ Tool \/ Save \/ Close \/ Stop
    \/ Drain \/ NextDrained \/ Leave

SumStep == Select \/ SumFetch \/ SumPut \/ SumFail

Next ==
    \/ \E m \in Messages : Send(m) \/ Enqueue(m) \/ GiveUp(m) \/ Begin(m)
    \/ \E n \in Nodes : UseNode(n)
    \/ TurnStep \/ SumStep \/ Upload

Spec == Init /\ [][Next]_vars

(* A caller that may go on does; the mutex hands itself to each waiter in  *)
(* turn; the LLM and the tools answer or fail.                             *)
Fairness ==
    /\ \A m \in Messages : WF_vars(Enqueue(m)) /\ SF_vars(Begin(m) \/ GiveUp(m))
    /\ WF_vars(TurnStep)

FairSpec == Spec /\ Fairness

-----------------------------------------------------------------------------
(* Properties.                                                             *)

Stages == {"none", "clean", "cleaning", "append", "appending", "load", "thinking", "tool",
           "saving", "closing", "drain", "next", "leave"}

TypeOK ==
    /\ session \in Session /\ copy \in Session /\ sumCopy \in Session
    /\ rowIds \subseteq Nat /\ rowsPut \in Nat /\ fileIds \subseteq Nat /\ filesPut \in Nat
    /\ openRow \subseteq Nodes
    /\ inProgress \in BOOLEAN /\ queue \in Seq(Messages) /\ Len(queue) <= QueueCap
    /\ turn \in Messages \cup {NoMessage} /\ body \in Messages \cup {NoMessage}
    /\ pc \in [Messages -> {"unsent", "queueing", "waiting", "turn", "acked", "answered",
                            "failed"}]
    /\ stage \in Stages /\ calls \in 0..MaxIterations /\ drained \in Seq(Messages)
    /\ sumPc \in {"idle", "listed", "thinking"}
    /\ begun \in Seq(Messages) /\ acked \in Seq(Messages)
    /\ ahead \in [Messages -> SUBSET Messages]
    /\ stale \subseteq {"turn", "summary"} /\ lostUpdate \in BOOLEAN
    /\ summaries \in 0..MaxSummaries /\ uploads \in 0..MaxUploads

History == Users(session.archived \o session.msgs)

\* Whatever copies overtake one another, the session's user messages are in the order
\* in which they were handled, each at most once: a drained queue, a summary and a late
\* Put may lose messages but never repeat or swap them.
HistoryInOrder ==
    LET history == History IN
    \A i, j \in DOMAIN history : i < j =>
        \E a, b \in DOMAIN begun : a < b /\ begun[a] = history[i].of /\ begun[b] = history[j].of

\* A message is handled at most once, and queued ones in the order they were queued.
HandledOnce == \A i, j \in DOMAIN begun : begun[i] = begun[j] => i = j
QueueIsFifo ==
    \A i, j \in DOMAIN acked : i < j /\ acked[j] \in Range(begun) =>
        \E a, b \in DOMAIN begun : a < b /\ begun[a] = acked[i] /\ begun[b] = acked[j]
QueueHandledInOrder == HandledOnce /\ QueueIsFifo

\* A tool result in the active window always follows its call: the rolling window, the
\* clean-up and failed turns never leave one the LLM would reject.
ToolResultsPaired ==
    \A i \in DOMAIN session.msgs : session.msgs[i].kind = "result" =>
        i > 1 /\ session.msgs[i - 1] = Entry("call", session.msgs[i].of)

\* As long as no stale copy was put back, the session holds every message handled so far ...
NothingLost ==
    LET history == History
    IN  ~lostUpdate => [i \in DOMAIN history |-> history[i].of] = begun

\* ... and no message row and no file row has replaced another.
IdsUnique ==
    ~lostUpdate => /\ Cardinality(rowIds) = rowsPut
                   /\ Cardinality(fileIds) = filesPut
NothingReplaced == NothingLost /\ IdsUnique

\* Every caller is answered, queued or told of a failure: no turn is left open and no
\* waiter starved.
CallersReturn ==
    \A m \in Messages : pc[m] \in {"queueing", "waiting", "turn"}
                            ~> pc[m] \in {"acked", "answered", "failed"}

-----------------------------------------------------------------------------
(* What the repository says of a session and the code does not keep.       *)

\* "Your message was queued and will be answered in order": a message is not handled
\* while one that was queued before it was sent still waits.
AnsweredInOrder ==
    [][\A m \in Messages : m \in Range(begun') \ Range(begun) =>
          ahead[m] \subseteq Range(begun)]_begun

\* GenerateMessageIDWithSeq "generates a unique message ID": no row replaces another.
MessageIdsUnique == Cardinality(rowIds) = rowsPut

\* "The file is now available in your context": what opened_files says is open is opened in
\* the session, ...
OpenedIsAvailable == openRow \subseteq session.opened

\* ... and, as GenerateFileID "generates a unique file ID", the other way round.
OpenedIsRecorded == session.opened \subseteq openRow
=============================================================================
