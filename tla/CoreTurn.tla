------------------------------ MODULE CoreTurn ------------------------------
(***************************************************************************)
(* The Core of one user (src/core): callers that find the user busy or     *)
(* take the user's mutex, the turn of a text (core.go, llm.go, tools.go)   *)
(* or of an image (vision.go), the cached system prompt every turn is      *)
(* built on (llm.go), and the background summarizer                        *)
(* (src/engine/schedules.go) that writes the same sessions and drops the   *)
(* same cache, under no lock that a turn holds.                            *)
(*                                                                         *)
(* The prompt is data collected from elsewhere: the user's files, sessions *)
(* and summaries.  Each is a version here, counted up at every change, so  *)
(* that a prompt is the versions it was built from.                        *)
(***************************************************************************)
EXTENDS Naturals, FiniteSets, FiniteSetsExt

CONSTANTS
    Callers,           \* each sends one message
    Images, Scheduled, \* by ProcessMessageWithImage, by ProcessScheduledMessage
    NoCaller,          \* model value: the mutex is free
    CachedReads,       \* DBStore serves a session from its cache; SQLiteStore and
                       \* MongoDBStore read it, and restore its message counter
    StoreMayFail,      \* whether Put may return an error
    MaxIterations,     \* the LLM calls of a turn
    MaxChanges, MaxSummaries  \* bounds on session changes and summarizations

ASSUME ConstantsAssumption ==
    /\ Images \subseteq Callers /\ Scheduled \subseteq Callers \ Images
    /\ NoCaller \notin Callers /\ CachedReads \in BOOLEAN /\ StoreMayFail \in BOOLEAN
    /\ MaxIterations \in Nat \ {0} /\ MaxChanges \in Nat /\ MaxSummaries \in Nat

VARIABLES
    \* the store: the Core session's row, and what else a prompt is built from
    row,                  \* [seq, fileSeq, memory]: two counters and a summary
    uploads, sessions, worker,   \* versions: files, sessions, a worker's summary
    msgIds, msgsPut,      \* ids in the messages table, and the inserts that made them
    fileIds,              \* ids in user_files
    \* the Core's memory
    cache,                \* the cached prompt: no entry or one
    inProgress,           \* userProgress; its queue, the acknowledged callers, is never read
    pc,                   \* each caller
    turn, stage,          \* who holds the mutex, and where the turn is
    copy, prompt, calls,  \* what the turn holds
    \* the summarizer
    sumPc, sumOf, sumCopy, summaries,
    told                  \* history: the worker summary last announced

storeVars == <<row, uploads, sessions, worker, msgIds, msgsPut, fileIds>>
guardVars == <<inProgress, pc, turn>>
turnVars  == <<copy, prompt, calls>>
sumVars   == <<sumPc, sumOf, sumCopy, summaries, told>>
vars == <<storeVars, cache, guardVars, stage, turnVars, sumVars>>

NewSession == [seq |-> 0, fileSeq |-> 0, memory |-> 0]
NoPrompt   == [files |-> 0, sessions |-> 0, core |-> 0, worker |-> 0]

\* A slip: the counter is not restored.  (Slips are mistakes a maintainer could make; no
\* specification uses them, each breaks a property stated at the end.)
SlipGot == row

\* Sessions.Get: a copy; read from the table, its counter is at least the highest id.
Got == IF CachedReads THEN row ELSE [row EXCEPT !.seq = Max(msgIds \cup {@})]

PutMessage(id) ==
    /\ msgIds' = msgIds \cup {id}
    /\ msgsPut' = msgsPut + 1

Init ==
    /\ row = NewSession /\ uploads = 0 /\ sessions = 0 /\ worker = 0
    /\ msgIds = {} /\ msgsPut = 0 /\ fileIds = {}
    /\ cache = {} /\ inProgress = FALSE
    /\ pc = [c \in Callers |-> "unsent"] /\ turn = NoCaller /\ stage = "none"
    /\ copy = NewSession /\ prompt = NoPrompt /\ calls = 0
    /\ sumPc = "idle" /\ sumOf = "core" /\ sumCopy = NewSession /\ summaries = 0 /\ told = 0

-----------------------------------------------------------------------------
(* Callers.                                                                *)

\* TryQueue reads the flag under one lock; a scheduled message does not ask.
Look(c) ==
    /\ pc[c] = "unsent"
    /\ pc' = [pc EXCEPT ![c] = IF inProgress /\ c \notin Scheduled THEN "queueing" ELSE "waiting"]
    /\ UNCHANGED <<storeVars, cache, inProgress, turn, stage, turnVars, sumVars>>

\* ... and appends under another; nothing in the Core drains this queue.
Queue(c) ==
    /\ pc[c] = "queueing"
    /\ pc' = [pc EXCEPT ![c] = "acked"]
    /\ UNCHANGED <<storeVars, cache, inProgress, turn, stage, turnVars, sumVars>>

Lock(c) ==
    /\ pc[c] = "waiting" /\ turn = NoCaller
    /\ turn' = c /\ stage' = "locked"
    /\ pc' = [pc EXCEPT ![c] = "turn"]
    /\ UNCHANGED <<storeVars, cache, inProgress, turnVars, sumVars>>

\* A slip: the early return leaves the mutex locked.
SlipAbandon ==
    /\ stage = "locked" /\ turn \notin Images
    /\ stage' = "abandoned"
    /\ UNCHANGED <<storeVars, cache, guardVars, turnVars, sumVars>>

\* A scheduled message whose ctx ended while it waited; a text whose caller wants the
\* generated files and cannot list them.
Abandon ==
    /\ stage = "locked" /\ turn \notin Images
    /\ stage' = "cleared"
    /\ UNCHANGED <<storeVars, cache, guardVars, turnVars, sumVars>>

Begin ==
    /\ stage = "locked"
    /\ inProgress' = TRUE /\ stage' = "begun"
    /\ UNCHANGED <<storeVars, cache, pc, turn, turnVars, sumVars>>

\* A slip: the flag is left up.
SlipClear ==
    /\ stage = "ending"
    /\ stage' = "cleared"
    /\ UNCHANGED <<storeVars, cache, guardVars, turnVars, sumVars>>

\* The deferred calls run in this order.
Clear ==
    /\ stage = "ending"
    /\ inProgress' = FALSE /\ stage' = "cleared"
    /\ UNCHANGED <<storeVars, cache, pc, turn, turnVars, sumVars>>

Unlock ==
    /\ stage = "cleared"
    /\ turn' = NoCaller /\ stage' = "none"
    /\ pc' = [pc EXCEPT ![turn] = "done"]
    /\ copy' = NewSession /\ prompt' = NoPrompt /\ calls' = 0
    /\ UNCHANGED <<storeVars, cache, inProgress, sumVars>>

-----------------------------------------------------------------------------
(* A turn, up to its prompt.                                               *)

\* Not ready, banned, nonsense, over the quota, or no prompt could be built: an answer
\* or an error, and nothing is kept of the message.
Refuse ==
    /\ stage \in {"begun", "loaded", "noting", "asking"}
    /\ stage' = "ending"
    /\ UNCHANGED <<storeVars, cache, guardVars, turnVars, sumVars>>

\* getOrCreateCoreSession: the row, not what the map holds.
Load ==
    /\ stage = "begun"
    /\ copy' = Got
    /\ stage' = IF turn \in Images THEN "loaded" ELSE "asking"
    /\ UNCHANGED <<storeVars, cache, guardVars, prompt, calls, sumVars>>

\* The recorder gets the same session again and puts it back with one more file.
Upload ==
    /\ stage = "loaded"
    /\ row' = [Got EXCEPT !.fileSeq = @ + 1]
    /\ fileIds' = fileIds \cup {row.fileSeq + 1} /\ uploads' = uploads + 1
    /\ stage' = "uploaded"
    /\ UNCHANGED <<sessions, worker, msgIds, msgsPut, cache, guardVars, turnVars, sumVars>>

\* No recorder, or it failed, with or without the counter: the image is answered anyway.
UploadFails ==
    /\ stage = "loaded"
    /\ UNCHANGED row \/ (StoreMayFail /\ row' = [Got EXCEPT !.fileSeq = @ + 1])
    /\ stage' = "noting"
    /\ UNCHANGED <<uploads, sessions, worker, msgIds, msgsPut, fileIds, cache, guardVars,
                   turnVars, sumVars>>

\* A slip: only an upload drops the prompt.
SlipDrop ==
    /\ stage \in {"uploaded", "changed"}
    /\ cache' = IF stage = "uploaded" THEN {} ELSE cache
    /\ stage' = IF stage = "uploaded" THEN "noting" ELSE "acting"
    /\ UNCHANGED <<storeVars, guardVars, turnVars, sumVars>>

\* invalidateSystemPrompt, after an upload and after create_session and change_session.
Drop ==
    /\ stage \in {"uploaded", "changed"}
    /\ cache' = {}
    /\ stage' = IF stage = "uploaded" THEN "noting" ELSE "acting"
    /\ UNCHANGED <<storeVars, guardVars, turnVars, sumVars>>

\* The image's message is stored at once, its session only with the answer.
NoteImage ==
    /\ stage = "noting"
    /\ copy' = [copy EXCEPT !.seq = @ + 1] /\ PutMessage(copy.seq + 1)
    /\ stage' = "asking"
    /\ UNCHANGED <<row, uploads, sessions, worker, fileIds, cache, guardVars, prompt, calls, sumVars>>

\* The entry is young enough and no later summary of the Core session is known.
Usable(e) == copy.memory \notin e.newer

Hit ==
    /\ stage = "asking"
    /\ \E e \in cache : Usable(e) /\ prompt' = e.prompt
    /\ stage' = "ready"
    /\ UNCHANGED <<storeVars, cache, guardVars, copy, calls, sumVars>>

\* buildSystemPrompts, under no lock, from the store and the session the turn holds ...
Build ==
    /\ stage = "asking" /\ \A e \in cache : ~Usable(e)
    /\ prompt' = [files |-> uploads, sessions |-> sessions, core |-> copy.memory, worker |-> worker]
    /\ stage' = "built"
    /\ UNCHANGED <<storeVars, cache, guardVars, copy, calls, sumVars>>

\* ... and the entry is as young as its storing, not as what it was built from.
Store ==
    /\ stage = "built"
    /\ cache' = {[prompt |-> prompt, newer |-> {}]}
    /\ stage' = "ready"
    /\ UNCHANGED <<storeVars, guardVars, turnVars, sumVars>>

-----------------------------------------------------------------------------
(* A text's turn.                                                          *)

\* The user's message and the session with it; a session that cannot be put ends the turn.
Save ==
    /\ stage = "ready" /\ turn \notin Images
    /\ PutMessage(copy.seq + 1) /\ copy' = [copy EXCEPT !.seq = @ + 1]
    /\ \/ row' = copy' /\ stage' = "thinking"
       \/ StoreMayFail /\ UNCHANGED row /\ stage' = "ending"
    /\ UNCHANGED <<uploads, sessions, worker, fileIds, cache, guardVars, prompt, calls, sumVars>>

\* The session's model changed with the last image: it is put once more.
SaveModel ==
    /\ stage = "thinking" /\ calls = 0
    /\ row' = copy
    /\ UNCHANGED <<uploads, sessions, worker, msgIds, msgsPut, fileIds, cache, guardVars, stage,
                   turnVars, sumVars>>

\* The LLM failed (an error), or the quota ended (an answer).
NoAnswer ==
    /\ stage = "thinking"
    /\ stage' \in {"ending", "closing"}
    /\ UNCHANGED <<storeVars, cache, guardVars, turnVars, sumVars>>

\* saveCoreMessage gets the session anew and numbers the message from this copy, which
\* nobody puts back; the answer is final or asks for tools.
Think ==
    /\ stage = "thinking"
    /\ PutMessage(Got.seq + 1) /\ calls' = calls + 1
    /\ stage' \in {"closing", "acting"}
    /\ UNCHANGED <<row, uploads, sessions, worker, fileIds, cache, guardVars, copy, prompt, sumVars>>

\* create_session or change_session.
ChangeSession ==
    /\ stage = "acting" /\ sessions < MaxChanges
    /\ sessions' = sessions + 1 /\ stage' = "changed"
    /\ UNCHANGED <<row, uploads, worker, msgIds, msgsPut, fileIds, cache, guardVars, turnVars, sumVars>>

\* A slip: the iterations are not counted against the limit.
SlipAgain ==
    /\ stage = "acting"
    /\ stage' = "thinking"
    /\ UNCHANGED <<storeVars, cache, guardVars, turnVars, sumVars>>

\* The tools are done: an agent's answer is the turn's, without another LLM call.
Dispatched ==
    /\ stage = "acting" /\ stage' = "closing"
    /\ UNCHANGED <<storeVars, cache, guardVars, turnVars, sumVars>>

Again ==
    /\ stage = "acting"
    /\ stage' = IF calls < MaxIterations THEN "thinking" ELSE "ending"
    /\ UNCHANGED <<storeVars, cache, guardVars, turnVars, sumVars>>

\* The reply, with the counters and the summary the turn began with.
Close ==
    /\ stage = "closing"
    /\ row' = copy \/ (StoreMayFail /\ UNCHANGED row)
    /\ stage' = "ending"
    /\ UNCHANGED <<uploads, sessions, worker, msgIds, msgsPut, fileIds, cache, guardVars, turnVars,
                   sumVars>>

(* An image's turn: one LLM call.                                          *)

\* The quota ended, the LLM failed or the session cannot be put.
NotSeen ==
    /\ stage = "ready" /\ turn \in Images
    /\ stage' = "ending"
    /\ UNCHANGED <<storeVars, cache, guardVars, turnVars, sumVars>>

Seen ==
    /\ stage = "ready" /\ turn \in Images
    /\ row' = copy /\ stage' = "seen"
    /\ UNCHANGED <<uploads, sessions, worker, msgIds, msgsPut, fileIds, cache, guardVars, turnVars,
                   sumVars>>

\* The reply's number is taken after the session was put.
NoteReply ==
    /\ stage = "seen"
    /\ PutMessage(copy.seq + 1) /\ stage' = "ending"
    /\ UNCHANGED <<row, uploads, sessions, worker, fileIds, cache, guardVars, turnVars, sumVars>>

-----------------------------------------------------------------------------
(* The summarizer, and time.                                               *)

Summarize(of) ==
    /\ sumPc = "idle" /\ summaries < MaxSummaries
    /\ sumPc' = "thinking" /\ sumOf' = of /\ sumCopy' = Got
    /\ UNCHANGED <<storeVars, cache, guardVars, stage, turnVars, summaries, told>>

\* No summary, an offensive one, or no row could be written.
GiveUp ==
    /\ sumPc \in {"thinking", "stamped"} /\ sumPc' = "idle"
    /\ UNCHANGED <<storeVars, cache, guardVars, stage, turnVars, sumOf, sumCopy, summaries, told>>

\* SummarizedAt: later than every entry there is.
Stamp ==
    /\ sumPc = "thinking" /\ sumPc' = "stamped" /\ summaries' = summaries + 1
    /\ IF sumOf = "core"
       THEN /\ sumCopy' = [sumCopy EXCEPT !.memory = summaries + 1]
            /\ cache' = {[e EXCEPT !.newer = @ \cup {summaries + 1}] : e \in cache}
       ELSE UNCHANGED <<sumCopy, cache>>
    /\ UNCHANGED <<storeVars, guardVars, stage, turnVars, sumOf, told>>

PutSummary ==
    /\ sumPc = "stamped" /\ sumPc' = "put"
    /\ IF sumOf = "core" THEN row' = sumCopy /\ UNCHANGED worker
                         ELSE worker' = summaries /\ UNCHANGED row
    /\ UNCHANGED <<uploads, sessions, msgIds, msgsPut, fileIds, cache, guardVars, stage, turnVars,
                   sumOf, sumCopy, summaries, told>>

\* OnSessionSummarized, wired to InvalidateSystemPromptCache.
Announce ==
    /\ sumPc = "put" /\ sumPc' = "idle"
    /\ cache' = {} /\ told' = worker
    /\ UNCHANGED <<storeVars, guardVars, stage, turnVars, sumOf, sumCopy, summaries>>

\* The TTL: an entry too old is as good as none.
Expire ==
    /\ cache # {} /\ cache' = {}
    /\ UNCHANGED <<storeVars, guardVars, stage, turnVars, sumVars>>

-----------------------------------------------------------------------------
Turn ==
    \/ Abandon \/ Begin \/ Refuse \/ Load \/ Upload \/ UploadFails \/ Drop \/ NoteImage
    \/ Hit \/ Build \/ Store
    \/ Save \/ SaveModel \/ NoAnswer \/ Think \/ ChangeSession \/ Dispatched \/ Again \/ Close
    \/ NotSeen \/ Seen \/ NoteReply
    \/ Clear \/ Unlock

Summarizer ==
    (\E of \in {"core", "worker"} : Summarize(of)) \/ GiveUp \/ Stamp \/ PutSummary \/ Announce

Next ==
    \/ \E c \in Callers : Look(c) \/ Queue(c) \/ Lock(c)
    \/ Turn \/ Summarizer \/ Expire

Spec == Init /\ [][Next]_vars

\* Goroutines go on; an LLM or a tool answers, if only because its deadline ends.
FairSpec ==
    /\ Spec /\ WF_vars(Turn)
    /\ WF_vars(\E c \in Callers : Queue(c) \/ Lock(c))

-----------------------------------------------------------------------------
(* Properties.                                                             *)

Stages == {"none", "locked", "begun", "loaded", "uploaded", "noting", "asking", "built", "ready",
           "thinking", "acting", "changed", "closing", "seen", "ending", "cleared"}
Sessions == [seq : Nat, fileSeq : Nat, memory : 0..MaxSummaries]
Prompts  == [files : Nat, sessions : 0..MaxChanges, core : 0..MaxSummaries, worker : 0..MaxSummaries]

TypeOK ==
    /\ row \in Sessions /\ copy \in Sessions /\ sumCopy \in Sessions
    /\ uploads \in Nat /\ sessions \in 0..MaxChanges /\ worker \in 0..MaxSummaries
    /\ msgIds \subseteq Nat /\ msgsPut \in Nat /\ fileIds \subseteq Nat
    /\ prompt \in Prompts
    /\ cache \subseteq [prompt : Prompts, newer : SUBSET (1..MaxSummaries)]
    /\ inProgress \in BOOLEAN
    /\ pc \in [Callers -> {"unsent", "queueing", "acked", "waiting", "turn", "done"}]
    /\ turn \in Callers \cup {NoCaller} /\ stage \in Stages /\ calls \in 0..MaxIterations
    /\ sumPc \in {"idle", "thinking", "stamped", "put"} /\ sumOf \in {"core", "worker"}
    /\ summaries \in 0..MaxSummaries /\ told \in 0..MaxSummaries

\* The in-progress flag is up only while its turn holds the mutex: a message is never
\* acknowledged as queued on account of a turn that has ended.
FlagHasTurn ==
    /\ inProgress <=> stage \notin {"none", "locked", "cleared"}
    /\ turn = NoCaller <=> stage = "none"
    /\ \A c \in Callers : pc[c] = "turn" <=> turn = c

\* Whatever is cached, and whatever the summarizer does to the cache meanwhile, a turn
\* knows the files and the sessions its user's earlier turns, and its own upload, left.
OwnChangesKnown ==
    stage = "ready" => prompt.files = uploads /\ prompt.sessions = sessions

\* GenerateMessageIDWithSeq "generates a unique message ID": no message replaces another.
MessageIdsUnique == Cardinality(msgIds) = msgsPut

\* GenerateUserFileID "generates a unique ID for a user file": no upload replaces another.
FileIdsUnique == Cardinality(fileIds) = uploads

\* InvalidateSystemPromptCache: "so a background summarization is reflected in the Core's
\* memory immediately rather than only when the TTL expires".
SummaryReflected ==
    [][Hit => prompt'.worker >= told]_vars

\* Nobody waits for ever: whoever asked is answered, be it that the message was queued.
CallersReturn ==
    []<>(\A c \in Callers : pc[c] \in {"unsent", "acked", "done"})
=============================================================================
