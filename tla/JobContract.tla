----------------------------- MODULE JobContract -----------------------------
(***************************************************************************)
(* What the browser sidecar promises the calls of its HTTP API (create,    *)
(* get and cancel of src/browseruse/sidecar/app/jobs.py): the table never  *)
(* exceeds its size and forgets only jobs that are over; a job is queued,  *)
(* perhaps running, then over for good; the profile of a session is in one *)
(* job's hands at a time, and never in those of a job that is over; nobody *)
(* sleeps through a change, and what a cancel was told stays true.         *)
(* Nothing is said of tasks, awaits, locks and slots, of the order in      *)
(* which jobs begin, or of whether they ever do.                           *)
(***************************************************************************)
EXTENDS Naturals, FiniteSets

CONSTANTS
    Jobs, Sessions,
    Getters, Cancellers,   \* calls that wait for a job, or end it
    MaxJobs, MaxConcurrentJobs,
    NoJob, NoSession

VARIABLES
    listed,     \* the jobs the table shows
    session,    \* whose profile each job asks for
    status,     \* each job, as get reports it
    using,      \* the jobs that have a browser in their hands
    asleep,     \* the job each get sleeps on
    told        \* what each cancel returned: a job and its end, or nothing

vars == <<listed, session, status, using, asleep, told>>

Over(j) == status[j] \in {"succeeded", "failed", "cancelled"}

Init ==
    /\ listed = {} /\ using = {}
    /\ session = [j \in Jobs |-> NoSession] /\ status = [j \in Jobs |-> "none"]
    /\ asleep = [c \in Getters |-> NoJob] /\ told = [c \in Cancellers |-> <<>>]

\* Whoever sleeps on a job that changes is woken.
Becomes(j, new) ==
    /\ status' = [status EXCEPT ![j] = new]
    /\ asleep' = [c \in Getters |-> IF asleep[c] = j THEN NoJob ELSE asleep[c]]

\* A new job finds room, if need be that of jobs that are over.
Submit(j, s) ==
    /\ status[j] = "none" /\ status' = [status EXCEPT ![j] = "queued"]
    /\ listed' \subseteq listed \cup {j} /\ j \in listed' /\ Cardinality(listed') <= MaxJobs
    /\ \A i \in listed : Over(i) \/ i \in listed'
    /\ session' = [session EXCEPT ![j] = s]
    /\ UNCHANGED <<using, asleep, told>>

\* A job gets its session's profile, alone, with few others beside it.
Begin(j) ==
    /\ status[j] = "queued" /\ j \in listed
    /\ Becomes(j, "running")
    /\ Cardinality(using) < MaxConcurrentJobs
    /\ \A i \in using : session[i] # session[j]
    /\ using' = using \cup {j}
    /\ UNCHANGED <<listed, session, told>>

\* It lets go of it before it is over.
LetGo(j) ==
    /\ status[j] = "running" /\ j \in using
    /\ using' = using \ {j}
    /\ UNCHANGED <<listed, session, status, asleep, told>>

\* What a cancel returns.
Tells(c, j, end) == told[c] = <<>> /\ told' = [told EXCEPT ![c] = <<j, end>>]

\* Only a job that has begun can succeed or fail; a cancel may be what ends one.
End(j, end) ==
    /\ ~Over(j) /\ Becomes(j, end)
    /\ j \in listed \ using
    /\ end # "cancelled" => status[j] = "running"
    /\ \/ UNCHANGED told
       \/ end = "cancelled" /\ \E c \in Cancellers : Tells(c, j, end)
    /\ UNCHANGED <<listed, session, using>>

\* A cancel returns the end the job has.
Report(c, j) ==
    /\ Over(j) /\ UNCHANGED <<status, listed, session, using, asleep>>
    /\ Tells(c, j, status[j])

\* A get falls asleep on a job that is not over, and wakes up when its time is.
Sleep(c, j) ==
    /\ UNCHANGED <<status, listed, session, using, told>>
    /\ j \in listed /\ ~Over(j) /\ asleep[c] = NoJob
    /\ asleep' = [asleep EXCEPT ![c] = j]

TimeOut(c) ==
    /\ UNCHANGED <<status, listed, session, using, told>>
    /\ asleep' = [asleep EXCEPT ![c] = NoJob]

Next ==
    \/ \E c \in Getters : TimeOut(c) \/ \E j \in Jobs : Sleep(c, j)
    \/ \E j \in Jobs :
          \/ Begin(j) \/ LetGo(j)
          \/ \E s \in Sessions : Submit(j, s)
          \/ \E end \in {"succeeded", "failed", "cancelled"} : End(j, end)
          \/ \E c \in Cancellers : Report(c, j)

Spec == Init /\ [][Next]_vars
=============================================================================
