--------------------------- MODULE ReviewContract ---------------------------
(***************************************************************************)
(* What the review manager promises those who raise, await and answer a    *)
(* review (the package comment and the doc comments of                     *)
(* src/review/review.go): a review is a register that is written once.     *)
(* Whoever is told a decision is told that one; the listeners hear it      *)
(* once, before any call of Resolve returns it; and an approval lets one   *)
(* tool call go on.  Nothing is said of mutexes, channels, timers or reads *)
(* that fail, of who answers, or of whether anybody ever does.             *)
(***************************************************************************)
EXTENDS Naturals

CONSTANTS
    Reviews,
    Callers,     \* those who await a decision
    Tools,       \* the tool calls among them
    Answers      \* the calls that give one

VARIABLES
    row,         \* each review, as the table shows it
    decisions,   \* the decisions made about it
    heard,       \* how often the listeners were told
    told,        \* what each caller was told: a decision of a review, or nothing
    answered,    \* the same for each call that gave an answer
    opened       \* the tool calls that went on

vars == <<row, decisions, heard, told, answered, opened>>

Nothing == <<>>

Init ==
    /\ row = [r \in Reviews |-> "absent"]
    /\ decisions = [r \in Reviews |-> {}] /\ heard = [r \in Reviews |-> 0]
    /\ told = [c \in Callers |-> Nothing] /\ answered = [a \in Answers |-> Nothing]
    /\ opened = {}

\* A review is raised, unless it has been decided.
Raise(r) ==
    /\ row[r] = "absent" /\ decisions[r] = {}
    /\ row' = [row EXCEPT ![r] = "pending"]
    /\ UNCHANGED <<decisions, heard, told, answered, opened>>

\* The one decision.  It may find that the row has been deleted since it was looked up.
Decide(r, d) ==
    /\ row[r] \in {"pending", "absent"} /\ decisions[r] = {}
    /\ row' = [row EXCEPT ![r] = d] /\ decisions' = [decisions EXCEPT ![r] = {d}]
    /\ UNCHANGED <<heard, told, answered, opened>>

\* A decided row changes only by going away.
Delete(r) ==
    /\ row[r] # "absent"
    /\ row' = [row EXCEPT ![r] = "absent"]
    /\ UNCHANGED <<decisions, heard, told, answered, opened>>

\* A caller is told, for good.
Tell(c, r, d) ==
    /\ decisions[r] = {d} /\ told[c] = Nothing
    /\ told' = [told EXCEPT ![c] = <<r, d>>]
    /\ UNCHANGED <<row, decisions, heard, answered, opened>>

Answered(a, r, d) ==
    /\ decisions[r] = {d} /\ answered[a] = Nothing
    /\ answered' = [answered EXCEPT ![a] = <<r, d>>]
    /\ UNCHANGED <<row, decisions, told, opened>>

\* The answer that decided is told to the listeners and returned; a later one is only
\* returned.
Announce(a, r, d) ==
    /\ heard[r] = 0 /\ heard' = [heard EXCEPT ![r] = 1]
    /\ Answered(a, r, d)

Repeat(a, r, d) ==
    /\ heard[r] = 1 /\ UNCHANGED heard
    /\ Answered(a, r, d)

\* A tool call goes on: it was told of an approval that let no other one go on.
Open(c) ==
    /\ c \notin opened
    /\ \E r \in Reviews : told[c] = <<r, "approved">> /\ decisions[r] = {"approved"}
    /\ \A other \in opened : told[other] # told[c]
    /\ opened' = opened \cup {c}
    /\ UNCHANGED <<row, decisions, heard, told, answered>>

Next ==
    \/ \E r \in Reviews :
          \/ Raise(r) \/ Delete(r)
          \/ \E d \in {"approved", "rejected"} :
                \/ Decide(r, d)
                \/ \E c \in Callers : Tell(c, r, d)
                \/ \E a \in Answers : Announce(a, r, d) \/ Repeat(a, r, d)
    \/ \E c \in Tools : Open(c)

Spec == Init /\ [][Next]_vars
=============================================================================
