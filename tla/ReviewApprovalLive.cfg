\* Liveness: the same callers, a store that works and keeps its rows.
CONSTANTS
    Reviews = {r1, r2}
    Expiring = {r2}
    Gates = {g1}
    Hosts = {h1}
    Answers = {a1, a2}
    MaxDeletes = 0
    StoreMayFail = FALSE
    NoReview = NoReview
    NoAnswer = NoAnswer
SPECIFICATION FairSpec
CHECK_DEADLOCK FALSE
PROPERTIES DecisionReaches
