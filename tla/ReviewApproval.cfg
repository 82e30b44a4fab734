\* A tool call and a host, two reviews of which one expires, two answers, one
\* DeleteUserData, and a store that fails now and then.
CONSTANTS
    Reviews = {r1, r2}
    Expiring = {r2}
    Gates = {g1}
    Hosts = {h1}
    Answers = {a1, a2}
    MaxDeletes = 1
    StoreMayFail = TRUE
    NoReview = NoReview
    NoAnswer = NoAnswer
SPECIFICATION Spec
CHECK_DEADLOCK FALSE
SYMMETRY Symmetry
INVARIANTS TypeOK FailsClosed HeardOnce NoLostWakeup NoWaiterLeaks
PROPERTIES KeepsContract
