\* Two images of one user.
CONSTANTS
    Callers = {image, another}
    Images = {image, another}
    Scheduled = {}
    NoCaller = NoCaller
    CachedReads = FALSE
    StoreMayFail = FALSE
    MaxIterations = 1
    MaxChanges = 0
    MaxSummaries = 0
SPECIFICATION Spec
CHECK_DEADLOCK FALSE
INVARIANTS FileIdsUnique
