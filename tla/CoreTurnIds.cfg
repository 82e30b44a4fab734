\* Two texts, over the store Agentize makes by default, which caches sessions.
CONSTANTS
    Callers = {text, another}
    Images = {}
    Scheduled = {}
    NoCaller = NoCaller
    CachedReads = TRUE
    StoreMayFail = FALSE
    MaxIterations = 2
    MaxChanges = 0
    MaxSummaries = 0
SPECIFICATION Spec
CHECK_DEADLOCK FALSE
INVARIANTS MessageIdsUnique
