\* Liveness: three jobs of one session, two slots, one cancellation.
CONSTANTS
    Jobs = {j1, j2, j3}
    Sessions = {s1}
    MaxJobs = 3
    MaxConcurrentJobs = 2
    Getters = {}
    Cancellers = {c1}
    NoJob = NoJob
    NoSession = NoSession
SPECIFICATION FairSpec
CHECK_DEADLOCK FALSE
PROPERTIES JobsEnd
