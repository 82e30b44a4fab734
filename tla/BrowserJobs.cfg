\* Three jobs of two sessions, two of which fit in the table; two slots, one cancel, shutdown.
CONSTANTS
    Jobs = {j1, j2, j3}
    Sessions = {s1, s2}
    MaxJobs = 2
    MaxConcurrentJobs = 2
    Getters = {g1}
    Cancellers = {c1}
    NoJob = NoJob
    NoSession = NoSession
SPECIFICATION Spec
CHECK_DEADLOCK FALSE
INVARIANTS TypeOK ProfileNotShared SlotsAccounted LockFound EndIsTold
PROPERTIES KeepsContract
SYMMETRY Symmetry
