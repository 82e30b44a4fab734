\* Liveness: one schedule, two launches, one API call at a time, over a store that may fail.
CONSTANTS
    Schedules = {s1}
    Runs = {r1, r2}
    Loops = {l1}
    Callers = {c1}
    MaxRunsChoices = {2}
    MaxCrashes = 0
    StoreMayFail = TRUE
    StartWhileStopping = FALSE
    NoRun = NoRun
    NoLoop = NoLoop
    NoSchedule = NoSchedule
SPECIFICATION FairSpec
CHECK_DEADLOCK FALSE
PROPERTIES  RunsEnd KeepsRunning
