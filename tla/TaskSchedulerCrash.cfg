\* Two API calls, three launches of one schedule, and a crash between any two steps.
CONSTANTS
    Schedules = {s1}
    Runs = {r1, r2, r3}
    Loops = {l1, l2}
    Callers = {c1, c2}
    MaxRunsChoices = {2}
    MaxCrashes = 1
    StoreMayFail = FALSE
    StartWhileStopping = TRUE
    NoRun = NoRun
    NoLoop = NoLoop
    NoSchedule = NoSchedule
SPECIFICATION Spec
CHECK_DEADLOCK FALSE
SYMMETRY Symmetry
INVARIANTS TypeOK NoOverlap RunningIsBacked PauseCancels CountIsTrue
PROPERTIES NoDuplicateAfterRestart KeepsContract
