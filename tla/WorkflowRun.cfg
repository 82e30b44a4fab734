\* Every relation on four tasks, cyclic or not, cancelled, crashed or denied a write at any point.
CONSTANTS
    NumTasks = 4
    StoreMayFail = TRUE
SPECIFICATION FairSpec
CHECK_DEADLOCK FALSE
INVARIANTS TypeOK CallsAreRecorded RowTellsTheTruth
PROPERTIES RowKeepsContract RunSettles
