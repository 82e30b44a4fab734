\* Three messages, a queue that holds two; a summary twice, at any moment.
CONSTANTS
    Messages = {m1, m2, m3}
    Scheduled = {}
    NoMessage = NoMessage
    QueueCap = 2
    MaxIterations = 2
    Retain = 1
    First = 2
    Subsequent = 3
    MaxSummaries = 2
    Nodes = {}
    MaxUploads = 0
SPECIFICATION Spec
CHECK_DEADLOCK FALSE
SYMMETRY Symmetry
INVARIANTS TypeOK HistoryInOrder  ToolResultsPaired 
