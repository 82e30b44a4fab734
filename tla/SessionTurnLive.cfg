\* Liveness: a queue that holds one message, a scheduled message, an upload and a
\* knowledge node.
CONSTANTS
    Messages = {m1, m2, m3}
    Scheduled = {m3}
    NoMessage = NoMessage
    QueueCap = 1
    MaxIterations = 1
    Retain = 1
    First = 2
    Subsequent = 3
    MaxSummaries = 0
    Nodes = {n1}
    MaxUploads = 1
SPECIFICATION FairSpec
CHECK_DEADLOCK FALSE
PROPERTIES CallersReturn
