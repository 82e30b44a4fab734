\* A text, an image and a scheduled message, two LLM calls a turn, one session change and two
\* summaries, over a store that reads sessions from its table.
CONSTANTS
    Callers = {text, image, scheduled}
    Images = {image}
    Scheduled = {scheduled}
    NoCaller = NoCaller
    CachedReads = FALSE
    StoreMayFail = TRUE
    MaxIterations = 2
    MaxChanges = 1
    MaxSummaries = 1
SPECIFICATION FairSpec
CHECK_DEADLOCK FALSE
INVARIANTS TypeOK FlagHasTurn  MessageIdsUnique
PROPERTIES CallersReturn
