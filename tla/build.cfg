SPECIFICATION FairSpec
CONSTANTS
    Tags = {t1, t2}
    MaxLogs = 2
    Faults = TRUE
INVARIANTS
    InterruptCancels
    ReturnedIsDone
    TagsOfSuccess
PROPERTIES
    PushEnds
CHECK_DEADLOCK FALSE
