SPECIFICATION FairSpec
CONSTANTS
    Images = {i1, i2}
    MaxPushAttempts = 3
    ApiFailures = TRUE
INVARIANTS
    InterruptSetsFailed
    EndedRunningIsTagFailure
PROPERTIES
    UntagsAfterPush
    PromiseSpec
    DeployEnds
    ImagesGetOutcome
CHECK_DEADLOCK FALSE
