SPECIFICATION Spec
CONSTANTS
    FullUuids <- MCFullUuids
    Slugs <- MCSlugs
    Jobs <- MCJobs
    Conditions <- MCConditions
    Kept <- MCKept
INVARIANTS
    ConsentFirst
    CloudChangesArePermitted
    RefusalIsClean
    LeftBehindIsExplained
PROPERTIES
    KeepsPromise
\* the process ends
CHECK_DEADLOCK FALSE
