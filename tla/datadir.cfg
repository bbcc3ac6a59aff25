SPECIFICATION Spec
CONSTANTS
    r1 = r1
    r2 = r2
    c1 = c1
    Runs <- MCRuns
    Contexts <- MCContexts
    Interval = 2
    Expiry = 1
    LastDay = 3
    Releases <- MCReleases
    Unknown = Unknown
    Size = 2
    NoFile = NoFile
INVARIANTS
    RefusalIsDue
    IgnoranceIsExplained
    ReadyIsExplained
SYMMETRY Symmetry
\* all runs end
CHECK_DEADLOCK FALSE
