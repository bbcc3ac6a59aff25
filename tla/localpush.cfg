SPECIFICATION Spec
CONSTANTS
    N = 3
    Built <- MCBuilt
    maxAttempts = 3
INVARIANTS
    LeavingsAreExplained
    UnwatchedIsExplained
PROPERTIES
    SignalStopsTail
    CtrlCEnds
\* processes end
CHECK_DEADLOCK FALSE
