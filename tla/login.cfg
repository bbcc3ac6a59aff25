SPECIFICATION Spec
CONSTANTS
    r1 = r1
    r2 = r2
    r3 = r3
    g1 = g1
    g2 = g2
    bad = bad
    NoToken = NoToken
    Elsewhere = Elsewhere
    Requests <- MCTwo
    Tokens <- MCTokens
    Good <- MCGood
    Faults = TRUE
INVARIANTS
    TokenIsSound
    SuccessPageIsTrue
PROPERTIES
    OutcomeEndsWait
\* the command ends
CHECK_DEADLOCK FALSE
