SPECIFICATION Spec
CHECK_DEADLOCK FALSE
CONSTANTS
    Concurrencies = {1, 2}
    Total = 3
    Gateway = {g1, g2}
    AttemptLimits = {2, 3}
    Threshold = 2
INVARIANT NothingLost
INVARIANT TotalsAgree
INVARIANT NoPanic
INVARIANT VerdictSound
PROPERTY Terminates
