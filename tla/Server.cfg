SPECIFICATION ServerSpec
CHECK_DEADLOCK FALSE
CONSTANTS
    MaxWrites = 3
    Request = {r1, r2}
INVARIANT ServesValid
INVARIANT CleanDrain
INVARIANT ServerInv
PROPERTY Stops
PROPERTY ServingEditApplied
