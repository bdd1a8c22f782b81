SPECIFICATION Spec
CONSTANTS
    MaxUint32 = 1000
    MaxInt32 = 1000
    MaxUint64 = 1000000
    Second = 4
    Configs <- Rates
    Durations = {1, 2, 5}
    MaxGiven = 12
    MayRefuse = TRUE
INVARIANTS
    DriftBounded
CHECK_DEADLOCK FALSE
