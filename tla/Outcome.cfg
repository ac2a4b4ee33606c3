SPECIFICATION FairSpec
CONSTANTS
    w1 = w1
    w2 = w2
    Writers = {w1, w2}
    MaxWrites = 2
    MaxFaults = 2
    MaxParks = 1
INVARIANTS
    TypeOK
    RowIsLatest
PROPERTIES
    Repaired
CHECK_DEADLOCK FALSE
ACTION_CONSTRAINTS FirstIdle TwoDisturbances
