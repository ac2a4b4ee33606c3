SPECIFICATION FairSpec
CONSTANTS
    Calls = {1, 2, 3}
    Dates = {1, 2}
INVARIANTS
    TypeOK
    OneObject
PROPERTIES
    IsAtomic
    Answered
CHECK_DEADLOCK FALSE
