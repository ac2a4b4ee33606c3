SPECIFICATION Spec
CONSTANTS
    Plans = {1, 2}
    Ingesting = {2}
    MaxEvents = 2
INVARIANTS
    TypeOK
    HeldJobKept
    CompleteIsFinished
PROPERTIES
    CancelStands
CHECK_DEADLOCK FALSE
