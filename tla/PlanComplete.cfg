SPECIFICATION Spec
CONSTANTS
    Plans = {1, 2}
    Ingesting = {2}
    MaxEvents = 1
INVARIANTS
    CompleteMeansDone
CHECK_DEADLOCK FALSE
