SPECIFICATION FairSpec
CONSTANTS
    j1 = j1
    eval = eval
    plain = plain
    bare = bare
    None = none
    System = system
    Jobs = {j1}
    Bodies = {eval, plain, bare}
    Evals = {eval}
    Locked = {system}
    Rowless = {bare}
    MAX_SCORE_ATTEMPTS = 2
    Lookups = {"retire"}
    Faults = {"scoring", "finalizing", "store", "service", "crash"}
    MaxFaults = 2
    MaxSubmits = 2
INVARIANTS
    TypeOK
    MissedOnlyByParking
PROPERTIES
    NoRecordLost
    ArchivedHasRows
    Drains
ACTION_CONSTRAINT Disturbances
