SPECIFICATION Spec
CONSTANTS
    j1 = j1
    eval = eval
    plain = plain
    bare = bare
    None = none
    System = system
    Jobs = {j1}
    Bodies = {eval, plain, bare}
    Evals = {eval}
    Locked = {system}
    Rowless = {bare}
    MAX_SCORE_ATTEMPTS = 2
    Lookups = {"has_record"}
    Faults = {"scoring", "finalizing", "store", "service", "crash"}
    MaxFaults = 2
    MaxSubmits = 1
INVARIANTS
    HasRecordFinds
