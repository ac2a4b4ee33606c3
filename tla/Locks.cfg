SPECIFICATION FairSpec
CONSTANTS
    p1 = p1
    p2 = p2
    t1 = t1
    t2 = t2
    t3 = t3
    t4 = t4
    t5 = t5
    NoToken = none
    Ttl = 2
    Procs = {p1, p2}
    Tokens = {t1, t2, t3, t4, t5}
    ACQUIRE_ATTEMPTS = 2
    Commands = {"locked", "unlock", "unlock --force"}
    MaxCrashes = 1
INVARIANTS
    TypeOK
    MutualExclusion
PROPERTIES
    NoLiveTakeover
    StaleLockGoes
