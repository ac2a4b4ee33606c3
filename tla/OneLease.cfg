SPECIFICATION Spec
CONSTANTS
    c1 = c1
    c2 = c2
    j1 = j1
    j2 = j2
    s1 = s1
    s2 = s2
    Clients = {c1}
    Jobs = {j1, j2}
    Slots = {s1, s2}
    Cron = cron
    Ops = {"claim", "heartbeat", "patch", "unsuspend", "vault fault"}
    Passes = {"reindex"}
    Second = 1
    LeaseSecs = 1
    LostLimit = 0
    MaxStall = 99
    LastStart = 0
    MaxTime = 2
    MaxFlags = 2
    MaxCrashes = 0
    Deadline <- NoDeadline
    Roster <- OpenRoster
    Profiles <- TwoProfiles
    Match <- MatchFirst
    Fetchable <- AllFetchable
SYMMETRY SlotSymmetry
INVARIANTS
    TypeOK
    OneLiveLease
    StaleIndexIsFlagged
PROPERTIES
    StandingFlagCleansUp
