SPECIFICATION Spec
CONSTANTS
    c1 = c1
    c2 = c2
    j1 = j1
    j2 = j2
    s1 = s1
    s2 = s2
    Clients = {c1}
    Jobs = {j1}
    Slots = {s1, s2}
    Cron = cron
    Ops = {"claim", "patch", "success"}
    Passes = {"settle"}
    Second = 1
    LeaseSecs = 2
    LostLimit = 2
    MaxStall = 1
    LastStart = 2
    MaxTime = 4
    MaxFlags = 2
    MaxCrashes = 0
    Deadline <- NoDeadline
    Roster <- OpenRoster
    Profiles <- TwoProfiles
    Match <- MatchFirst
    Fetchable <- AllFetchable
SYMMETRY SlotSymmetry
INVARIANTS
    NoJobLost
PROPERTIES
    MaintenanceKeepsLiveLeases
    FinishedStaysFinished
    LostLimitRetires
