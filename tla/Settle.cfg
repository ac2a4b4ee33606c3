SPECIFICATION FairSpec
CONSTANTS
    c1 = c1
    c2 = c2
    j1 = j1
    j2 = j2
    s1 = s1
    s2 = s2
    Clients = {c1}
    Jobs = {j1}
    Slots = {s1}
    Cron = cron
    Ops = {"claim", "heartbeat", "failure"}
    Passes = {"settle", "retire"}
    Second = 1
    LeaseSecs = 1
    LostLimit = 1
    MaxStall = 1
    LastStart = 3
    MaxTime = 3
    MaxFlags = 0
    MaxCrashes = 1
    Deadline <- FirstExpires
    Roster <- OpenRoster
    Profiles <- TwoProfiles
    Match <- MatchFirst
    Fetchable <- AllFetchable
PROPERTIES
    DeadlineSettles
    RecordedLeaves
