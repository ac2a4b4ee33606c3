SPECIFICATION FairSpec
CONSTANTS
    c1 = c1
    c2 = c2
    j1 = j1
    j2 = j2
    s1 = s1
    s2 = s2
    Clients = {c1, c2}
    Jobs = {j1}
    Slots = {s1}
    Cron = cron
    Ops = {"claim", "retriable", "reclaim"}
    Passes = {"settle", "retire"}
    Second = 1
    LeaseSecs = 1
    LostLimit = 0
    MaxStall = 1
    LastStart = 3
    MaxTime = 3
    MaxFlags = 0
    MaxCrashes = 1
    Deadline <- NoDeadline
    Roster <- ClosedRoster
    Profiles <- TwoProfiles
    Match <- MatchFirst
    Fetchable <- FirstFetches
PROPERTIES
    ExhaustedSettles
    ImplementsJobLife
