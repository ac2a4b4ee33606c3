SPECIFICATION FairSpec
CONSTANTS
    c1 = c1
    c2 = c2
    j1 = j1
    j2 = j2
    Clients = {c1}
    Jobs = {j1}
    Profiles <- TwoProfiles
    Match <- MatchFirst
    Deadline <- FirstDeadline
    MaxTime = 1
    MaxChurn = 2
INVARIANTS
    TypeOK
    WrongIsOwed
PROPERTIES
    Converges
    OrphansGo
