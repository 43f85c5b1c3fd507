SPECIFICATION FairSpec
CHECK_DEADLOCK FALSE
CONSTANTS
    c1 = c1
    c2 = c2
    c3 = c3
    Client <- Clients
    Conduct = {"bind", "pass", "close", "drop", "accept", "extern"}
    MaxOpens = 1
INVARIANT ConnectionsSound
INVARIANT NotDeaf
INVARIANT PathRemoved
PROPERTY EndsWhenDue
PROPERTY ClientServed
