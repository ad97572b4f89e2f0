SPECIFICATION HubFairSpec
CONSTANTS
    Clients = {c1, c2}
    BroadcastCap = 2
    SendCap = 2
    MaxMessages = 4
CHECK_DEADLOCK FALSE
INVARIANTS
    MembersAreOpen
    NoMessageSkipped
PROPERTIES
    HubNeverStalls
    FailedLeaves
