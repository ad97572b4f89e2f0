SPECIFICATION FairSpec
CONSTANTS
    Capacity = 4
    DrainMax = 2
    MaxTicks = 6
CHECK_DEADLOCK FALSE
INVARIANTS
    EveryTickAccounted
PROPERTIES
    IsFIFO
    StoredIsDelivered
