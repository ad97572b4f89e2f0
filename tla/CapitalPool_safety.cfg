SPECIFICATION Spec
CONSTANTS
    Strategies = {s1, s2}
    Symbols = {x}
    Profiles <- TwoProfiles
    StartingBalance = 100
    BaseSizes = {7}
    TotalExpCapPct = 30
    PnLs <- SmallPnLs
    MinBalance = 100
    MaxBalance = 106
    MaxDailyPnL = 6
    MaxHeld = 3
    NotMarking = notMarking
SYMMETRY Symmetry
INVARIANTS
    AllocationWithinCap
    BooksNeverOverstate
PROPERTIES
    OpenPositionsLimited
    SuspensionHolds
    PeakIsHighWater
