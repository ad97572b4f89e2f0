SPECIFICATION Spec
CONSTANTS
    Symbols = {s1}
    Prices = {1, 2}
    Sizes = {3}
    Capitals = {200}
    Equities = {1, 200}
    MaxOpen = 2
    MaxPositionPct = 1
    MaxTotalNotionalPct = 2
    MaxLeverage = 2
    MaxSymbolGrossPct = 2
    MaxBooked = 3
    None = none
SYMMETRY Symmetry
INVARIANT
    TypeOK
PROPERTY
    ApprovalWithinLimits
