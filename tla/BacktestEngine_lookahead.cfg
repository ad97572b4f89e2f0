SPECIFICATION Spec
CONSTANTS
    a = a
    b = b
    Runs = {r1}
    Symbols = {a, b}
    PricesOf <- TwoScales
    Secondary = {}
    PropFirm = {TRUE}
    InitialCapital = 200
    WarmUpBars = 0
    Sizes = {4}
    Fee = 1
    DrawdownGuardPct = 1
    DailyLossLimitPct = 50
    SoftHaltThresholdPct = 5
    HardHaltThresholdPct = 15
    MaxDrawdownPct = 30
    ConsistencyThreshold = 5
    ProfitTargetPct = 20
    MinTradingDays = 2
    MaxPositionPct = 2
    MaxTotalNotionalPct = 3
    MaxLeverage = 5
    MaxSymbolGrossPct = 4
    MaxBars = 4
    MaxRuns = 1
    None = none
CHECK_DEADLOCK FALSE
INVARIANT
    NoLookAhead
