SPECIFICATION Spec
CONSTANTS
    StartingBalance = 200
    DailyLossLimitPct = 50
    SoftHaltThresholdPct = 25
    HardHaltThresholdPct = 50
    MaxDrawdownPct = 100
    ConsistencyThreshold = 20
    ProfitTargetPct = 50
    MinTradingDays = 2
    PnLs <- Fills
    MaxMove = 25
    MaxDays = 3
    MaxPhase = 2
INVARIANTS
    WithinLimitsUnlessHalted
    TargetNeedsDays
PROPERTIES
    BreachIsFinal
