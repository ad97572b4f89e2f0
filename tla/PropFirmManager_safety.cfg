SPECIFICATION FirmSpec
CONSTANTS
    Ids = {i1, i2}
    Contents <- BothContents
    Reconcilers = {r1, r2}
    PnLs <- FivePercent
    Starting = 100
    MaxDaily = 10
    MaxCum = 10
    MaxDays = 1
    MaxPhase = 2
    None = none
SYMMETRY Symmetry
INVARIANT
    PeakCoversPool
