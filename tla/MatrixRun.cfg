SPECIFICATION FairSpec
CONSTANTS
    Combos = 3
    AllowedSets <- MCAllowedSets
    Skippable <- MCSkippable
    Sizings = 2
    MaxWorkers = 2
    BatchSize = 2
    MaxErrors = 2
INVARIANTS
    TypeOK
    CountsAreExact
    ResultsMatchRows
    CursorIsExact
PROPERTIES
    EveryComboEnds
    BatchEnds
    ClientStops
