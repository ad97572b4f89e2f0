SPECIFICATION FairSpec
CONSTANTS
    Handlers = {h1}
    Resumers = {r1}
    Monitor = monitor
    NoReason = noReason
    Accounts = {a1, a2}
    Primary = a1
    Batches = {2}
    MaxCallbacks = 1
    MaxRejects = 4
    MayPanic = TRUE
INVARIANTS
    SingleFlight
    HonestFlightFlag
    FlattenIsComplete
PROPERTIES
    EveryTriggerHalts
    RejectSpikeHalts
