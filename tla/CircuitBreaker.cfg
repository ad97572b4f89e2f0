SPECIFICATION FairSpec
CONSTANTS
    Callers = {c1, c2, c3}
    FailureThreshold = 3
    WarnThreshold = 2
    ResetTimeout = 2
INVARIANTS
    NeverWedged
    AuditTrailBalances
PROPERTY
    FollowsRemote
