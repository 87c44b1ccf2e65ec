SPECIFICATION Spec
CONSTANTS
    Requests <- ThreeRequests
    Passes = {p1, p2}
    Lease = 2
    FreezeTime = 1
    ThawRequestCount = 1
    MaxConcurrency = 2
    MaxRetries = 0
    Abandonable = {}
    MaxLost = 1
    LossyCalls = {"select", "judge", "nominate", "claim", "isFrozen2", "release", "now"}
    PromptPasses = FALSE
    Outcomes = {"ok", "429"}
INVARIANTS
    LedgerWithinLimit
PROPERTIES
    OneProbeAtATime
    FreezeHoldsBack
SYMMETRY PassSymmetry
CHECK_DEADLOCK FALSE
