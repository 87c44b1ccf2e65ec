SPECIFICATION Spec
CONSTANTS
    Requests <- TwoRequests
    Passes = {p1, p2}
    Lease = 2
    FreezeTime = 1
    ThawRequestCount = 1
    MaxConcurrency = 1
    MaxRetries = 1
    Abandonable <- TwoRequests
    MaxLost = 0
    LossyCalls = {}
    PromptPasses = FALSE
    Outcomes = {"ok", "retry", "stream"}
INVARIANTS
    AdmittedNotClaimable
    RunningHoldsSlot
    NotStranded
    NoEntryWithoutWaiter
CHECK_DEADLOCK FALSE
