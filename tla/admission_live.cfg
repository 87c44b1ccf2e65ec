SPECIFICATION FairSpec
CONSTANTS
    Requests <- ThreeRequests
    Passes = {p1, p2}
    Lease = 2
    FreezeTime = 1
    ThawRequestCount = 1
    MaxConcurrency = 1
    MaxRetries = 0
    Abandonable = {1}
    MaxLost = 1
    LossyCalls = {"select", "judge", "nominate", "isFrozen", "reread"}
    PromptPasses = TRUE
    Outcomes = {"ok", "429"}
PROPERTIES
    EventuallyAdmitted
CHECK_DEADLOCK FALSE
