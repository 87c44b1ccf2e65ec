CONSTANTS
    Attempts = {1, 2}
    Names = {"default", "s", "t", "q", "r"}
    DefaultName = "default"
    NoName = "unnamed"
    Cost <- MCCost
    InitLimits <- MCInitLimits
    Declared <- MCDeclared
    Interval = 1
    RequestTtl = 2
    FreezeTime = 1
    MaxTime = 2
    MaxUpdates = 1
SPECIFICATION Spec
INVARIANT RefundsOnlyWhatItTook
INVARIANT FinishedHoldsNoSlot
INVARIANT RunningIsCounted
PROPERTY AllOrNothing
CHECK_DEADLOCK FALSE
