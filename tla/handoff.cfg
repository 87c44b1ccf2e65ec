SPECIFICATION FairSpec
CONSTANTS
    i1 = i1
    c1 = c1
    Instances = {i1, i2, i3}
    Completions = {c1}
    Owner <- OneOwner
    Steps = 2
    MaxForwards = 4
    PromptDelivery = TRUE
    MaxLost = 1
    MaxFails = 1
    MaxRoleChanges = 1
    MaxCrashes = 1
INVARIANTS
    NeverForgotten
    NoReplayOnPromotion
PROPERTIES
    EventuallyApplied
    EventuallyQuiet
CHECK_DEADLOCK FALSE
