SPECIFICATION Spec
CONSTANTS
    MaxTokens = 2
    TokensToAdd = 1
    Interval = 2
    BaseTtl = 1
    SettleWindow = 1
    MaxDebt = 0
    Attempts = {a1, a2}
    Costs = {1}
    Actuals = {0, 2}
    FreezeTime = 2
    FreezeKinds = {TRUE, FALSE}
    MaxFreezes = 1
    MaxResets = 1
    MaxTime = 5
INVARIANTS
    NoOverspend
    EmptiedStaysEmptied
    ChargedOnce
PROPERTIES
    ExpiryEarned
SYMMETRY AttemptSymmetry
CHECK_DEADLOCK FALSE
