SPECIFICATION OracleSpec
CONSTANTS
    MaxTokens = 3
    TokensToAdd = 1
    Interval = 1
    BaseTtl = 20
    SettleWindow = 20
    MaxDebt = 2
    Attempts = {a1, a2, a3}
    Costs = {1, 2}
    Actuals = {0, 1, 3}
    FreezeTime = 2
    FreezeKinds = {}
    MaxFreezes = 0
    MaxResets = 0
    MaxTime = 5
INVARIANTS
    DebitsNeverUndercharged
    CreditsNeverLost
SYMMETRY AttemptSymmetry
CHECK_DEADLOCK FALSE
