SPECIFICATION Spec
CONSTANTS
    Points <- MCPoints
    Start <- MCStart
    Period <- MCPeriod
    Effective <- MCPeriod
    Derived = {"dpos", "cr"}
    Skipped = {"dpos", "cr"}
    VoteStart = 2
    Settled = 3
    MaxRollback = 2
    MaxHeight = 6
    MaxForks = 1
    MaxCrashes = 1
INVARIANTS DefaultComplete DefaultSettled ReplaceFindsSource AppliedSinceSnapshot
PROPERTY SavingEnds
CHECK_DEADLOCK FALSE
