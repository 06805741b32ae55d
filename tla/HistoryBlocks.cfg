SPECIFICATION Spec
CONSTANTS
    Fields = {f}
    Counters = {n}
    TempKeys = {n}
    Values = {1, 2}
    Capacity = 2
    PerHeight = 1
    MaxRollback = 2
    SpecialTxs = 1
    Disciplined = TRUE
    MaxChanges = 1
    MaxHeight = 4
INVARIANTS LogOrdered BlockStateExact RollbackExact SeekExact
CHECK_DEADLOCK FALSE
