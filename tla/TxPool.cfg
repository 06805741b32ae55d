SPECIFICATION Spec
CONSTANTS
    Txs = {"u1", "c", "v", "d", "w1", "w2", "q1", "q2"}
    Kind <- MCKind
    Inputs <- MCInputs
    Outputs <- MCOutputs
    SlotKeys <- MCSlotKeys
    Subject <- MCSubject
    Budget <- MCBudget
    Size <- MCSize
    FeeRate <- MCFeeRate
    Blocks <- MCBlocks
    None = None
    Funds = 3
    MaxSize = 3
    MaxHeight = 2
    MaxDisconnects = 1
    MaxRestarts = 1
INVARIANTS NoDoubleSpend NothingSpent NoKeyLeaked UsedAmountExact FeesMatchPool
CHECK_DEADLOCK FALSE
