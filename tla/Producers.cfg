SPECIFICATION Spec
CONSTANTS
    owner = owner
    crc = crc
    Candidates = {owner}
    ActivateDuration = 2
    MaxInactiveRounds = 1
    LockupBlocks = 1
    Capacity = 3
    ArbiterSets <- MCArbiterSets
    TxTypes = {"register", "cancel", "request", "illegal", "emergency", "return", "vote", "unvote"}
    MaxTxs = 1
    MaxRollback = 2
    MaxHeight = 5
    MaxForks = 1
INVARIANTS NoneLost TablesDisjoint RollbackExact
PROPERTY VotesFollowChain
CHECK_DEADLOCK FALSE
