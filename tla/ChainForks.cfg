SPECIFICATION FairSpec
CONSTANTS
    Blocks <- Forks
    Genesis = 0
    Parent <- ForkParent
    Height <- ForkHeight
    WorkSum <- ForkHeight
    View <- OneView
    Bad = {4}
    Irreversible = 1
    MaxOrphans = 2
    CachedCount = 1
INVARIANTS ChainInv MostWork OrphansAccepted HeardInMain RollbackBounded
PROPERTIES CleanedAreFinal CallsEnd
