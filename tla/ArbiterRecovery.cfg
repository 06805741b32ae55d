SPECIFICATION Spec
CONSTANTS
    N = 4
    Blocks <- Competing
    Self = 1
    Faulty = {}
    OrderedEvents = FALSE
    OtherHeights = FALSE
    PeerVotes = {}
    StatusVoters = {0}
    MaxRestarts = 0
    MaxView = 1
    MaxPending = 0
INVARIANTS ProposesOnDuty ProposesOnce 
CHECK_DEADLOCK FALSE
