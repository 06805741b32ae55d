SPECIFICATION Spec
CONSTANTS
    N = 4
    Blocks <- TwoHeights
    Self = 1
    Faulty = {}
    OrderedEvents = TRUE
    OtherHeights = FALSE
    PeerVotes = {TRUE}
    StatusVoters = {}
    MaxRestarts = 0
    MaxView = 1
    MaxPending = 2
INVARIANTS   ProposesOnDuty
CHECK_DEADLOCK FALSE
