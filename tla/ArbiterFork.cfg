SPECIFICATION Spec
CONSTANTS
    N = 4
    Blocks <- Competing
    Self = 3
    Faulty = {0}
    OrderedEvents = FALSE
    OtherHeights = TRUE
    PeerVotes = {TRUE}
    StatusVoters = {}
    MaxRestarts = 0
    MaxView = 1
    MaxPending = 1
INVARIANTS VotesOncePerView
CHECK_DEADLOCK FALSE
