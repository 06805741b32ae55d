SPECIFICATION Spec
CONSTANTS
    N = 4
    Blocks <- Competing
    Self = 3
    Faulty = {0}
    OrderedEvents = TRUE
    OtherHeights = FALSE
    PeerVotes = {TRUE, FALSE}
    StatusVoters = {}
    MaxRestarts = 1
    MaxView = 0
    MaxPending = 2
INVARIANTS ConfirmsValid NeverStalls
CHECK_DEADLOCK FALSE
