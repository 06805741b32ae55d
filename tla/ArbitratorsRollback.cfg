SPECIFICATION Spec
CONSTANTS
    CRC = {c1, c2}
    Producers = {1, 2}
    Voted = {1, 2}
    GeneralArbiters = 1
    CandidateArbiters = 1
    Payloads = {"x"}
    Names <- MCNames
    MaxInactiveChanges = 2
    Capacity = 6
    Rewards = {1}
    MaxRollback = 2
    MaxHeight = 4
    MaxForks = 1
    MaxRestarts = 0
INVARIANT FollowsChainAgain
CHECK_DEADLOCK FALSE
