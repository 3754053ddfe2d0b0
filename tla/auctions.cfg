SPECIFICATION Spec
CONSTANTS
    bob = bob
    User = {alice, bob, carol}
    Market = market
    NFT = {n1}
    None = none
    MaxTime = 3
    Funds = 4
    PauseInfos <- NoPause
    BlockSets <- NoBlock
    Fees = {1}
    RoyaltyBps = {5000}
    Recipients = {carol}
    Types = {"English"}
    Starts = {1, 2}
    Reserves = {1, 3}
    Amounts = {1, 2, 3}
    Increments = {1}
    MinIncrementBps = 3000
    MaxDuration = 1
    Window = 1
    RevealPeriod = 0
    CommitReveal = FALSE
    MaxAuctions = 1
    MaxBids = 3
INVARIANTS
    CanBeEnded
PROPERTIES
    LosersMadeWhole
    HammerIsFair
    TimeToAnswer
CHECK_DEADLOCK FALSE
