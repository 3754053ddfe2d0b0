SPECIFICATION Spec
CONSTANTS
    bob = bob
    User = {alice, bob}
    Market = market
    NFT = {n1}
    None = none
    MaxTime = 4
    Funds = 4
    PauseInfos <- NoPause
    BlockSets <- NoBlock
    Fees = {1}
    RoyaltyBps = {}
    Recipients = {bob}
    Types = {"English", "Dutch"}
    Starts = {1, 6}
    Reserves = {2}
    Amounts = {1, 2}
    Increments = {1}
    MinIncrementBps = 3000
    MaxDuration = 3
    Window = 1
    RevealPeriod = 2
    CommitReveal = TRUE
    MaxAuctions = 1
    MaxBids = 2
PROPERTIES
    DutchNeverOvershoots
CHECK_DEADLOCK FALSE
