SPECIFICATION Spec
CONSTANTS
    bob = bob
    User = {alice, bob}
    Market = market
    NFT = {n1, n2}
    None = none
    MaxTime = 0
    Funds = 4
    PauseInfos <- NoPause
    BlockSets <- NoBlock
    Prices = {3}
    Fees = {1}
    RoyaltyBps = {}
    Recipients = {bob}
    MaxDuration = 1
    MaxSales = 1
    MaxTrades = 1
    MaxBundles = 1
    AllowRescue = TRUE
SYMMETRY Symmetric
PROPERTIES
    ClosedIsFinal
CHECK_DEADLOCK FALSE
