SPECIFICATION Spec
CONSTANTS
    bob = bob
    User = {alice, bob}
    Market = market
    NFT = {n1, n2}
    None = none
    MaxTime = 1
    Funds = 4
    PauseInfos <- NoPause
    BlockSets <- OneBlock
    Prices = {3}
    Fees = {1}
    RoyaltyBps = {5000}
    Recipients = {alice, bob}
    MaxDuration = 1
    MaxSales = 1
    MaxTrades = 0
    MaxBundles = 1
    AllowRescue = FALSE
SYMMETRY Symmetric
INVARIANTS
    MoneyConserved
    ListingsCanBeBought
    OwnersCanWithdraw
PROPERTIES
    SettledAsListed
CHECK_DEADLOCK FALSE
