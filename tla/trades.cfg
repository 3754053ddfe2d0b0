SPECIFICATION Spec
CONSTANTS
    bob = bob
    User = {alice, bob}
    Market = market
    NFT = {n1, n2}
    None = none
    MaxTime = 1
    Funds = 4
    PauseInfos <- TradePause
    BlockSets <- NoBlock
    Prices = {3}
    Fees = {1}
    RoyaltyBps = {}
    Recipients = {bob}
    MaxDuration = 1
    MaxSales = 0
    MaxTrades = 2
    MaxBundles = 0
    AllowRescue = FALSE
SYMMETRY Symmetric
PROPERTIES
    ImplementsEscrow
    TradeIsMutual
CHECK_DEADLOCK FALSE
