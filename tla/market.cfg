SPECIFICATION MarketSpec
CONSTANTS
    User = {alice, bob}
    Market = market
    NFT = {n1, n2}
    None = none
    MaxTime = 2
    Funds = 2
    PauseInfos = {}
    BlockSets = {}
    Fees = {1}
    RoyaltyBps = {}
    Recipients = {bob}
    Types = {"English"}
    Starts = {1}
    Reserves = {2}
    Amounts = {1, 2}
    Increments = {1}
    MinIncrementBps = 3000
    MaxDuration = 1
    Window = 0
    RevealPeriod = 0
    CommitReveal = FALSE
    MaxAuctions = 2
    MaxBids = 1
    Prices = {2}
    MaxDealTime = 1
    MaxSales = 1
    MaxTrades = 0
    MaxBundles = 0
    AllowRescue = FALSE
SYMMETRY Symmetric
INVARIANTS
    BooksBalance
PROPERTIES
    KeepsPromise
    DealsStayClosed
CHECK_DEADLOCK FALSE
