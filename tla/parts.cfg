SPECIFICATION Spec
CONSTANTS
    alice = alice
    bob = bob
    User = {alice, bob}
    Configs <- SomeConfigs
    Amounts = {0, 1, 5, 7, 33}
    RoyaltyBps = {0, 1, 750, 5000}
    MaxVolume = 20
    Operations <- SomeOperations
    Ceilings = {2, 4}
    DefaultGasCeiling = 3
    Initial <- SomeInitial
    MaxOperations = 3
    MaxTx = 2
    Account = {alice, bob}
    None = None
    Token = {t1, t2}
    Limits = {0, 1}
    Fees = {0, 2}
    Supplies = {1, None}
    MaxCollections = 1
    Funds = 2
    Deployer = alice
    Role = {"OWNER", "BURNER"}
    HardCap = 2
    MaxBatch = 2
    MaxId = 2
    MaxOld = 2
    WithEmail = {bob}
    Wallet = {w1, w2}
    WalletRequest = {q1, q2}
    MaxCalls = 4
    WebCall = {c1, c2, c3}
    File = {f1, f2}
    Large = {f2}
    Uploader = {u1}
    Request = {r1, r2}
    Attempts = 2
    MaxUploadFaults = 1
    MaxWrites = 3
    MaxSearchFaults = 1
INVARIANTS
    VolumeNeverCosts
    RunsOnceInOrder
    AcyclicCanRun
    TablesAgree
    ApprovalIsOwners
    UpgradeLeavesNone
    TokensAreTheMembers
    AnswersAgree
    StaleHasCause
PROPERTIES
    OneWalletStays
CHECK_DEADLOCK FALSE
