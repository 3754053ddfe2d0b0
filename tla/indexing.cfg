SPECIFICATION Spec
CONSTANTS
    Raw = {1, 2}
    Domain = {3}
    RowsOf <- FewRows
    LedgerOf <- TwoInOneLedger
    Chains <- OneKind
    PageLimits = {1, 2}
    Indexer = {i1, i2}
    Retrier = {r1}
    MaxAttempts = 3
    MaxRows = 2
    MaxFaults = 1
    Replay = {p1}
    Replayed = {3}
    Refusals <- NothingOrFirst
INVARIANTS
    
    NoEventForgotten

    
CHECK_DEADLOCK FALSE
