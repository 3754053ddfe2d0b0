SPECIFICATION Spec
CONSTANTS
    Job = {j1}
    Producer = {p1, p2}
    Poller = {w1, w2}
    Mover = {m1, m2}
    MaxRetries = 3
    RemoveOnComplete = FALSE
    MaxFaults = 2
    FailureThreshold = 3
    ResetTimeout = 2
    HalfOpenMax = 3
    Caller = {c1, c2, c3}
    MaxAttempts = 2
    Instance = {i1, i2, i3}
    Nobody = Nobody
    MaxLockFaults = 2
    MaxOffers = 2
    Bidder = {b1, b2}
    Request = {q1, q2}
    MaxOfferFaults = 1
INVARIANTS
    OnlyCutOffsLoseJobs
    RunsDoNotOverlap
    TrialsAreCounted
    OverlapHasCause
    OneAcceptance
PROPERTIES
    JobsSettle
    RecoveryIsTried
CHECK_DEADLOCK FALSE
