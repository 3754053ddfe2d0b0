SPECIFICATION Spec
CONSTANTS
    MaxEvents = 1
    Relay = {r1, r2}
    Operator = {op}
    MaxAttempts = 2
    BatchSize = 2
    MaxFaults = 1
    MaxReplays = 1
INVARIANTS
    DuplicatesHaveCause
PROPERTIES
    ImplementsPromise
CHECK_DEADLOCK FALSE
