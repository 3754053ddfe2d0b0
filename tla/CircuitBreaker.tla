--------------------------- MODULE CircuitBreaker ---------------------------
(* The circuit breaker: its fields and what each of its methods does to    *)
(* them.  Who calls it and when is in SorobanRpc.                          *)
EXTENDS Naturals

CONSTANTS FailureThreshold,  \* failureThreshold, 5 by default
          ResetTimeout,      \* resetTimeoutMs, in ticks
          HalfOpenMax        \* halfOpenMaxRequests, 3 by default

BreakerConstants == /\ FailureThreshold \in Nat \ {0}
                    /\ ResetTimeout \in Nat /\ HalfOpenMax \in Nat \ {0}

VARIABLES state, failureCount,
          successCount,         \* counted up to 2: only `>= 2' is ever asked
          sinceFailure,         \* age of lastFailureTime, up to ResetTimeout
          halfOpenRequestCount

breaker == <<state, failureCount, successCount, sinceFailure, halfOpenRequestCount>>

BreakerTypeOK ==
    /\ state \in {"CLOSED", "OPEN", "HALF_OPEN"}
    /\ failureCount \in Nat /\ successCount \in 0..2
    /\ sinceFailure \in 0..ResetTimeout
    /\ halfOpenRequestCount \in 0..HalfOpenMax

BreakerInit ==
    /\ state = "CLOSED" /\ failureCount = 0 /\ successCount = 0
    /\ sinceFailure = ResetTimeout /\ halfOpenRequestCount = 0

(* Mutant: the timeout of an open breaker is never looked at.              *)
NeverEntered == state

(* execute up to the call: the state it is judged in.  A call that finds   *)
(* the timeout over moves the breaker to HALF_OPEN before it is judged.    *)
Entered == IF state = "OPEN" /\ sinceFailure >= ResetTimeout THEN "HALF_OPEN" ELSE state

Admits == \/ Entered = "CLOSED"
          \/ Entered = "HALF_OPEN" /\ halfOpenRequestCount < HalfOpenMax

(* Mutant: a trial is let in and not counted.                              *)
AdmitUncounted ==
    /\ Admits /\ state' = Entered
    /\ UNCHANGED <<failureCount, successCount, sinceFailure, halfOpenRequestCount>>

Admit ==
    /\ Admits /\ state' = Entered
    /\ halfOpenRequestCount' = IF Entered = "HALF_OPEN" THEN halfOpenRequestCount + 1
                                                        ELSE halfOpenRequestCount
    /\ UNCHANGED <<failureCount, successCount, sinceFailure>>

Refuse ==
    /\ ~Admits /\ state' = Entered
    /\ UNCHANGED <<failureCount, successCount, sinceFailure, halfOpenRequestCount>>

OnSuccess ==
    /\ failureCount' = 0
    /\ successCount' = IF successCount < 2 THEN successCount + 1 ELSE 2
    /\ IF state = "HALF_OPEN" /\ successCount' >= 2
       THEN state' = "CLOSED" /\ halfOpenRequestCount' = 0
       ELSE UNCHANGED <<state, halfOpenRequestCount>>
    /\ UNCHANGED sinceFailure

OnFailure ==
    /\ failureCount' = failureCount + 1
    /\ sinceFailure' = 0 /\ successCount' = 0
    /\ state' = IF \/ state = "CLOSED" /\ failureCount' >= FailureThreshold
                   \/ state = "HALF_OPEN"
                THEN "OPEN" ELSE state
    /\ UNCHANGED halfOpenRequestCount

ClockTicks ==
    /\ sinceFailure < ResetTimeout /\ sinceFailure' = sinceFailure + 1
    /\ UNCHANGED <<state, failureCount, successCount, halfOpenRequestCount>>
=============================================================================
