-------------------------- MODULE SorobanRpcProps --------------------------
(* What the breaker in front of the Soroban RPC node must get right.       *)
EXTENDS SorobanRpc

(* A closed breaker has seen fewer failures in a row than its threshold,   *)
(* late answers of calls from before it opened included.                   *)
ClosedBelowThreshold == state = "CLOSED" => failureCount < FailureThreshold

(* Every call in flight that was let in as a trial is counted against the  *)
(* limit of the half-open period.                                          *)
TrialsAreCounted == state = "HALF_OPEN" => Cardinality(trial) <= halfOpenRequestCount

(* A breaker that opened closes again, or it has used up its trials: the   *)
(* count of trials is not reset when one of them reopens the breaker, so   *)
(* the second may be for ever.                                             *)
RecoveryIsTried ==
    state # "CLOSED" ~> \/ state = "CLOSED"
                        \/ state = "HALF_OPEN" /\ halfOpenRequestCount = HalfOpenMax

(* The doc of the class: half-open is a trial period that lets limited     *)
(* requests test recovery, so with callers and answers it ends one way or  *)
(* the other.                                                              *)
TrialPeriodEnds == state = "HALF_OPEN" ~> state # "HALF_OPEN"
=============================================================================
