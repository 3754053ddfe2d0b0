----------------------------- MODULE SorobanRpc -----------------------------
(* Calls to the Soroban RPC node: each runs its retries inside one passage *)
(* through the shared circuit breaker.                                     *)
EXTENDS CircuitBreaker, FiniteSets

CONSTANTS Caller,
          MaxAttempts   \* sorobanRpcMaxRetries: attempts of one call

RpcConstants == BreakerConstants /\ MaxAttempts \in Nat \ {0}

VARIABLES call,   \* per caller: the attempt it is in, 0 when it has no call
          up,     \* does the node answer
          trial   \* history: calls let in as trials of the present half-open period

vars == <<breaker, call, up, trial>>

TypeOK == /\ BreakerTypeOK
          /\ call \in [Caller -> 0..MaxAttempts]
          /\ up \in BOOLEAN /\ trial \in SUBSET Caller

Init == BreakerInit /\ call = [c \in Caller |-> 0] /\ up = TRUE /\ trial = {}

(* retryRpcCall: the breaker lets the call in, or throws CircuitOpenError. *)
Begin(c) ==
    /\ call[c] = 0 /\ Admit
    /\ call' = [call EXCEPT ![c] = 1]
    /\ trial' = IF state' = "HALF_OPEN" THEN trial \cup {c} ELSE trial
    /\ UNCHANGED up

TurnedAway(c) == call[c] = 0 /\ Refuse /\ UNCHANGED <<call, up, trial>>

End(c) == /\ call' = [call EXCEPT ![c] = 0]
          /\ trial' = IF state' = "HALF_OPEN" THEN trial \ {c} ELSE {}

(* retrySorobanRpcCall: an infrastructure error is tried again after a     *)
(* pause, up to the limit; the last one goes to the breaker.               *)
Retry(c) ==
    /\ call[c] \in 1..(MaxAttempts - 1) /\ ~up
    /\ call' = [call EXCEPT ![c] = @ + 1]
    /\ UNCHANGED <<breaker, up, trial>>

Succeed(c) == call[c] > 0 /\ up /\ OnSuccess /\ End(c) /\ UNCHANGED up

Exhausted(c) == call[c] = MaxAttempts /\ ~up /\ OnFailure /\ End(c) /\ UNCHANGED up

(* An error of the caller's (a failed simulation, a 4xx) is neither tried  *)
(* again nor counted.                                                      *)
Rejected(c) == call[c] > 0 /\ up /\ UNCHANGED <<breaker, up>> /\ End(c)

NodeChanges == up' = ~up /\ UNCHANGED <<breaker, call, trial>>

Tick == ClockTicks /\ UNCHANGED <<call, up, trial>>

Answer(c) == Retry(c) \/ Succeed(c) \/ Exhausted(c) \/ Rejected(c)

Next == \/ \E c \in Caller : Begin(c) \/ TurnedAway(c) \/ Answer(c)
        \/ NodeChanges \/ Tick

(* Every call is answered in the end, time passes, and somebody keeps      *)
(* calling.                                                                *)
Fairness == /\ WF_vars(Tick)
            /\ \A c \in Caller : WF_vars(Answer(c)) /\ WF_vars(Begin(c) \/ TurnedAway(c))

Spec == Init /\ [][Next]_vars /\ Fairness
=============================================================================
