----------------------------- MODULE MCServices -----------------------------
(* The backend's services that share no state: the job queue, the circuit  *)
(* breaker before the RPC node, the cache lock and the offers.             *)
(* Their interleaving adds nothing, so in a behaviour only one of them,    *)
(* the unit, moves; one run checks them all.                               *)
EXTENDS Naturals

CONSTANTS Job, Producer, Poller, Mover, MaxRetries, RemoveOnComplete, MaxFaults,
          FailureThreshold, ResetTimeout, HalfOpenMax, Caller, MaxAttempts,
          Instance, Nobody, MaxLockFaults,
          MaxOffers, Bidder, Request, MaxOfferFaults

VARIABLES unit,
          job, queue, due, op, faults, raced, shaken, runs,
          state, failureCount, successCount, sinceFailure, halfOpenRequestCount,
          call, up, trial,
          lease, running, leaving, uncovered, lockFaults,
          offer, lapsed, ask, before, overlap, offerFaults

Q == INSTANCE JobQueueProps
B == INSTANCE SorobanRpcProps
L == INSTANCE CacheLock
F == INSTANCE Offers

ASSUME Constants == /\ Q!QueueConstants /\ B!RpcConstants /\ L!LockConstants
                    /\ F!OfferConstants

Init == /\ unit \in {"queue", "breaker", "lock", "offers"}
        /\ Q!Init /\ B!Init /\ L!Init /\ F!Init

ofQueue   == <<job, queue, due, op, faults, raced, shaken, runs>>
ofRpc     == <<state, failureCount, successCount, sinceFailure, halfOpenRequestCount,
               call, up, trial>>
ofLock    == <<lease, running, leaving, uncovered, lockFaults>>
ofOffers  == <<offer, lapsed, ask, before, overlap, offerFaults>>
vars == <<unit, ofQueue, ofRpc, ofLock, ofOffers>>

Next == \/ /\ unit = "queue" /\ Q!Next
           /\ UNCHANGED <<unit, ofRpc, ofLock, ofOffers>>
        \/ /\ unit = "breaker" /\ B!Next
           /\ UNCHANGED <<unit, ofQueue, ofLock, ofOffers>>
        \/ /\ unit = "lock" /\ L!Next
           /\ UNCHANGED <<unit, ofQueue, ofRpc, ofOffers>>
        \/ /\ unit = "offers" /\ F!Next
           /\ UNCHANGED <<unit, ofQueue, ofRpc, ofLock>>

(* Each service is as fair as its own specification says; only the queue   *)
(* and the breaker claim what needs it.                                    *)
Fairness == \/ unit = "queue" /\ Q!Fairness
            \/ unit = "breaker" /\ B!Fairness
            \/ unit \notin {"queue", "breaker"}

Spec == Init /\ [][Next]_vars /\ Fairness

(* Only an operation cut off loses a job.                                  *)
OnlyCutOffsLoseJobs == Q!OnlyCutOffsLoseJobs
(* One job is run by one poller at a time.                                 *)
RunsDoNotOverlap == Q!RunsDoNotOverlap
(* Every job is in the end completed or dead-lettered.                     *)
JobsSettle == Q!JobsSettle
(* Every trial in flight is counted against the limit.                     *)
TrialsAreCounted == B!TrialsAreCounted
(* An open breaker closes again or uses up its trials.                     *)
RecoveryIsTried == B!RecoveryIsTried
(* Concurrent runs of a locked job outlived a lease or met an error.       *)
OverlapHasCause == L!OverlapHasCause
(* Two accepted offers overlapped, or one came after the other.            *)
OneAcceptance == F!OneAcceptance

(* Not kept by the code: a trial period ends.                              *)
TrialPeriodEnds == B!TrialPeriodEnds
=============================================================================
