--------------------------- MODULE ServicesProofs ---------------------------
(* The backend's services, for any number of jobs, processes, callers,     *)
(* instances, offers and bidders.  Each service is proved about under its  *)
(* own name, and what holds of it alone holds of it beside the others:     *)
(* each step of the composition is a step of that service or leaves it     *)
(* alone.                                                                  *)
EXTENDS MCServices, Integers, FiniteSetTheorems, TLAPS

-----------------------------------------------------------------------------
(* The cache lock.                                                         *)

(* A run that no error let in and whose lease has not expired holds it.    *)
CoveredHoldLease == \A i \in running \ uncovered : lease = i

LockInv == L!TypeOK /\ CoveredHoldLease

LEMMA LockInit == ASSUME L!LockConstants, L!Init PROVE LockInv
BY DEF L!LockConstants, L!Init, LockInv, L!TypeOK, CoveredHoldLease

LEMMA LockStep == ASSUME L!LockConstants, LockInv, [L!Next]_(L!lockVars) PROVE LockInv'
<1> USE DEF L!LockConstants, LockInv, L!TypeOK, CoveredHoldLease
<1>1. CASE L!LeaseExpires
  BY <1>1 DEF L!LeaseExpires
<1>2. ASSUME NEW i \in Instance, L!Acquire(i) PROVE LockInv'
  BY <1>2 DEF L!Acquire, L!Idle
<1>3. ASSUME NEW i \in Instance, L!FailOpen(i) PROVE LockInv'
  BY <1>3 DEF L!FailOpen, L!Idle, L!Error
<1>4. ASSUME NEW i \in Instance, L!WorkEnds(i) PROVE LockInv'
  BY <1>4 DEF L!WorkEnds
<1>5. ASSUME NEW i \in Instance, L!Release(i) PROVE LockInv'
  BY <1>5 DEF L!Release, L!Without, L!Error
<1>6. ASSUME NEW i \in Instance, L!Crash(i) PROVE LockInv'
  BY <1>6 DEF L!Crash, L!Error
<1>7. CASE UNCHANGED L!lockVars
  BY <1>7 DEF L!lockVars
<1> QED BY <1>1, <1>2, <1>3, <1>4, <1>5, <1>6, <1>7 DEF L!Next

(* cache-lock.service.ts, acquire and release: two instances do the        *)
(* guarded work at once only if a Redis error let one in or its lease ran  *)
(* out, however many instances there are and whenever they release.        *)
THEOREM LocksOverlap == Spec => []OverlapHasCause
<1>1. Init => LockInv
  BY LockInit, Constants DEF Init
<1>2. LockInv /\ [Next]_vars => LockInv'
  <2>1. [Next]_vars => [L!Next]_(L!lockVars)
    BY DEF Next, vars, ofLock, L!lockVars
  <2> QED BY <2>1, LockStep, Constants
<1>3. LockInv => OverlapHasCause
  BY DEF LockInv, L!TypeOK, CoveredHoldLease, OverlapHasCause, L!OverlapHasCause
<1> QED BY <1>1, <1>2, <1>3, PTL DEF Spec

-----------------------------------------------------------------------------
(* The circuit breaker before the RPC node.                                *)

(* The trials in flight are finitely many, and none is left out of the     *)
(* count while the breaker is half-open.                                   *)
TrialsKnown == /\ IsFiniteSet(trial)
               /\ state = "HALF_OPEN" => Cardinality(trial) <= halfOpenRequestCount
               /\ state # "HALF_OPEN" => trial = {}

RpcInv == B!TypeOK /\ B!ClosedBelowThreshold /\ TrialsKnown

LEMMA RpcInit == ASSUME B!RpcConstants, B!Init PROVE RpcInv
<1>1. Cardinality({}) = 0 /\ IsFiniteSet({})
  BY FS_EmptySet
<1> QED BY <1>1 DEF B!RpcConstants, B!BreakerConstants, B!Init, B!BreakerInit, RpcInv, B!TypeOK,
                    B!BreakerTypeOK, B!ClosedBelowThreshold, TrialsKnown

(* What a call that ends leaves of the trials.                             *)
LEMMA FewerTrials ==
    ASSUME NEW S, IsFiniteSet(S), NEW c
    PROVE  IsFiniteSet(S \ {c}) /\ Cardinality(S \ {c}) <= Cardinality(S)
<1>1. IsFiniteSet(S \ {c}) /\ Cardinality(S \ {c}) \in Nat /\ Cardinality(S) \in Nat
  BY FS_RemoveElement, FS_CardinalityType
<1>2. Cardinality(S \ {c}) \in {Cardinality(S), Cardinality(S) - 1}
  BY FS_RemoveElement
<1> QED BY <1>1, <1>2

(* A call that begins, in a breaker that lets it in.                       *)
LEMMA BeginStep ==
    ASSUME B!RpcConstants, RpcInv, NEW c \in Caller, B!Begin(c)  PROVE RpcInv'
<1> USE DEF B!RpcConstants, B!BreakerConstants, RpcInv, B!TypeOK, B!BreakerTypeOK
<1>1. B!TypeOK'
  BY DEF B!Begin, B!Admit, B!Admits, B!Entered
<1>2. B!ClosedBelowThreshold'
  BY DEF B!Begin, B!Admit, B!Admits, B!Entered, B!ClosedBelowThreshold
<1>3. TrialsKnown'
  <2>1. IsFiniteSet(trial \cup {c}) /\ Cardinality(trial \cup {c}) \in Nat
        /\ Cardinality(trial \cup {c}) <= Cardinality(trial) + 1
    <3>1. IsFiniteSet(trial \cup {c}) /\ Cardinality(trial) \in Nat
          /\ Cardinality(trial \cup {c}) \in {Cardinality(trial), Cardinality(trial) + 1}
      BY FS_AddElement, FS_CardinalityType DEF TrialsKnown
    <3> QED BY <3>1
  <2>2. Cardinality({}) = 0
    BY FS_EmptySet
  <2>3. state # "HALF_OPEN" => Cardinality(trial) = 0
    BY <2>2 DEF TrialsKnown
  <2>4. CASE state' = "HALF_OPEN"
    <3>1. trial' = trial \cup {c} /\ halfOpenRequestCount' = halfOpenRequestCount + 1
      BY <2>4 DEF B!Begin, B!Admit
    <3>2. Cardinality(trial) <= halfOpenRequestCount
      BY <2>3 DEF TrialsKnown
    <3>3. Cardinality(trial \cup {c}) <= halfOpenRequestCount + 1
      BY <2>1, <3>2, FS_CardinalityType DEF TrialsKnown
    <3> QED BY <2>1, <2>4, <3>1, <3>3 DEF TrialsKnown
  <2>5. CASE state' # "HALF_OPEN"
    BY <2>5 DEF B!Begin, B!Admit, B!Admits, B!Entered, TrialsKnown
  <2> QED BY <2>4, <2>5
<1> QED BY <1>1, <1>2, <1>3

(* A call that ends takes itself off the trials.                           *)
LEMMA EndStep ==
    ASSUME B!RpcConstants, RpcInv, NEW c \in Caller, B!End(c), call[c] > 0, UNCHANGED up,
           B!OnSuccess \/ B!OnFailure \/ UNCHANGED B!breaker
    PROVE  RpcInv'
<1> USE DEF B!RpcConstants, B!BreakerConstants, RpcInv, B!TypeOK, B!BreakerTypeOK
<1>1. B!TypeOK'
  BY DEF B!End, B!OnSuccess, B!OnFailure, B!breaker
<1>2. B!ClosedBelowThreshold'
  BY DEF B!End, B!OnSuccess, B!OnFailure, B!breaker, B!ClosedBelowThreshold
<1>3. TrialsKnown'
  <2>1. CASE state' = "HALF_OPEN"
    <3>1. state = "HALF_OPEN" /\ halfOpenRequestCount' = halfOpenRequestCount
      BY <2>1 DEF B!OnSuccess, B!OnFailure, B!breaker
    <3>2. trial' = trial \ {c}
      BY <2>1 DEF B!End
    <3>3. IsFiniteSet(trial')  /\ Cardinality(trial') <= Cardinality(trial)
      BY <3>2, FewerTrials DEF TrialsKnown
    <3>4. Cardinality(trial') \in Nat /\ Cardinality(trial) \in Nat
      BY <3>3, FS_CardinalityType DEF TrialsKnown
    <3> QED BY <2>1, <3>1, <3>3, <3>4 DEF TrialsKnown
  <2>2. CASE state' # "HALF_OPEN"
    BY <2>2, FS_EmptySet DEF B!End, TrialsKnown
  <2> QED BY <2>1, <2>2
<1> QED BY <1>1, <1>2, <1>3

LEMMA RpcStep == ASSUME B!RpcConstants, RpcInv, [B!Next]_(B!vars) PROVE RpcInv'
<1> USE DEF B!RpcConstants, B!BreakerConstants
<1>1. ASSUME NEW c \in Caller, B!Begin(c) PROVE RpcInv'
  BY <1>1, BeginStep
<1>2. ASSUME NEW c \in Caller, B!TurnedAway(c) PROVE RpcInv'
  <2>1. Cardinality({}) = 0
    BY FS_EmptySet
  <2> QED BY <1>2, <2>1 DEF B!TurnedAway, B!Refuse, B!Admits, B!Entered, RpcInv, B!TypeOK,
                B!BreakerTypeOK, B!ClosedBelowThreshold, TrialsKnown
<1>3. ASSUME NEW c \in Caller, B!Retry(c) PROVE RpcInv'
  BY <1>3 DEF B!Retry, B!breaker, RpcInv, B!TypeOK, B!BreakerTypeOK, B!ClosedBelowThreshold,
              TrialsKnown
<1>4. ASSUME NEW c \in Caller, B!Succeed(c) \/ B!Exhausted(c) \/ B!Rejected(c) PROVE RpcInv'
  <2>1. B!End(c) /\ call[c] > 0 /\ UNCHANGED up /\ (B!OnSuccess \/ B!OnFailure \/ UNCHANGED B!breaker)
    BY <1>4 DEF B!Succeed, B!Exhausted, B!Rejected, B!breaker
  <2> QED BY <2>1, EndStep
<1>5. CASE B!NodeChanges
  BY <1>5 DEF B!NodeChanges, B!breaker, RpcInv, B!TypeOK, B!BreakerTypeOK, B!ClosedBelowThreshold,
              TrialsKnown
<1>6. CASE B!Tick
  BY <1>6 DEF B!Tick, B!ClockTicks, RpcInv, B!TypeOK, B!BreakerTypeOK, B!ClosedBelowThreshold,
              TrialsKnown
<1>7. CASE UNCHANGED B!vars
  BY <1>7 DEF B!vars, B!breaker, RpcInv, B!TypeOK, B!BreakerTypeOK, B!ClosedBelowThreshold,
              TrialsKnown
<1> QED BY <1>1, <1>2, <1>3, <1>4, <1>5, <1>6, <1>7 DEF B!Next, B!Answer

LEMMA RpcInvariant == Spec => []RpcInv
<1>1. Init => RpcInv
  BY RpcInit, Constants DEF Init
<1>2. RpcInv /\ [Next]_vars => RpcInv'
  <2>1. [Next]_vars => [B!Next]_(B!vars)
    BY DEF Next, vars, ofRpc, B!vars, B!breaker
  <2> QED BY <2>1, RpcStep, Constants
<1> QED BY <1>1, <1>2, PTL DEF Spec

(* circuit-breaker.ts, execute: however many callers race through a        *)
(* half-open breaker, every trial still in flight was counted against its  *)
(* limit.                                                                  *)
THEOREM TrialsCounted == Spec => []TrialsAreCounted
<1>1. RpcInv => TrialsAreCounted
  BY Zenon DEF RpcInv, TrialsKnown, TrialsAreCounted, B!TrialsAreCounted,
               B!Cardinality, Cardinality, B!IsFiniteSet, IsFiniteSet
<1> QED BY <1>1, RpcInvariant, PTL

(* circuit-breaker.ts, onFailure: a breaker that is closed has seen fewer  *)
(* failures in a row than its threshold, late answers included.            *)
THEOREM RpcThreshold == Spec => []B!ClosedBelowThreshold
<1>1. RpcInv => B!ClosedBelowThreshold
  BY DEF RpcInv
<1> QED BY <1>1, RpcInvariant, PTL

(* The trials are used up and none is left to answer.                      *)
Stuck == /\ state = "HALF_OPEN" /\ halfOpenRequestCount = HalfOpenMax
         /\ \A c \in Caller : call[c] = 0

LEMMA StaysStuck ==
    ASSUME B!RpcConstants, Stuck, [B!Next]_(B!vars) PROVE Stuck' /\ ~B!Admits
<1> USE DEF B!RpcConstants, B!BreakerConstants
<1>1. B!Entered = "HALF_OPEN" /\ ~B!Admits
  BY DEF Stuck, B!Entered, B!Admits
<1>2. ASSUME NEW c \in Caller, B!Begin(c) \/ B!Answer(c) PROVE FALSE
  BY <1>1, <1>2 DEF Stuck, B!Begin, B!Admit, B!Answer, B!Retry, B!Succeed, B!Exhausted, B!Rejected
<1>3. ASSUME NEW c \in Caller, B!TurnedAway(c) PROVE Stuck'
  BY <1>1, <1>3 DEF Stuck, B!TurnedAway, B!Refuse
<1>4. CASE B!NodeChanges \/ B!Tick \/ UNCHANGED B!vars
  <2>1. UNCHANGED <<state, halfOpenRequestCount, call>>
    BY <1>4 DEF B!NodeChanges, B!Tick, B!ClockTicks, B!vars, B!breaker
  <2> QED BY <1>1, <2>1 DEF Stuck
<1> QED BY <1>1, <1>2, <1>3, <1>4 DEF B!Next

(* circuit-breaker.ts, onFailure leaves halfOpenRequestCount as it is: a   *)
(* half-open breaker whose trials are used up, with no call left to        *)
(* answer, stays so and lets nobody in for ever, however well the node is. *)
THEOREM BreakerSticks == Spec => [](Stuck => [](Stuck /\ ~B!Admits))
<1>1. Stuck /\ [Next]_vars => Stuck'
  <2>1. [Next]_vars => [B!Next]_(B!vars)
    BY DEF Next, vars, ofRpc, B!vars, B!breaker
  <2> QED BY <2>1, StaysStuck, Constants
<1>2. Stuck => ~B!Admits
  BY Constants DEF B!RpcConstants, B!BreakerConstants, Stuck, B!Entered, B!Admits
<1> QED BY <1>1, <1>2, PTL DEF Spec

-----------------------------------------------------------------------------
(* The offers.                                                             *)

(* What OneAcceptance allows of two offers.                                *)
Explained(o, p) ==
    o \in before[p] \/ p \in before[o] \/ <<o, p>> \in overlap

Closing(r, o)   == ask[r].pc = "close" /\ ask[r].id = o
InAcceptance(o) == \E r \in Request : F!Accepting(r) /\ ask[r].id = o

(* Two acceptances in hand at once are recorded; an offer is pending       *)
(* beside an accepted one only if it was made knowing it or will be        *)
(* closed by it; and so two offers, one accepted and the other accepted or *)
(* about to be, are explained.                                             *)
RowsInv ==
    /\ \A r \in Request : ask[r].pc = "create" => ask[r].row.status = "PENDING"
    /\ \A r \in Request : F!Accepting(r) => ask[r].id # 0 /\ offer[ask[r].id].status # "none"
    /\ \A r \in Request : ask[r].pc \in {"expire", "cancel"} =>
         ask[r].id # 0 /\ offer[ask[r].id].status # "none"
    /\ \A r \in Request : ask[r].pc = "close" => offer[ask[r].id].status # "PENDING"
Symmetric ==
    \A o, p \in F!OfferId : <<o, p>> \in overlap => <<p, o>> \in overlap
HandsKnown == \A r, q \in Request :
    F!Accepting(r) /\ F!Accepting(q) /\ ask[r].id # ask[q].id =>
        <<ask[r].id, ask[q].id>> \in overlap
PendingKnown == \A o \in F!With("ACCEPTED"), p \in F!With("PENDING") :
    o \in before[p] \/ \E r \in Request : Closing(r, o)
AcceptedKnown == \A o \in F!With("ACCEPTED"), p \in F!OfferId :
    o # p /\ (offer[p].status = "ACCEPTED" \/ InAcceptance(p)) => Explained(o, p)

OffersInv == /\ F!TypeOK /\ RowsInv /\ Symmetric
             /\ offerFaults = 0 => HandsKnown /\ PendingKnown /\ AcceptedKnown

LEMMA OffersInit == ASSUME F!OfferConstants, F!Init PROVE OffersInv
<1>1. F!TypeOK
  BY DEF F!Init, F!TypeOK, F!OfferId, F!RowType, F!NoRow, F!NoAsk, F!Status,
         F!OfferConstants
<1>2. RowsInv /\ Symmetric
  BY DEF F!Init, RowsInv, Symmetric, F!Accepting, F!NoAsk
<1>3. HandsKnown /\ PendingKnown /\ AcceptedKnown
  BY DEF F!Init, HandsKnown, PendingKnown, AcceptedKnown, F!Accepting, F!NoAsk, F!With, F!NoRow
<1> QED BY <1>1, <1>2, <1>3 DEF OffersInv

(* The actions, each with the part of the state it may disturb.            *)
LEMMA OffersTypeStep ==
    ASSUME F!OfferConstants, F!TypeOK, RowsInv, Symmetric, F!Next
    PROVE  F!TypeOK' /\ RowsInv' /\ Symmetric'
<1> DEFINE AskType == [pc : {"idle", "create", "accept", "expire", "close", "cancel"},
                       id : F!OfferId \cup {0}, row : F!RowType]
<1>1. /\ offer \in [F!OfferId -> F!RowType] /\ ask \in [Request -> AskType]
      /\ before \in [F!OfferId -> SUBSET F!OfferId]
      /\ overlap \subseteq F!OfferId \X F!OfferId /\ 0 \notin F!OfferId
      /\ offerFaults \in 0..MaxOfferFaults /\ lapsed \subseteq F!OfferId
  BY DEF F!TypeOK, F!OfferId
<1>t. ASSUME offer' \in [F!OfferId -> F!RowType], ask' \in [Request -> AskType],
             before' \in [F!OfferId -> SUBSET F!OfferId],
             overlap' \subseteq F!OfferId \X F!OfferId, offerFaults' \in 0..MaxOfferFaults,
             lapsed' \subseteq F!OfferId
      PROVE  F!TypeOK'
  BY <1>t DEF F!TypeOK
<1> DEFINE Known(r) == ask[r].id # 0 /\ offer[ask[r].id].status # "none"
<1>k. ASSUME NEW r \in Request, ask[r].pc \in {"accept", "close", "expire", "cancel"}
      PROVE  /\ ask[r].id \in F!OfferId /\ offer[ask[r].id].status # "none"
             /\ ask[r].row \in F!RowType
  <2>1. ask[r] \in AskType
    BY <1>1
  <2> QED BY <2>1, <1>k DEF RowsInv, F!Accepting
(* A row saved keeps the requests in hand sound, since no row goes back to *)
(* none, or to pending.                                                    *)
<1>s. ASSUME NEW o \in F!OfferId, NEW row \in F!RowType, row.status # "none",
             offer[o].status = "none" \/ row.status # "PENDING",
             F!SaveOffer(o, row),
             \A r \in Request : ask'[r] = ask[r] \/ ask'[r] = F!NoAsk
                 \/ /\ ask[r].pc = "accept" /\ ask'[r] = [ask[r] EXCEPT !.pc = "close"]
                    /\ o = ask[r].id /\ row.status = "ACCEPTED"
      PROVE  offer' \in [F!OfferId -> F!RowType] /\ RowsInv'
  <2>1. offer' = [offer EXCEPT ![o] = row]
    BY <1>s DEF F!SaveOffer
  <2>2. offer' \in [F!OfferId -> F!RowType]
    BY <2>1, <1>1, <1>s
  <2>3. \A p \in F!OfferId : offer[p].status # "none" => offer'[p].status # "none"
    BY <2>1, <1>1, <1>s
  <2>4. \A p \in F!OfferId : offer[p].status \notin {"none", "PENDING"}
                               => offer'[p].status \notin {"none", "PENDING"}
    BY <2>1, <1>1, <1>s
  <2>5. ASSUME NEW r \in Request
        PROVE  /\ ask'[r].pc = "create" => ask'[r].row.status = "PENDING"
               /\ ask'[r].pc \in {"accept", "close", "expire", "cancel"} =>
                    ask'[r].id # 0 /\ offer'[ask'[r].id].status # "none"
               /\ ask'[r].pc = "close" => offer'[ask'[r].id].status # "PENDING"
    <3>0. ask[r] \in AskType
      BY <1>1
    <3>1. CASE ask'[r] = ask[r]
      <4>1. ask'[r].pc = "create" => ask'[r].row.status = "PENDING"
        BY <3>1 DEF RowsInv
      <4>2. ask'[r].pc \in {"accept", "close", "expire", "cancel"} =>
                    ask'[r].id # 0 /\ offer'[ask'[r].id].status # "none"
        BY <3>1, <1>k, <2>3, <1>1
      <4>3. ask'[r].pc = "close" => offer'[ask'[r].id].status # "PENDING"
        BY <3>1, <1>k, <2>4 DEF RowsInv
      <4> QED BY <4>1, <4>2, <4>3
    <3>2. CASE ask'[r] = F!NoAsk
      BY <3>2 DEF F!NoAsk
    <3>3. CASE /\ ask[r].pc = "accept" /\ ask'[r] = [ask[r] EXCEPT !.pc = "close"]
               /\ o = ask[r].id /\ row.status = "ACCEPTED"
      <4>1. ask'[r].pc = "close" /\ ask'[r].id = o
        BY <3>0, <3>3
      <4>2. offer'[o].status = "ACCEPTED"
        BY <2>1, <3>3, <1>1
      <4> QED BY <4>1, <4>2, <1>1
    <3> QED BY <3>1, <3>2, <3>3, <1>s
  <2> QED BY <2>2, <2>5 DEF RowsInv, F!Accepting
<1>2. ASSUME NEW o \in F!OfferId, F!Lapse(o) PROVE F!TypeOK' /\ RowsInv' /\ Symmetric'
  BY <1>2 DEF F!Lapse, F!TypeOK, RowsInv, Symmetric, F!Accepting
<1>3. ASSUME NEW r \in Request, NEW b \in Bidder, F!Create(r, b)
      PROVE  F!TypeOK' /\ RowsInv' /\ Symmetric'
  <2>1. ask' \in [Request -> AskType]
    BY <1>3, <1>1 DEF F!Create, F!RowType, F!Status
  <2>2. F!TypeOK'
    BY <2>1, <1>3, <1>t, <1>1 DEF F!Create
  <2>3. RowsInv'
    BY <1>3, <1>1 DEF F!Create, RowsInv, F!Accepting
  <2> QED BY <2>2, <2>3, <1>3 DEF F!Create, Symmetric
<1>4. ASSUME NEW r \in Request, NEW o \in F!OfferId, F!Accept(r, o)
      PROVE  F!TypeOK' /\ RowsInv' /\ Symmetric'
  <2>0. offer[o].status = "PENDING" /\ o # 0 /\ offer[o] \in F!RowType
    BY <1>4, <1>1 DEF F!Accept, F!MayAccept
  <2>1. \E pc \in {"accept", "expire"} :
            ask' = [ask EXCEPT ![r] = [pc |-> pc, id |-> o, row |-> offer[o]]]
    BY <1>4 DEF F!Accept, F!Opened
  <2>2. ask' \in [Request -> AskType]
    BY <2>1, <1>1, <2>0
  <2>3. F!Rivals(r, o) \subseteq F!OfferId
    BY <1>k DEF F!Rivals, F!Accepting
  <2>4. overlap' = overlap \/ overlap' = overlap \cup ({o} \X F!Rivals(r, o)) \cup (F!Rivals(r, o) \X {o})
    BY <1>4 DEF F!Accept
  <2>5. overlap' \subseteq F!OfferId \X F!OfferId /\ Symmetric'
    BY <2>3, <2>4, <1>1 DEF Symmetric
  <2>6. F!TypeOK'
    BY <1>4, <2>2, <2>5, <1>t, <1>1 DEF F!Accept
  <2>7. RowsInv'
    BY <1>4, <2>0, <2>1, <1>1 DEF F!Accept, RowsInv, F!Accepting
  <2> QED BY <2>5, <2>6, <2>7
<1>5. ASSUME NEW r \in Request, NEW o \in F!OfferId, F!Cancel(r, o)
      PROVE  F!TypeOK' /\ RowsInv' /\ Symmetric'
  <2>0. offer[o].status = "PENDING" /\ o # 0 /\ offer[o] \in F!RowType
    BY <1>5, <1>1 DEF F!Cancel
  <2>1. ask' = [ask EXCEPT ![r] = [pc |-> "cancel", id |-> o, row |-> offer[o]]]
    BY <1>5 DEF F!Cancel, F!Opened
  <2>2. ask' \in [Request -> AskType]
    BY <2>1, <1>1, <2>0
  <2>3. F!TypeOK'
    BY <1>5, <2>2, <1>t, <1>1 DEF F!Cancel
  <2>4. RowsInv'
    BY <1>5, <2>0, <2>1, <1>1 DEF F!Cancel, RowsInv, F!Accepting
  <2> QED BY <2>3, <2>4, <1>5 DEF F!Cancel, Symmetric
<1>6. ASSUME NEW r \in Request, F!SaveCreated(r) PROVE F!TypeOK' /\ RowsInv' /\ Symmetric'
  <2>1. PICK o \in F!With("none") : F!SaveOffer(o, ask[r].row)
                                  /\ before' = [before EXCEPT ![o] = F!With("ACCEPTED")]
    BY <1>6 DEF F!SaveCreated
  <2>2. ask' = [ask EXCEPT ![r] = F!NoAsk] /\ UNCHANGED <<lapsed, overlap, offerFaults>>
    BY <1>6 DEF F!SaveCreated, F!EndAsk
  <2>3. ask[r] \in AskType /\ ask[r].row.status = "PENDING"
    BY <1>1, <1>6 DEF F!SaveCreated, RowsInv
  <2>4. ask[r].row \in F!RowType /\ o \in F!OfferId /\ offer[o].status = "none"
    BY <2>3 DEF F!With
  <2>5. offer' \in [F!OfferId -> F!RowType] /\ RowsInv'
    BY <2>1, <2>2, <2>3, <2>4, <1>s, <1>1
  <2>6. F!NoAsk \in AskType
    BY DEF F!NoAsk, F!NoRow, F!RowType, F!Status
  <2>7. before' \in [F!OfferId -> SUBSET F!OfferId] /\ ask' \in [Request -> AskType]
    BY <2>1, <2>2, <2>6, <1>1 DEF F!With
  <2> QED BY <2>2, <2>5, <2>7, <1>t, <1>1 DEF Symmetric
<1>7. ASSUME NEW r \in Request, F!SaveExpired(r) \/ F!SaveAccepted(r) \/ F!SaveCancelled(r)
      PROVE  F!TypeOK' /\ RowsInv' /\ Symmetric'
  <2>1. PICK s \in {"EXPIRED", "ACCEPTED", "CANCELLED"} :
            F!SaveOffer(ask[r].id, [ask[r].row EXCEPT !.status = s])
            /\ \/ ask' = [ask EXCEPT ![r] = F!NoAsk]
               \/ /\ ask' = [ask EXCEPT ![r].pc = "close"] /\ s = "ACCEPTED"
                  /\ ask[r].pc = "accept"
    BY <1>7 DEF F!SaveExpired, F!SaveAccepted, F!SaveCancelled, F!EndAsk
  <2>2. UNCHANGED <<lapsed, before, overlap, offerFaults>>
    BY <1>7 DEF F!SaveExpired, F!SaveAccepted, F!SaveCancelled
  <2>3. ask[r].pc \in {"accept", "close", "expire", "cancel"}
    BY <1>7 DEF F!SaveExpired, F!SaveAccepted, F!SaveCancelled
  <2>4. ask[r].id \in F!OfferId /\ ask[r].row \in F!RowType
    BY <2>3, <1>k
  <2> DEFINE row == [ask[r].row EXCEPT !.status = s]
  <2>5. row \in F!RowType /\ row.status = s
    BY <2>4 DEF F!RowType, F!Status
  <2>6. \A q \in Request : ask'[q] = ask[q] \/ ask'[q] = F!NoAsk
                 \/ /\ ask[q].pc = "accept" /\ ask'[q] = [ask[q] EXCEPT !.pc = "close"]
                    /\ ask[r].id = ask[q].id /\ row.status = "ACCEPTED"
    BY <2>1, <2>5, <1>1
  <2>7. offer' \in [F!OfferId -> F!RowType] /\ RowsInv'
    <3>1. row.status # "none" /\ row.status # "PENDING" /\ F!SaveOffer(ask[r].id, row)
      BY <2>5, <2>1
    <3> HIDE DEF row
    <3> QED BY <3>1, <2>4, <2>5, <2>6, <1>s
  <2>8. F!NoAsk \in AskType
    BY DEF F!NoAsk, F!NoRow, F!RowType, F!Status
  <2>9. ask' \in [Request -> AskType]
    BY <2>1, <2>8, <1>1
  <2> QED BY <2>2, <2>7, <2>9, <1>t, <1>1 DEF Symmetric
<1>8. ASSUME NEW r \in Request, F!CloseOthers(r) PROVE F!TypeOK' /\ RowsInv' /\ Symmetric'
  <2>1. offer' = [o \in F!OfferId |-> IF o \in F!With("PENDING") \ {ask[r].id}
                                 THEN [offer[o] EXCEPT !.status = "EXPIRED"] ELSE offer[o]]
    BY <1>8 DEF F!CloseOthers
  <2>2. \A o \in F!OfferId : /\ offer'[o] \in F!RowType
                             /\ offer'[o].status = offer[o].status \/ offer'[o].status = "EXPIRED"
    BY <2>1, <1>1 DEF F!RowType, F!Status
  <2>3. ask' = [ask EXCEPT ![r] = F!NoAsk]
    BY <1>8 DEF F!CloseOthers, F!EndAsk
  <2>4. F!NoAsk \in AskType
    BY DEF F!NoAsk, F!NoRow, F!RowType, F!Status
  <2>5. offer' \in [F!OfferId -> F!RowType] /\ ask' \in [Request -> AskType]
    BY <2>1, <2>2, <2>3, <2>4, <1>1
  <2>6. F!TypeOK'
    BY <1>8, <2>5, <1>t, <1>1 DEF F!CloseOthers
  <2>7. ASSUME NEW q \in Request
        PROVE  /\ ask'[q].pc = "create" => ask'[q].row.status = "PENDING"
               /\ ask'[q].pc \in {"accept", "close", "expire", "cancel"} =>
                    ask'[q].id # 0 /\ offer'[ask'[q].id].status # "none"
               /\ ask'[q].pc = "close" => offer'[ask'[q].id].status # "PENDING"
    <3>1. ask'[q] = ask[q] \/ ask'[q] = F!NoAsk
      BY <2>3, <1>1
    <3>2. CASE ask'[q] = ask[q]
      <4>1. ask[q].pc = "create" => ask[q].row.status = "PENDING"
        BY DEF RowsInv
      <4>2. ask[q].pc = "close" => offer[ask[q].id].status # "PENDING"
        BY DEF RowsInv
      <4> QED BY <3>2, <4>1, <4>2, <2>2, <1>k, <1>1
    <3>3. CASE ask'[q] = F!NoAsk
      BY <3>3 DEF F!NoAsk
    <3> QED BY <3>1, <3>2, <3>3
  <2>8. RowsInv'
    BY <2>7 DEF RowsInv, F!Accepting
  <2> QED BY <2>6, <2>8, <1>8 DEF F!CloseOthers, Symmetric
<1>9. ASSUME NEW r \in Request, F!CutOff(r) PROVE F!TypeOK' /\ RowsInv' /\ Symmetric'
  <2>1. ask' = [ask EXCEPT ![r] = F!NoAsk] /\ UNCHANGED <<offer, lapsed, before, overlap>>
        /\ offerFaults' \in 0..MaxOfferFaults
    BY <1>9, <1>1 DEF F!CutOff, F!EndAsk, F!OfferConstants
  <2>4. F!NoAsk \in AskType
    BY DEF F!NoAsk, F!NoRow, F!RowType, F!Status
  <2>2. F!TypeOK'
    BY <2>1, <2>4, <1>t, <1>1
  <2>3. RowsInv'
    BY <2>1, <1>1 DEF RowsInv, F!Accepting, F!NoAsk
  <2> QED BY <2>1, <2>2, <2>3 DEF Symmetric
<1> QED
  BY <1>2, <1>3, <1>4, <1>5, <1>6, <1>7, <1>8, <1>9 DEF F!Next

(* Acceptances that end and offers that leave a state explain no less.     *)
LEMMA FewerAcceptances ==
    ASSUME HandsKnown, AcceptedKnown, UNCHANGED <<before, overlap>>,
           \A r \in Request : F!Accepting(r)' => ask'[r] = ask[r],
           F!With("ACCEPTED")' \subseteq F!With("ACCEPTED")
    PROVE  HandsKnown' /\ AcceptedKnown'
<1>1. \A r \in Request : F!Accepting(r)' => F!Accepting(r) /\ ask'[r].id = ask[r].id
  BY DEF F!Accepting
<1>2. HandsKnown'
  BY <1>1 DEF HandsKnown
<1>3. \A p \in F!OfferId : InAcceptance(p)' => InAcceptance(p)
  BY <1>1 DEF InAcceptance
<1>4. \A p \in F!OfferId : offer'[p].status = "ACCEPTED" => offer[p].status = "ACCEPTED"
  BY DEF F!With
<1>5. \A o, p \in F!OfferId : Explained(o, p)' <=> Explained(o, p)
  BY DEF Explained
<1>6. \A o \in F!With("ACCEPTED")' : o \in F!With("ACCEPTED") /\ o \in F!OfferId
  BY DEF F!With
<1> QED BY <1>2, <1>3, <1>4, <1>5, <1>6 DEF AcceptedKnown

LEMMA FewerPending ==
    ASSUME PendingKnown, UNCHANGED before,
           \A r \in Request : ask[r].pc = "close" => ask'[r] = ask[r],
           F!With("ACCEPTED")' \subseteq F!With("ACCEPTED"),
           F!With("PENDING")' \subseteq F!With("PENDING")
    PROVE  PendingKnown'
<1>1. \A r \in Request, o \in F!OfferId : Closing(r, o) => Closing(r, o)'
  BY DEF Closing
<1>2. \A o \in F!With("ACCEPTED")' : o \in F!With("ACCEPTED") /\ o \in F!OfferId
  BY DEF F!With
<1> QED BY <1>1, <1>2 DEF PendingKnown

(* A new row knows the offers accepted before it.                          *)
LEMMA CreatedIsKnown ==
    ASSUME OffersInv, offerFaults = 0, NEW r \in Request, F!SaveCreated(r)
    PROVE  HandsKnown' /\ PendingKnown' /\ AcceptedKnown'
<1>1. F!TypeOK /\ RowsInv /\ HandsKnown /\ PendingKnown /\ AcceptedKnown
  BY DEF OffersInv
<1>2. PICK o \in F!With("none") : /\ offer' = [offer EXCEPT ![o] = ask[r].row]
                                  /\ before' = [before EXCEPT ![o] = F!With("ACCEPTED")]
  BY DEF F!SaveCreated, F!SaveOffer
<1>3. ask' = [ask EXCEPT ![r] = F!NoAsk] /\ overlap' = overlap
  BY DEF F!SaveCreated, F!EndAsk
<1>4. ask[r].row.status = "PENDING" /\ o \in F!OfferId /\ offer[o].status = "none"
  BY <1>1, <1>2 DEF F!SaveCreated, RowsInv, F!With
<1>5. \A p \in F!OfferId \ {o} : offer'[p] = offer[p] /\ before'[p] = before[p]
  BY <1>1, <1>2 DEF F!TypeOK
<1>6. offer'[o].status = "PENDING" /\ before'[o] = F!With("ACCEPTED")
  BY <1>1, <1>2, <1>4 DEF F!TypeOK
<1>7. F!With("ACCEPTED")' = F!With("ACCEPTED") /\ o \notin F!With("ACCEPTED")
  BY <1>4, <1>5, <1>6 DEF F!With
<1>8. \A q \in Request : ask[q].pc \in {"accept", "close"} \/ F!Accepting(q)' => ask'[q] = ask[q]
  BY <1>1, <1>3 DEF F!TypeOK, F!NoAsk, F!Accepting, F!SaveCreated
<1>9. \A q \in Request : F!Accepting(q)' => F!Accepting(q) /\ ask'[q] = ask[q] /\ ask[q].id # o
  BY <1>1, <1>4, <1>8 DEF F!Accepting, RowsInv
<1>10. HandsKnown'
  BY <1>1, <1>3, <1>9 DEF HandsKnown
<1>11. PendingKnown'
  <2> SUFFICES ASSUME NEW a \in F!With("ACCEPTED"), NEW p \in F!With("PENDING")'
               PROVE  a \in before'[p] \/ \E q \in Request : Closing(q, a)'
    BY <1>7 DEF PendingKnown
  <2>1. CASE p = o
    BY <2>1, <1>6
  <2>2. CASE p # o
    <3>1. p \in F!With("PENDING") /\ before'[p] = before[p]
      BY <2>2, <1>5 DEF F!With
    <3>2. a \in before[p] \/ \E q \in Request : Closing(q, a)
      BY <3>1, <1>1 DEF PendingKnown
    <3> QED BY <3>1, <3>2, <1>8 DEF Closing
  <2> QED BY <2>1, <2>2
<1>12. AcceptedKnown'
  <2> SUFFICES ASSUME NEW a \in F!With("ACCEPTED"), NEW p \in F!OfferId, a # p,
                      offer'[p].status = "ACCEPTED" \/ InAcceptance(p)'
               PROVE  Explained(a, p)'
    BY <1>7 DEF AcceptedKnown
  <2>1. p # o /\ a # o /\ a \in F!OfferId
    BY <1>6, <1>7, <1>9 DEF InAcceptance, F!With
  <2>2. offer[p].status = "ACCEPTED" \/ InAcceptance(p)
    BY <2>1, <1>5, <1>9 DEF InAcceptance
  <2>3. Explained(a, p)
    BY <2>2, <1>1 DEF AcceptedKnown
  <2> QED BY <2>1, <2>3, <1>3, <1>5 DEF Explained
<1> QED BY <1>10, <1>11, <1>12

(* An acceptance that begins is recorded beside those in hand, and any     *)
(* offer already accepted was either known to this one or is being closed. *)
LEMMA AcceptIsKnown ==
    ASSUME OffersInv, offerFaults = 0, NEW r \in Request, NEW o \in F!OfferId, F!Accept(r, o)
    PROVE  HandsKnown' /\ PendingKnown' /\ AcceptedKnown'
<1>1. F!TypeOK /\ RowsInv /\ HandsKnown /\ PendingKnown /\ AcceptedKnown
  BY DEF OffersInv
<1>2. UNCHANGED <<offer, lapsed, before, offerFaults>> /\ ask[r].pc = "idle"
      /\ offer[o].status = "PENDING"
  BY DEF F!Accept, F!MayAccept
<1>3. \A s : F!With(s)' = F!With(s)
  BY <1>2 DEF F!With
<1>4. \A q \in Request \ {r} : ask'[q] = ask[q]
  BY <1>1 DEF F!Accept, F!Opened, F!TypeOK
<1>5. \A q \in Request : ask[q].pc = "close" => ask'[q] = ask[q]
  BY <1>2, <1>4
<1>6. PendingKnown'
  BY <1>1, <1>2, <1>3, <1>5, FewerPending
<1>7. CASE o \in lapsed
  <2>1. overlap' = overlap /\ ask'[r].pc = "expire"
    BY <1>7, <1>1 DEF F!Accept, F!Opened, F!TypeOK
  <2>2. \A q \in Request : F!Accepting(q)' => ask'[q] = ask[q]
    BY <2>1, <1>4 DEF F!Accepting
  <2> QED BY <1>1, <1>2, <1>3, <1>6, <2>1, <2>2, FewerAcceptances
<1>8. CASE o \notin lapsed
  <2>1. overlap' = overlap \cup ({o} \X F!Rivals(r, o)) \cup (F!Rivals(r, o) \X {o})
        /\ ask'[r] = [pc |-> "accept", id |-> o, row |-> offer[o]]
    BY <1>8, <1>1 DEF F!Accept, F!Opened, F!TypeOK
  <2>2. \A q \in Request \ {r} : F!Accepting(q) /\ ask[q].id # o =>
                                   <<o, ask[q].id>> \in overlap' /\ <<ask[q].id, o>> \in overlap'
    BY <2>1 DEF F!Rivals
  <2>3. overlap \subseteq overlap' /\ ask'[r].id = o
    BY <2>1
  <2>4. \A q \in Request \ {r} : F!Accepting(q)' <=> F!Accepting(q)
    BY <1>4 DEF F!Accepting
  <2>5. HandsKnown'
    <3> SUFFICES ASSUME NEW p \in Request, NEW q \in Request, F!Accepting(p)', F!Accepting(q)',
                        ask'[p].id # ask'[q].id
                 PROVE  <<ask'[p].id, ask'[q].id>> \in overlap'
      BY DEF HandsKnown
    <3>1. CASE p # r /\ q # r
      BY <3>1, <1>1, <1>4, <2>3, <2>4 DEF HandsKnown
    <3>2. CASE p = r \/ q = r
      BY <3>2, <1>4, <2>2, <2>3, <2>4
    <3> QED BY <3>1, <3>2
  <2>6. AcceptedKnown'
    <3> SUFFICES ASSUME NEW a \in F!With("ACCEPTED"), NEW p \in F!OfferId, a # p,
                        offer[p].status = "ACCEPTED" \/ InAcceptance(p)'
                 PROVE  Explained(a, p)'
      BY <1>2, <1>3 DEF AcceptedKnown
    <3>1. CASE offer[p].status = "ACCEPTED" \/ InAcceptance(p)
      <4>1. Explained(a, p)
        BY <3>1, <1>1 DEF AcceptedKnown
      <4> QED BY <4>1, <2>3, <1>2 DEF Explained
    <3>2. CASE InAcceptance(p)' /\ ~InAcceptance(p)
      <4>1. p = o
        BY <3>2, <1>4, <2>3, <2>4 DEF InAcceptance
      <4>2. a \in before[o] \/ \E q \in Request : Closing(q, a)
        BY <1>1, <1>2 DEF PendingKnown, F!With
      <4>3. ASSUME NEW q \in Request, Closing(q, a) PROVE <<a, o>> \in overlap'
        BY <4>1, <4>3, <1>2, <2>2 DEF Closing, F!Accepting
      <4> QED BY <4>1, <4>2, <4>3, <1>2 DEF Explained
    <3> QED BY <3>1, <3>2
  <2> QED BY <1>6, <2>5, <2>6
<1> QED BY <1>7, <1>8

(* An acceptance saved was in hand beside any other still in hand, and is  *)
(* about to close what is pending.                                         *)
LEMMA SavedIsKnown ==
    ASSUME OffersInv, offerFaults = 0, NEW r \in Request, F!SaveAccepted(r)
    PROVE  HandsKnown' /\ PendingKnown' /\ AcceptedKnown'
<1>1. F!TypeOK /\ RowsInv /\ Symmetric /\ HandsKnown /\ PendingKnown /\ AcceptedKnown
  BY DEF OffersInv
<1> DEFINE o == ask[r].id
<1>2. /\ offer' = [offer EXCEPT ![o] = [ask[r].row EXCEPT !.status = "ACCEPTED"]]
      /\ ask' = [ask EXCEPT ![r].pc = "close"] /\ UNCHANGED <<before, overlap>>
      /\ ask[r].pc = "accept" /\ F!Accepting(r)
  BY DEF F!SaveAccepted, F!SaveOffer, F!Accepting
<1>3. o \in F!OfferId /\ ask[r].row \in F!RowType
  BY <1>1, <1>2 DEF F!TypeOK, RowsInv
<1>4. offer'[o].status = "ACCEPTED" /\ \A p \in F!OfferId \ {o} : offer'[p] = offer[p]
  BY <1>1, <1>2, <1>3 DEF F!TypeOK, F!RowType
<1>5. \A q \in Request : /\ F!Accepting(q)' <=> F!Accepting(q)
                         /\ ask'[q].id = ask[q].id
  BY <1>1, <1>2 DEF F!TypeOK, F!Accepting
<1>6. ask'[r].pc = "close" /\ \A q \in Request : ask[q].pc = "close" => ask'[q] = ask[q]
  BY <1>1, <1>2 DEF F!TypeOK
<1>7. HandsKnown'
  BY <1>1, <1>2, <1>5 DEF HandsKnown
<1>8. PendingKnown'
  <2> SUFFICES ASSUME NEW a \in F!With("ACCEPTED")', NEW p \in F!With("PENDING")'
               PROVE  a \in before'[p] \/ \E q \in Request : Closing(q, a)'
    BY DEF PendingKnown
  <2>1. CASE a = o
    BY <2>1, <1>5, <1>6 DEF Closing
  <2>2. CASE a # o
    <3>1. a \in F!With("ACCEPTED") /\ p \in F!With("PENDING")
      BY <2>2, <1>4 DEF F!With
    <3> QED BY <3>1, <1>1, <1>2, <1>6 DEF PendingKnown, Closing
  <2> QED BY <2>1, <2>2
<1>9. AcceptedKnown'
  <2>1. \A a, p \in F!OfferId : Explained(a, p)' <=> Explained(a, p)
    BY <1>2 DEF Explained
  <2>2. \A a, p \in F!OfferId : Explained(a, p) => Explained(p, a)
    BY <1>1 DEF Explained, Symmetric
  <2>3. \A p \in F!OfferId : InAcceptance(p)' <=> InAcceptance(p)
    BY <1>5 DEF InAcceptance
  <2>4. ASSUME NEW p \in F!OfferId, p # o, offer[p].status = "ACCEPTED" PROVE Explained(p, o)
    BY <2>4, <1>1, <1>2, <1>3 DEF AcceptedKnown, InAcceptance, F!With
  <2>5. ASSUME NEW p \in F!OfferId, p # o, InAcceptance(p) PROVE Explained(o, p)
    <3>1. PICK q \in Request : F!Accepting(q) /\ ask[q].id = p
      BY <2>5 DEF InAcceptance
    <3>2. <<o, p>> \in overlap
      BY <3>1, <2>5, <1>1, <1>2 DEF HandsKnown
    <3> QED BY <3>2 DEF Explained
  <2>6. \A a \in F!With("ACCEPTED")' : a \in F!OfferId /\ (a # o => a \in F!With("ACCEPTED"))
    BY <1>4 DEF F!With
  <2>7. \A p \in F!OfferId : offer'[p].status = "ACCEPTED" => p = o \/ offer[p].status = "ACCEPTED"
    BY <1>4
  <2> HIDE DEF o
  <2> SUFFICES ASSUME NEW a \in F!With("ACCEPTED")', NEW p \in F!OfferId, a # p,
                      offer'[p].status = "ACCEPTED" \/ InAcceptance(p)
               PROVE  Explained(a, p)
    BY <2>1, <2>3, <2>6 DEF AcceptedKnown
  <2>8. CASE a = o
    BY <2>8, <2>2, <2>4, <2>5, <2>7, <1>3
  <2>9. CASE a # o /\ p = o
    BY <2>9, <2>4, <2>6 DEF F!With
  <2>10. CASE a # o /\ p # o
    BY <2>10, <2>6, <2>7, <1>1 DEF AcceptedKnown
  <2> QED BY <2>8, <2>9, <2>10
<1> QED BY <1>7, <1>8, <1>9

LEMMA OffersStep ==
    ASSUME F!OfferConstants, OffersInv, [F!Next]_(F!offerVars) PROVE OffersInv'
<1>1. CASE UNCHANGED F!offerVars
  BY <1>1 DEF F!offerVars, OffersInv, F!TypeOK, RowsInv, Symmetric, HandsKnown, PendingKnown,
              AcceptedKnown, F!With, F!Accepting, InAcceptance, Explained, Closing
<1>2. CASE F!Next
  <2>0. F!TypeOK /\ RowsInv /\ Symmetric
    BY DEF OffersInv
  <2>1. F!TypeOK' /\ RowsInv' /\ Symmetric'
    BY <2>0, <1>2, OffersTypeStep
  <2>2. ASSUME offerFaults' = 0 PROVE HandsKnown' /\ PendingKnown' /\ AcceptedKnown'
    <3>0. ask \in [Request -> [pc : {"idle", "create", "accept", "expire", "close", "cancel"},
                             id : F!OfferId \cup {0}, row : F!RowType]]
          /\ offer \in [F!OfferId -> F!RowType]
      BY <2>0 DEF F!TypeOK
    <3>1. ~\E r \in Request : F!CutOff(r)
      BY <2>0, <2>2 DEF F!CutOff, F!TypeOK
    <3>2. offerFaults = 0
      BY <1>2, <2>2, <3>1 DEF F!Next, F!Lapse, F!Create, F!SaveCreated, F!Accept, F!SaveExpired,
         F!SaveAccepted, F!CloseOthers, F!Cancel, F!SaveCancelled
    <3>3. HandsKnown /\ PendingKnown /\ AcceptedKnown
      BY <3>2 DEF OffersInv
    <3>4. ASSUME NEW o \in F!OfferId, F!Lapse(o) PROVE HandsKnown' /\ PendingKnown' /\ AcceptedKnown'
      BY <3>3, <3>4 DEF F!Lapse, HandsKnown, PendingKnown, AcceptedKnown, F!With, F!Accepting,
                        InAcceptance, Explained, Closing
    <3>5. ASSUME NEW r \in Request,
                 \/ \E b \in Bidder : F!Create(r, b)
                 \/ \E o \in F!OfferId : F!Cancel(r, o)
          PROVE  HandsKnown' /\ PendingKnown' /\ AcceptedKnown'
      <4>1. UNCHANGED <<offer, before, overlap>> /\ ask[r].pc = "idle"
            /\ ask'[r].pc \in {"create", "cancel"} /\ \A q \in Request \ {r} : ask'[q] = ask[q]
        BY <3>0, <3>5 DEF F!Create, F!Cancel, F!Opened
      <4>2. F!With("ACCEPTED")' = F!With("ACCEPTED") /\ F!With("PENDING")' = F!With("PENDING")
        BY <4>1 DEF F!With
      <4>3. \A q \in Request : F!Accepting(q)' \/ ask[q].pc = "close" => ask'[q] = ask[q]
        BY <4>1 DEF F!Accepting
      <4> QED BY <3>3, <4>1, <4>2, <4>3, FewerAcceptances, FewerPending
    <3>6. ASSUME NEW r \in Request, F!SaveExpired(r) \/ F!SaveCancelled(r)
          PROVE  HandsKnown' /\ PendingKnown' /\ AcceptedKnown'
      <4>1. PICK s \in {"EXPIRED", "CANCELLED"} :
               offer' = [offer EXCEPT ![ask[r].id] = [ask[r].row EXCEPT !.status = s]]
        BY <3>6 DEF F!SaveExpired, F!SaveCancelled, F!SaveOffer
      <4>2. UNCHANGED <<before, overlap>> /\ ask[r].pc \in {"expire", "cancel"}
            /\ ask' = [ask EXCEPT ![r] = F!NoAsk]
        BY <3>6 DEF F!SaveExpired, F!SaveCancelled, F!EndAsk
      <4>3. ask[r].row \in F!RowType
        BY <3>0
      <4>4. \A o \in F!OfferId : offer'[o] = offer[o] \/ offer'[o].status = s
        BY <3>0, <4>1, <4>3 DEF F!RowType
      <4>5. F!With("ACCEPTED")' \subseteq F!With("ACCEPTED")
            /\ F!With("PENDING")' \subseteq F!With("PENDING")
        BY <4>4 DEF F!With
      <4>6. \A q \in Request : F!Accepting(q)' \/ ask[q].pc = "close" => ask'[q] = ask[q]
        BY <3>0, <4>2 DEF F!Accepting, F!NoAsk
      <4> QED BY <3>3, <4>2, <4>5, <4>6, FewerAcceptances, FewerPending
    <3>7. ASSUME NEW r \in Request, F!CloseOthers(r)
          PROVE  HandsKnown' /\ PendingKnown' /\ AcceptedKnown'
      <4>1. offer' = [o \in F!OfferId |-> IF o \in F!With("PENDING") \ {ask[r].id}
                                 THEN [offer[o] EXCEPT !.status = "EXPIRED"] ELSE offer[o]]
        BY <3>7 DEF F!CloseOthers
      <4>2. UNCHANGED <<before, overlap>> /\ ask' = [ask EXCEPT ![r] = F!NoAsk]
            /\ offer[ask[r].id].status # "PENDING"
        BY <3>7, <2>0 DEF F!CloseOthers, F!EndAsk, RowsInv
      <4>3. \A o \in F!OfferId : offer'[o].status = offer[o].status \/ offer'[o].status = "EXPIRED"
        BY <3>0, <4>1 DEF F!RowType
      <4>4. F!With("ACCEPTED")' \subseteq F!With("ACCEPTED")
        BY <4>3 DEF F!With
      <4>5. F!With("PENDING")' = {}
        BY <3>0, <4>1, <4>2, <4>3 DEF F!With, F!RowType
      <4>6. \A q \in Request : F!Accepting(q)' => ask'[q] = ask[q]
        BY <3>0, <4>2 DEF F!Accepting, F!NoAsk
      <4>7. HandsKnown' /\ AcceptedKnown'
        BY <3>3, <4>2, <4>4, <4>6, FewerAcceptances
      <4> QED BY <4>5, <4>7 DEF PendingKnown
    <3>8. ASSUME NEW r \in Request, NEW o \in F!OfferId, F!Accept(r, o)
          PROVE  HandsKnown' /\ PendingKnown' /\ AcceptedKnown'
      BY <3>2, <3>8, AcceptIsKnown
    <3>9. ASSUME NEW r \in Request, F!SaveCreated(r) PROVE HandsKnown' /\ PendingKnown' /\ AcceptedKnown'
      BY <3>2, <3>9, CreatedIsKnown
    <3>10. ASSUME NEW r \in Request, F!SaveAccepted(r) PROVE HandsKnown' /\ PendingKnown' /\ AcceptedKnown'
      BY <3>2, <3>10, SavedIsKnown
    <3> QED BY <1>2, <3>1, <3>4, <3>5, <3>6, <3>7, <3>8, <3>9, <3>10 DEF F!Next
  <2> QED BY <2>1, <2>2 DEF OffersInv
<1> QED BY <1>1, <1>2

(* offer.service.ts, accept, with the statements of other requests between *)
(* its own: two offers on one NFT are both accepted only if the later was  *)
(* made after the first was accepted, or the two acceptances were in hand  *)
(* at once, or a request was cut off; for any number of offers and         *)
(* requests.                                                               *)
THEOREM OffersAccepted == Spec => []OneAcceptance
<1>1. Init => OffersInv
  BY OffersInit, Constants DEF Init
<1>2. OffersInv /\ [Next]_vars => OffersInv'
  <2>1. [Next]_vars => [F!Next]_(F!offerVars)
    BY DEF Next, vars, ofOffers, F!offerVars
  <2> QED BY <2>1, OffersStep, Constants
<1>3. OffersInv => OneAcceptance
  BY DEF OffersInv, AcceptedKnown, Explained, OneAcceptance, F!OneAcceptance, F!With
<1> QED BY <1>1, <1>2, <1>3, PTL DEF Spec

-----------------------------------------------------------------------------
(* The job queue.                                                          *)

PollerSteps == {"idle", "loading", "activating", "listing", "running", "done_unlist",
                "done_read", "done_write", "done_add", "fail_unlist", "fail_read",
                "fail_write", "fail_add", "fail_dlq", "done_expire", "fail_expire"}
MoverSteps  == {"idle", "moving", "move_write", "move_remove", "move_add"}

Hand == [pc : Q!Steps, now : SUBSET Job, todo : SUBSET Job, copy : Q!Record \cup {Q!Absent}]

DataType ==
    /\ job \in [Job -> Q!Record \cup {Q!Absent}]
    /\ queue \in [Q!Names -> SUBSET Job] /\ due \subseteq queue["delayed"]
    /\ runs \in [Job -> Int]

(* What a process in each place has in hand.                               *)
Copied(o) ==
    /\ o.pc \in {"setting", "adding"} => o.copy.status \in {"pending", "delayed"}
    /\ o.pc = "activating" => o.copy.status = "active"
    /\ o.pc = "done_write" => o.copy.status = "completed"
    /\ o.pc \in {"fail_write", "fail_add"} => o.copy.status \in {"delayed", "failed"}
    /\ o.pc = "move_write" => o.copy.status = "pending"

Handles(p, o) ==
    /\ p \in Producer => o.pc \in {"idle", "setting", "adding"} /\ o.todo = {}
    /\ p \in Poller => o.pc \in PollerSteps /\ o.todo = {}
    /\ p \in Mover => o.pc \in MoverSteps
    /\ IF o.pc \in {"idle", "moving"} THEN o.now = {} ELSE \E j \in Job : o.now = {j}
    /\ o.pc = "idle" => o.todo = {}
    /\ Copied(o)

Hands == /\ DataType /\ op \in [Q!Process -> Hand]
         /\ \A p \in Q!Process : Handles(p, op[p])

(* Where a poller is done with its job but for its place among the settled. *)
Last == {"done_add", "done_expire", "fail_dlq", "fail_expire"}
USE DEF Last

(* A process that will still put a job back, or run it.                    *)
Carries(p, j) == /\ j \in op[p].now /\ op[p].pc \notin Last
                 /\ ~(op[p].pc = "fail_add" /\ op[p].copy.status = "failed")

ToRun(j) == job[j].status \in {"pending", "delayed", "active"}

NotLost(j) == ToRun(j) /\ j \notin shaken =>
                  Q!Waiting(j) \/ \E p \in Q!Process : Carries(p, j)

(* A job that nobody raced for is in one place: queued, delayed, or in one *)
(* process's hands, and its record or its end keeps its id from being used *)
(* again.                                                                  *)
Taken(j) == job[j] # Q!Absent \/ j \in queue["completed"] \cup queue["failed"]

InOnePlace(j) ==
    /\ \A p, q \in Q!Process : j \in op[p].now /\ j \in op[q].now => p = q
    /\ \A p, q \in Q!Process : j \in op[p].todo /\ j \in op[q].todo => p = q
    /\ j \in queue["pending"] => j \notin queue["delayed"] /\ ~Q!InHand(j)
    /\ \A p \in Q!Process : j \in op[p].now =>
         (j \in queue["delayed"] <=> op[p].pc \in {"move_write", "move_remove"})
    /\ \A p \in Q!Process : j \in op[p].todo => j \in queue["delayed"] /\ ~Q!InHand(j)
    /\ Q!Waiting(j) => Taken(j)
    /\ \A p \in Q!Process : j \in op[p].now /\ op[p].pc # "setting" => Taken(j)
    /\ runs[j] = IF \E p \in Q!Process : Q!At(p, "running", j) THEN 1 ELSE 0

Sound(j) == NotLost(j) /\ (j \notin raced \cup shaken => InOnePlace(j))

QueueInv == Hands /\ \A j \in Job : Sound(j)

LEMMA QueueInit == ASSUME Q!Init PROVE QueueInv
<1>1. Q!Absent.status = "absent" /\ Q!Idle = [pc |-> "idle", now |-> {}, todo |-> {}, copy |-> Q!Absent]
  BY DEF Q!Absent, Q!Idle
<1>2. \A p \in Q!Process : op[p] = Q!Idle /\ Q!Idle \in Hand
  BY <1>1 DEF Q!Init, Hand, Q!Steps
<1>3. Hands
  <2>1. DataType
    BY DEF Q!Init, DataType, Q!Names
  <2>2. op \in [Q!Process -> Hand]
    BY <1>2 DEF Q!Init
  <2>3. \A p \in Q!Process : Handles(p, op[p])
    BY <1>1, <1>2 DEF Handles, Copied, PollerSteps, MoverSteps
  <2> QED BY <2>1, <2>2, <2>3 DEF Hands
<1>4. \A j \in Job : Sound(j)
  BY <1>1, <1>2 DEF Q!Init, Sound, NotLost, ToRun, InOnePlace, Q!InHand, Q!Waiting, Q!At, Q!Names
<1> QED BY <1>3, <1>4 DEF QueueInv

(* One process moves, with one job: nothing else is touched.               *)
Alone(p, j, o) ==
    /\ op' = [op EXCEPT ![p] = o]
    /\ \A i \in Job \ {j} : /\ job'[i] = job[i] /\ runs'[i] = runs[i]
                            /\ \A n \in Q!Names : i \in queue'[n] <=> i \in queue[n]
    /\ raced \subseteq raced' /\ shaken \subseteq shaken'

LEMMA AloneHands ==
    ASSUME Hands, NEW p \in Q!Process, NEW o \in Hand, op' = [op EXCEPT ![p] = o],
           Handles(p, o), DataType'
    PROVE  Hands' /\ op'[p] = o /\ \A q \in Q!Process \ {p} : op'[q] = op[q]
<1>1. op' \in [Q!Process -> Hand] /\ op'[p] = o /\ \A q \in Q!Process \ {p} : op'[q] = op[q]
  BY DEF Hands
<1>2. \A q \in Q!Process : Handles(q, op'[q])
  BY <1>1 DEF Hands
<1> QED BY <1>1, <1>2 DEF Hands, Handles

(* What says of a job where it stands, and what leaves it standing there.  *)
Stays(i) ==
    /\ \A q \in Q!Process :
         /\ i \in op'[q].now <=> i \in op[q].now
         /\ i \in op'[q].todo => i \in op[q].todo
         /\ i \in op[q].now =>
              /\ op'[q].pc \in {"move_write", "move_remove"} <=> op[q].pc \in {"move_write", "move_remove"}
              /\ op'[q].pc = "running" <=> op[q].pc = "running"
              /\ op'[q].pc # "setting" => op[q].pc # "setting" \/ Taken(i)'
    /\ i \in queue'["pending"] <=> i \in queue["pending"]
    /\ i \in queue'["delayed"] <=> i \in queue["delayed"]
    /\ runs'[i] = runs[i] /\ (Taken(i) => Taken(i)')

LEMMA StaysInPlace == ASSUME NEW i \in Job, InOnePlace(i), Stays(i) PROVE InOnePlace(i)'
<1>1. Q!InHand(i)' <=> Q!InHand(i)
  BY DEF Stays, Q!InHand
<1>2. \A q \in Q!Process : Q!At(q, "running", i)' <=> Q!At(q, "running", i)
  BY DEF Stays, Q!At
<1>3. Q!Waiting(i)' <=> Q!Waiting(i)
  BY DEF Stays, Q!Waiting
<1>4. runs'[i] = IF \E p \in Q!Process : Q!At(p, "running", i)' THEN 1 ELSE 0
  BY <1>2 DEF InOnePlace, Stays
<1>5. Q!Waiting(i)' => Taken(i)'
  BY <1>3 DEF InOnePlace, Stays
<1>6. \A p \in Q!Process : i \in op'[p].now /\ op'[p].pc # "setting" => Taken(i)'
  BY DEF InOnePlace, Stays
<1>7. /\ \A p, q \in Q!Process : i \in op'[p].now /\ i \in op'[q].now => p = q
      /\ \A p, q \in Q!Process : i \in op'[p].todo /\ i \in op'[q].todo => p = q
      /\ i \in queue'["pending"] => i \notin queue'["delayed"] /\ ~Q!InHand(i)'
      /\ \A p \in Q!Process : i \in op'[p].now =>
           (i \in queue'["delayed"] <=> op'[p].pc \in {"move_write", "move_remove"})
      /\ \A p \in Q!Process : i \in op'[p].todo => i \in queue'["delayed"] /\ ~Q!InHand(i)'
  BY <1>1 DEF InOnePlace, Stays
<1> QED BY <1>4, <1>5, <1>6, <1>7 DEF InOnePlace

(* The jobs a step does not concern.                                       *)
LEMMA Elsewhere ==
    ASSUME QueueInv, NEW p \in Q!Process, NEW j \in Job, NEW o \in Hand, Alone(p, j, o),
           op[p].now \subseteq {j}, o.now \subseteq {j}, o.todo \subseteq op[p].todo \cup {j}
    PROVE  \A i \in Job \ {j} : Sound(i)'
<1> SUFFICES ASSUME NEW i \in Job, i # j PROVE Sound(i)'
  OBVIOUS
<1>1. op'[p] = o /\ \A q \in Q!Process \ {p} : op'[q] = op[q]
  BY DEF Alone, QueueInv, Hands
<1>2. /\ job'[i] = job[i] /\ runs'[i] = runs[i] /\ raced \subseteq raced' /\ shaken \subseteq shaken'
      /\ \A n \in Q!Names : i \in queue'[n] <=> i \in queue[n]
  BY DEF Alone
<1>3. {"pending", "delayed", "completed", "failed"} \subseteq Q!Names
  BY DEF Q!Names
<1>4. Sound(i)
  BY DEF QueueInv
<1>5. Taken(i)' <=> Taken(i)
  BY <1>2, <1>3 DEF Taken
<1>6. Stays(i)
  BY <1>1, <1>2, <1>3, <1>5 DEF Stays
<1>7. \A q \in Q!Process : Carries(q, i)' <=> Carries(q, i)
  BY <1>1 DEF Carries
<1>8. NotLost(i)'
  BY <1>2, <1>3, <1>4, <1>7 DEF Sound, NotLost, ToRun, Q!Waiting
<1> QED BY <1>2, <1>4, <1>6, <1>8, StaysInPlace DEF Sound

(* A process goes on with the job it has in hand.                          *)
LEMMA GoesOn ==
    ASSUME QueueInv, NEW p \in Q!Process, NEW j \in Job, NEW o \in Hand, Alone(p, j, o),
           op[p].now = {j}, o.now = {j}, o.todo = op[p].todo, Handles(p, o), DataType',
           o.pc \in {"move_write", "move_remove"} <=> op[p].pc \in {"move_write", "move_remove"},
           o.pc # "running", op[p].pc # "running",
           o.pc = "setting" \/ op[p].pc # "setting" \/ Taken(j)',
           j \in queue'["pending"] <=> j \in queue["pending"],
           j \in queue'["delayed"] <=> j \in queue["delayed"],
           runs'[j] = runs[j], Taken(j) => Taken(j)',
           \/ o.pc \notin Last /\ ~(o.pc = "fail_add" /\ o.copy.status = "failed")
           \/ ~ToRun(j)'
           \/ ~Carries(p, j) /\ job'[j] = job[j]
    PROVE  QueueInv'
<1>1. Hands' /\ op'[p] = o /\ \A q \in Q!Process \ {p} : op'[q] = op[q]
  BY AloneHands DEF QueueInv, Alone
<1>2. \A i \in Job \ {j} : Sound(i)'
  BY Elsewhere
<1>3. Sound(j) /\ raced \subseteq raced' /\ shaken \subseteq shaken'
  BY DEF QueueInv, Alone
<1>4. Stays(j)
  BY <1>1 DEF Stays
<1>5. NotLost(j)'
  <2>1. CASE o.pc \notin Last /\ ~(o.pc = "fail_add" /\ o.copy.status = "failed")
    BY <2>1, <1>1 DEF NotLost, Carries
  <2>2. CASE ~ToRun(j)'
    BY <2>2 DEF NotLost
  <2>3. CASE ~Carries(p, j) /\ job'[j] = job[j]
    <3>1. \A q \in Q!Process : Carries(q, j) => Carries(q, j)'
      BY <2>3, <1>1 DEF Carries
    <3>2. Q!Waiting(j)' <=> Q!Waiting(j)
      BY DEF Q!Waiting
    <3> QED BY <2>3, <3>1, <3>2, <1>3 DEF Sound, NotLost, ToRun
  <2> QED BY <2>1, <2>2, <2>3
<1>6. Sound(j)'
  BY <1>3, <1>4, <1>5, StaysInPlace DEF Sound
<1> QED BY <1>1, <1>2, <1>6 DEF QueueInv

(* A process puts its job down.                                            *)
LEMMA PutsDown ==
    ASSUME QueueInv, NEW p \in Q!Process, NEW j \in Job, NEW o \in Hand, Alone(p, j, o),
           op[p].now = {j}, o.now = {}, o.todo = op[p].todo, Handles(p, o), DataType',
           op[p].pc \notin {"running", "move_write", "move_remove"}, runs'[j] = runs[j],
           \/ /\ j \in queue'["pending"] <=> j \in queue["pending"]
              /\ j \in queue'["delayed"] <=> j \in queue["delayed"]
              /\ ~ToRun(j)' \/ (~Carries(p, j) /\ job'[j] = job[j])
           \/ /\ op[p].pc # "setting" /\ job'[j] = job[j]
              /\ \A n \in {"completed", "failed"} : queue'[n] = queue[n]
              /\ j \in queue'["pending"] \/ j \in queue'["delayed"]
              /\ queue'["pending"] = queue["pending"] \/ queue'["delayed"] = queue["delayed"]
    PROVE  QueueInv'
<1>1. Hands' /\ op'[p] = o /\ \A q \in Q!Process \ {p} : op'[q] = op[q]
  BY AloneHands DEF QueueInv, Alone
<1>2. \A i \in Job \ {j} : Sound(i)'
  BY Elsewhere
<1>3. Sound(j) /\ raced \subseteq raced' /\ shaken \subseteq shaken'
  BY DEF QueueInv, Alone
<1>4. NotLost(j)'
  <2>1. CASE j \in queue'["pending"] \/ j \in queue'["delayed"]
    BY <2>1 DEF NotLost, Q!Waiting
  <2>2. CASE ~ToRun(j)'
    BY <2>2 DEF NotLost
  <2>3. CASE /\ j \in queue'["pending"] <=> j \in queue["pending"]
             /\ j \in queue'["delayed"] <=> j \in queue["delayed"]
             /\ ~Carries(p, j) /\ job'[j] = job[j]
    <3>1. \A q \in Q!Process : Carries(q, j) => Carries(q, j)'
      BY <2>3, <1>1 DEF Carries
    <3>2. Q!Waiting(j)' <=> Q!Waiting(j)
      BY <2>3 DEF Q!Waiting
    <3> QED BY <2>3, <3>1, <3>2, <1>3 DEF Sound, NotLost, ToRun
  <2> QED BY <2>1, <2>2, <2>3
<1>5. ASSUME InOnePlace(j) PROVE InOnePlace(j)'
  <2>1. /\ \A q \in Q!Process : j \in op[q].now <=> q = p
        /\ \A q \in Q!Process : j \notin op[q].todo
        /\ j \notin queue["pending"] /\ j \notin queue["delayed"]
        /\ op[p].pc # "setting" => Taken(j)
    BY <1>5 DEF InOnePlace, Q!InHand
  <2>2. /\ \A q \in Q!Process : j \notin op'[q].now /\ j \notin op'[q].todo
        /\ ~Q!InHand(j)'
    BY <2>1, <1>1 DEF Q!InHand
  <2>3. j \notin queue'["pending"] \/ j \notin queue'["delayed"]
    BY <2>1
  <2>4. Q!Waiting(j)' => Taken(j)'
    BY <2>1 DEF Q!Waiting, Taken
  <2>5. runs'[j] = IF \E q \in Q!Process : Q!At(q, "running", j)' THEN 1 ELSE 0
    <3>1. \A q \in Q!Process : ~Q!At(q, "running", j) /\ ~Q!At(q, "running", j)'
      BY <2>1, <2>2 DEF Q!At
    <3> QED BY <3>1, <1>5 DEF InOnePlace
  <2> QED BY <2>2, <2>3, <2>4, <2>5 DEF InOnePlace
<1>6. Sound(j)'
  BY <1>3, <1>4, <1>5 DEF Sound
<1> QED BY <1>1, <1>2, <1>6 DEF QueueInv

(* A process takes a job in hand.                                          *)
LEMMA TakesUp ==
    ASSUME QueueInv, NEW p \in Q!Process, NEW j \in Job, NEW o \in Hand, Alone(p, j, o),
           op[p].now = {}, o.now = {j}, o.todo \subseteq op[p].todo \ {j},
           Handles(p, o), DataType',
           o.pc \in {"setting", "loading", "move_write"}, runs'[j] = runs[j],
           Taken(j)' <=> Taken(j),
           j \notin raced' /\ InOnePlace(j) =>
              /\ ~Q!InHand(j) /\ \A q \in Q!Process \ {p} : j \notin op[q].todo
              /\ j \notin queue'["pending"]
              /\ j \in queue'["delayed"] <=> o.pc = "move_write"
              /\ o.pc # "setting" => Taken(j)
    PROVE  QueueInv'
<1>1. Hands' /\ op'[p] = o /\ \A q \in Q!Process \ {p} : op'[q] = op[q]
  BY AloneHands DEF QueueInv, Alone
<1>2. \A i \in Job \ {j} : Sound(i)'
  BY Elsewhere
<1>3. Sound(j) /\ raced \subseteq raced' /\ shaken \subseteq shaken'
  BY DEF QueueInv, Alone
<1>4. NotLost(j)'
  BY <1>1 DEF NotLost, Carries
<1>5. ASSUME InOnePlace(j), j \notin raced' PROVE InOnePlace(j)'
  <2>1. /\ ~Q!InHand(j) /\ \A q \in Q!Process \ {p} : j \notin op[q].todo
        /\ j \notin queue'["pending"]
        /\ j \in queue'["delayed"] <=> o.pc = "move_write"
        /\ o.pc # "setting" => Taken(j)'
    BY <1>5
  <2>2. \A q \in Q!Process : (j \in op'[q].now <=> q = p) /\ j \notin op'[q].todo
    BY <2>1, <1>1 DEF Q!InHand
  <2>3. Q!Waiting(j)' => Taken(j)'
    BY <2>1 DEF Q!Waiting
  <2>4. runs'[j] = IF \E q \in Q!Process : Q!At(q, "running", j)' THEN 1 ELSE 0
    <3>1. \A q \in Q!Process : ~Q!At(q, "running", j) /\ ~Q!At(q, "running", j)'
      BY <2>1, <2>2, <1>1 DEF Q!At, Q!InHand
    <3> QED BY <3>1, <1>5 DEF InOnePlace
  <2>5. \A q \in Q!Process : j \in op'[q].now =>
            (j \in queue'["delayed"] <=> op'[q].pc \in {"move_write", "move_remove"})
    BY <2>1, <2>2, <1>1
  <2>6. \A q \in Q!Process : j \in op'[q].now /\ op'[q].pc # "setting" => Taken(j)'
    BY <2>1, <2>2, <1>1
  <2> QED BY <2>1, <2>2, <2>3, <2>4, <2>5, <2>6 DEF InOnePlace
<1>6. Sound(j)'
  BY <1>3, <1>4, <1>5 DEF Sound
<1> QED BY <1>1, <1>2, <1>6 DEF QueueInv

(* Where a process is says what it has in hand.                            *)
LEMMA InPlace ==
    ASSUME QueueInv, NEW p \in Q!Process, NEW j \in Job, NEW x, Q!At(p, x, j)
    PROVE  /\ op[p] \in Hand /\ op[p].pc = x /\ op[p].now = {j}
           /\ Handles(p, op[p]) /\ Sound(j) /\ DataType
<1>1. op[p] \in Hand /\ Handles(p, op[p]) /\ Sound(j) /\ DataType
  BY DEF QueueInv, Hands
<1>2. op[p].pc = x /\ j \in op[p].now
  BY DEF Q!At
<1>3. op[p].now = {j}
  BY <1>1, <1>2 DEF Handles
<1> QED BY <1>1, <1>2, <1>3

(* What the steps do to the sorted sets.                                   *)
LEMMA AddsOnly ==
    ASSUME DataType, NEW n \in Q!Names, NEW j \in Job, Q!Add(n, j)
    PROVE  /\ queue' \in [Q!Names -> SUBSET Job]
           /\ j \in queue'[n] /\ \A m \in Q!Names \ {n} : queue'[m] = queue[m]
           /\ queue'["delayed"] = queue["delayed"] \/ queue'["delayed"] = queue["delayed"] \cup {j}
           /\ \A i \in Job \ {j}, m \in Q!Names : i \in queue'[m] <=> i \in queue[m]
<1>1. queue' = [queue EXCEPT ![n] = @ \cup {j}] /\ queue \in [Q!Names -> SUBSET Job]
  BY DEF Q!Add, DataType
<1>2. queue'[n] = queue[n] \cup {j} /\ \A m \in Q!Names \ {n} : queue'[m] = queue[m]
  BY <1>1
<1>3. "delayed" \in Q!Names
  BY DEF Q!Names
<1> QED BY <1>1, <1>2, <1>3

LEMMA RemovesOnly ==
    ASSUME DataType, NEW n \in Q!Names, NEW j \in Job, Q!Remove(n, j)
    PROVE  /\ queue' \in [Q!Names -> SUBSET Job] /\ due' \subseteq queue'["delayed"]
           /\ j \notin queue'[n] /\ \A m \in Q!Names \ {n} : queue'[m] = queue[m]
           /\ \A i \in Job \ {j}, m \in Q!Names : i \in queue'[m] <=> i \in queue[m]
<1>1. queue' = [queue EXCEPT ![n] = @ \ {j}] /\ queue \in [Q!Names -> SUBSET Job]
      /\ due' = (IF n = "delayed" THEN due \ {j} ELSE due) /\ due \subseteq queue["delayed"]
  BY DEF Q!Remove, DataType
<1>2. queue'[n] = queue[n] \ {j} /\ \A m \in Q!Names \ {n} : queue'[m] = queue[m]
  BY <1>1
<1>3. "delayed" \in Q!Names
  BY DEF Q!Names
<1> QED BY <1>1, <1>2, <1>3

(* enqueue: EXISTS, SET, ZADD.                                             *)
LEMMA EnqueueStep ==
    ASSUME Q!QueueConstants, QueueInv, NEW p \in Producer, NEW j \in Job, Q!EnqueueSet(p, j) \/ Q!EnqueueAdd(p, j)
           \/ \E s \in {"pending", "delayed"} : Q!Enqueue(p, j, s)
    PROVE  QueueInv'
<1>1. p \in Q!Process /\ p \notin Poller /\ p \notin Mover
  BY DEF Q!Process, Q!QueueConstants
<1>2. CASE \E s \in {"pending", "delayed"} : Q!Enqueue(p, j, s)
  <2>1. PICK s \in {"pending", "delayed"} : Q!Enqueue(p, j, s)
    BY <1>2
  <2> DEFINE o == [Q!Idle EXCEPT !.pc = "setting", !.now = {j},
                                 !.copy = [status |-> s, attempts |-> 0]]
  <2>2. [status |-> s, attempts |-> 0] \in Q!Record /\ Q!Idle \in Hand /\ Q!Idle.todo = {}
    BY DEF Q!Idle, Hand, Q!Steps, Q!Record, Q!Status, Q!QueueConstants
  <2>3. /\ o \in Hand /\ o.pc = "setting" /\ o.now = {j} /\ o.todo = {}
        /\ o.copy = [status |-> s, attempts |-> 0] /\ o.copy.status = s
    BY <2>2 DEF Hand, Q!Steps
  <2>4. /\ op' = [op EXCEPT ![p] = o] /\ op[p].pc = "idle"
        /\ ~Taken(j) /\ raced' = raced \cup ({j} \cap Q!Others(p, Producer))
        /\ UNCHANGED <<job, queue, due, runs, shaken>>
    BY <2>1 DEF Q!Enqueue, Taken, Q!quiet
  <2>5. Handles(p, op[p]) /\ DataType /\ Sound(j)
    BY <1>1 DEF QueueInv, Hands
  <2>6. op[p].now = {} /\ op[p].todo = {}
    BY <2>4, <2>5 DEF Handles
  <2>7. Handles(p, o) /\ DataType'
    BY <2>3, <2>4, <2>5, <1>1 DEF Handles, Copied, DataType
  <2>8. Alone(p, j, o)
    BY <2>4 DEF Alone
  <2>9. Taken(j)' <=> Taken(j)
    BY <2>4 DEF Taken
  <2>10. ASSUME j \notin raced', InOnePlace(j)
         PROVE  /\ ~Q!InHand(j) /\ \A q \in Q!Process \ {p} : j \notin op[q].todo
                /\ j \notin queue'["pending"] /\ j \notin queue'["delayed"]
    <3>1. ~Q!Waiting(j) /\ \A q \in Q!Process : j \in op[q].now => op[q].pc = "setting"
      BY <2>10, <2>4 DEF InOnePlace
    <3>2. \A q \in Q!Process : op[q].pc = "setting" => q \in Producer
      BY DEF QueueInv, Hands, Handles, PollerSteps, MoverSteps, Q!Process
    <3>3. \A q \in Producer \ {p} : j \notin op[q].now
      BY <2>4, <2>10 DEF Q!Others
    <3>4. ~Q!InHand(j)
      BY <3>1, <3>2, <3>3, <2>6 DEF Q!InHand
    <3>5. \A q \in Q!Process : j \notin op[q].todo
      BY <3>1, <2>10 DEF InOnePlace, Q!Waiting
    <3> QED BY <3>1, <3>4, <3>5, <2>4 DEF Q!Waiting
  <2> HIDE DEF o
  <2> QED BY <2>3, <2>4, <2>6, <2>7, <2>8, <2>9, <2>10, <1>1, TakesUp
<1>3. CASE Q!EnqueueSet(p, j)
  <2>1. /\ op[p] \in Hand /\ op[p].pc = "setting" /\ op[p].now = {j}
        /\ Handles(p, op[p]) /\ Sound(j) /\ DataType
    BY <1>1, <1>3, InPlace DEF Q!EnqueueSet
  <2> DEFINE o == [op[p] EXCEPT !.pc = "adding"]
  <2>2. /\ o \in Hand /\ o.pc = "adding" /\ o.now = {j} /\ o.todo = op[p].todo
        /\ o.copy = op[p].copy
    BY <2>1 DEF Hand, Q!Steps
  <2>3. /\ op' = [op EXCEPT ![p] = o] /\ job' = [job EXCEPT ![j] = op[p].copy]
        /\ UNCHANGED <<queue, due, raced, runs, shaken>>
    BY <1>3 DEF Q!EnqueueSet, Q!Goto, Q!quiet
  <2>4. op[p].copy \in Q!Record \cup {Q!Absent} /\ op[p].copy.status \in {"pending", "delayed"}
    BY <2>1 DEF Hand, Handles, Copied
  <2> HIDE DEF o
  <2>5. Handles(p, o) /\ DataType'
    BY <2>1, <2>2, <2>3, <2>4, <1>1 DEF Handles, Copied, DataType
  <2>6. Alone(p, j, o) /\ job'[j] = op[p].copy
    BY <2>1, <2>3 DEF Alone, DataType
  <2>7. Taken(j)'
    BY <2>4, <2>6 DEF Taken, Q!Absent
  <2> QED BY <2>1, <2>2, <2>3, <2>5, <2>6, <2>7, <1>1, GoesOn
<1>4. CASE Q!EnqueueAdd(p, j)
  <2>1. /\ op[p] \in Hand /\ op[p].pc = "adding" /\ op[p].now = {j}
        /\ Handles(p, op[p]) /\ Sound(j) /\ DataType
    BY <1>1, <1>4, InPlace DEF Q!EnqueueAdd
  <2> DEFINE n == op[p].copy.status
  <2>2. n \in {"pending", "delayed"} /\ n \in Q!Names
    BY <2>1 DEF Handles, Copied, Q!Names
  <2>3. op' = [op EXCEPT ![p] = Q!Idle] /\ UNCHANGED <<job, due, raced, runs, shaken>> /\ Q!Add(n, j)
    BY <1>4 DEF Q!EnqueueAdd, Q!Leave, Q!quiet
  <2>4. /\ Q!Idle \in Hand /\ Q!Idle.now = {} /\ Q!Idle.todo = {} /\ Q!Idle.pc = "idle"
        /\ Handles(p, Q!Idle) /\ op[p].todo = {}
    BY <2>1, <1>1 DEF Q!Idle, Hand, Q!Steps, Handles, Copied
  <2> HIDE DEF n
  <2>5. /\ queue' \in [Q!Names -> SUBSET Job]
        /\ j \in queue'[n] /\ \A m \in Q!Names \ {n} : queue'[m] = queue[m]
        /\ queue'["delayed"] = queue["delayed"] \/ queue'["delayed"] = queue["delayed"] \cup {j}
        /\ \A i \in Job \ {j}, m \in Q!Names : i \in queue'[m] <=> i \in queue[m]
    BY <2>1, <2>2, <2>3, AddsOnly
  <2>6. DataType'
    BY <2>1, <2>3, <2>5 DEF DataType
  <2>7. Alone(p, j, Q!Idle)
    BY <2>3, <2>5 DEF Alone
  <2>8. /\ \A m \in {"completed", "failed"} : queue'[m] = queue[m]
        /\ j \in queue'["pending"] \/ j \in queue'["delayed"]
        /\ n # "pending" => queue'["pending"] = queue["pending"]
        /\ n # "delayed" => queue'["delayed"] = queue["delayed"]
    BY <2>2, <2>5 DEF Q!Names
  <2>9. /\ op[p].pc # "setting" /\ job'[j] = job[j] /\ runs'[j] = runs[j]
        /\ queue'["pending"] = queue["pending"] \/ queue'["delayed"] = queue["delayed"]
    BY <2>1, <2>2, <2>3, <2>8
  <2> QED BY <2>1, <2>4, <2>6, <2>7, <2>8, <2>9, <1>1, PutsDown
<1> QED BY <1>2, <1>3, <1>4

(* A poller goes on with its job, or puts it down for good.                *)
Beside(j) ==
    /\ job' \in [Job -> Q!Record \cup {Q!Absent}] /\ \A i \in Job \ {j} : job'[i] = job[i]
    /\ queue' \in [Q!Names -> SUBSET Job]
    /\ \A i \in Job \ {j}, n \in Q!Names : i \in queue'[n] <=> i \in queue[n]
    /\ queue'["pending"] = queue["pending"] /\ queue'["delayed"] = queue["delayed"]
    /\ queue["completed"] \subseteq queue'["completed"] /\ queue["failed"] \subseteq queue'["failed"]
    /\ due' \subseteq due /\ runs' = runs /\ raced \subseteq raced' /\ shaken \subseteq shaken'

LEMMA PollerGoes ==
    ASSUME Q!QueueConstants, QueueInv, NEW w \in Poller, NEW j \in Job, NEW o \in Hand,
           op' = [op EXCEPT ![w] = o], op[w].now = {j}, o.now = {j}, o.todo = op[w].todo,
           op[w].pc \in PollerSteps \ {"idle", "running"}, o.pc \in PollerSteps \ {"idle", "running"},
           Copied(o), Beside(j), job'[j] = job[j] \/ job'[j] # Q!Absent,
           \/ o.pc \notin Last /\ ~(o.pc = "fail_add" /\ o.copy.status = "failed")
           \/ ~ToRun(j)'
           \/ ~Carries(w, j) /\ job'[j] = job[j]
    PROVE  QueueInv'
<1>1. w \in Q!Process /\ w \notin Producer /\ w \notin Mover
  BY DEF Q!Process, Q!QueueConstants
<1>2. Handles(w, op[w]) /\ DataType
  BY <1>1 DEF QueueInv, Hands
<1>3. Handles(w, o)
  BY <1>1, <1>2 DEF Handles, PollerSteps
<1>4. DataType'
  BY <1>2 DEF DataType, Beside
<1>5. Alone(w, j, o) /\ runs'[j] = runs[j]
  BY DEF Alone, Beside
<1>6. Taken(j) => Taken(j)'
  BY DEF Taken, Beside
<1>7. /\ o.pc \notin {"move_write", "move_remove", "setting", "running"}
      /\ op[w].pc \notin {"move_write", "move_remove", "setting", "running"}
  BY DEF PollerSteps
<1>8. queue'["pending"] = queue["pending"] /\ queue'["delayed"] = queue["delayed"]
  BY DEF Beside
<1> QED BY <1>1, <1>3, <1>4, <1>5, <1>6, <1>7, <1>8, GoesOn

LEMMA PollerLeaves ==
    ASSUME Q!QueueConstants, QueueInv, NEW w \in Poller, NEW j \in Job,
           Q!Leave(w), op[w].now = {j}, op[w].pc \in PollerSteps \ {"idle", "running"},
           Beside(j), ~ToRun(j)' \/ (~Carries(w, j) /\ job'[j] = job[j])
    PROVE  QueueInv'
<1>1. w \in Q!Process /\ w \notin Producer /\ w \notin Mover
  BY DEF Q!Process, Q!QueueConstants
<1>2. Handles(w, op[w]) /\ DataType
  BY <1>1 DEF QueueInv, Hands
<1>3. /\ Q!Idle \in Hand /\ Q!Idle.now = {} /\ Q!Idle.todo = op[w].todo
      /\ Handles(w, Q!Idle)
  BY <1>1, <1>2 DEF Q!Idle, Hand, Q!Steps, Handles, Copied, PollerSteps
<1>4. DataType'
  BY <1>2 DEF DataType, Beside
<1>5. Alone(w, j, Q!Idle) /\ runs'[j] = runs[j]
  BY DEF Alone, Beside, Q!Leave
<1>6. op[w].pc \notin {"move_write", "move_remove", "setting", "running"}
  BY DEF PollerSteps
<1>7. queue'["pending"] = queue["pending"] /\ queue'["delayed"] = queue["delayed"]
  BY DEF Beside
<1> QED BY <1>1, <1>3, <1>4, <1>5, <1>6, <1>7, PutsDown

(* processNext up to the handler, and the handler's run.                   *)
LEMMA TakeStep ==
    ASSUME Q!QueueConstants, QueueInv, NEW w \in Poller, NEW j \in Job,
           Q!Pop(w, j) \/ Q!Load(w, j) \/ Q!Activate(w, j)
    PROVE  QueueInv'
<1>1. w \in Q!Process /\ w \notin Producer /\ w \notin Mover
  BY DEF Q!Process, Q!QueueConstants
<1>2. CASE Q!Pop(w, j)
  <2> DEFINE o == [Q!Idle EXCEPT !.pc = "loading", !.now = {j}]
  <2>1. Q!Idle \in Hand /\ Q!Idle.todo = {} /\ Q!Idle.copy = Q!Absent
    BY DEF Q!Idle, Hand, Q!Steps
  <2>2. o \in Hand /\ o.pc = "loading" /\ o.now = {j} /\ o.todo = {}
    BY <2>1 DEF Hand, Q!Steps
  <2>3. /\ op' = [op EXCEPT ![w] = o] /\ op[w].pc = "idle" /\ j \in queue["pending"]
        /\ Q!Remove("pending", j) /\ UNCHANGED <<job, raced, runs, shaken>>
    BY <1>2 DEF Q!Pop, Q!quiet
  <2>4. Handles(w, op[w]) /\ DataType /\ Sound(j) /\ op \in [Q!Process -> Hand]
    BY <1>1 DEF QueueInv, Hands
  <2>5. op[w].now = {}
    BY <2>3, <2>4 DEF Handles
  <2>6. /\ queue' \in [Q!Names -> SUBSET Job] /\ due' \subseteq queue'["delayed"]
        /\ j \notin queue'["pending"] /\ \A m \in Q!Names \ {"pending"} : queue'[m] = queue[m]
        /\ \A i \in Job \ {j}, m \in Q!Names : i \in queue'[m] <=> i \in queue[m]
    <3>1. "pending" \in Q!Names
      BY DEF Q!Names
    <3> QED BY <2>3, <2>4, <3>1, RemovesOnly
  <2>7. Handles(w, o)
    BY <1>1, <2>2 DEF Handles, Copied, PollerSteps
  <2>8. DataType'
    BY <2>3, <2>4, <2>6 DEF DataType
  <2>9. Alone(w, j, o) /\ runs'[j] = runs[j]
    BY <2>3, <2>6 DEF Alone
  <2>10. Taken(j)' <=> Taken(j)
    BY <2>3, <2>6 DEF Taken, Q!Names
  <2>11. InOnePlace(j) =>
              /\ ~Q!InHand(j) /\ \A q \in Q!Process : j \notin op[q].todo
              /\ j \notin queue'["delayed"] /\ Taken(j)
    BY <2>3, <2>6 DEF InOnePlace, Q!Waiting, Q!Names
  <2> HIDE DEF o
  <2> QED BY <1>1, <2>2, <2>5, <2>6, <2>7, <2>8, <2>9, <2>10, <2>11, TakesUp
<1>3. CASE Q!Load(w, j)
  <2>1. /\ op[w] \in Hand /\ op[w].pc = "loading" /\ op[w].now = {j}
        /\ Handles(w, op[w]) /\ DataType
    BY <1>1, <1>3, InPlace DEF Q!Load
  <2>2. UNCHANGED <<job, queue, due, raced, runs, shaken>> /\ Beside(j)
    BY <1>3, <2>1 DEF Q!Load, Q!quiet, Beside, DataType
  <2>3. CASE job[j] = Q!Absent
    <3>1. Q!Leave(w) /\ ~ToRun(j)'
      BY <1>3, <2>2, <2>3 DEF Q!Load, ToRun, Q!Absent
    <3> QED BY <2>1, <2>2, <3>1, PollerLeaves DEF PollerSteps
  <2>4. CASE job[j] # Q!Absent
    <3> DEFINE c == [job[j] EXCEPT !.status = "active"]
               o == [op[w] EXCEPT !.pc = "activating", !.copy = c]
    <3>1. job[j] \in Q!Record
      BY <2>1, <2>4 DEF DataType
    <3>2. c \in Q!Record /\ c.status = "active"
      BY <3>1 DEF Q!Record, Q!Status
    <3>3. op' = [op EXCEPT ![w] = o]
      BY <1>3, <2>4 DEF Q!Load, Q!Keep
    <3> HIDE DEF c
    <3>4. /\ o \in Hand /\ o.pc = "activating" /\ o.now = {j} /\ o.todo = op[w].todo
          /\ o.copy = c
      BY <2>1, <3>2 DEF Hand, Q!Steps
    <3> HIDE DEF o
    <3>5. Copied(o)
      BY <3>2, <3>4 DEF Copied
    <3>6. o.pc \in PollerSteps \ {"idle", "running"} /\ op[w].pc \in PollerSteps \ {"idle", "running"}
      BY <2>1, <3>4 DEF PollerSteps
    <3> QED BY <2>1, <2>2, <3>3, <3>4, <3>5, <3>6, PollerGoes
  <2> QED BY <2>3, <2>4
<1>4. CASE Q!Activate(w, j)
  <2>1. /\ op[w] \in Hand /\ op[w].pc = "activating" /\ op[w].now = {j}
        /\ Handles(w, op[w]) /\ DataType
    BY <1>1, <1>4, InPlace DEF Q!Activate
  <2> DEFINE o == [op[w] EXCEPT !.pc = "listing"]
  <2>2. /\ op' = [op EXCEPT ![w] = o] /\ job' = [job EXCEPT ![j] = op[w].copy]
        /\ UNCHANGED <<queue, due, raced, runs, shaken>>
    BY <1>4 DEF Q!Activate, Q!Goto, Q!quiet
  <2>3. op[w].copy \in Q!Record \cup {Q!Absent} /\ op[w].copy.status = "active"
    BY <2>1 DEF Hand, Handles, Copied
  <2>4. job'[j] = op[w].copy /\ job'[j] # Q!Absent /\ Beside(j)
    BY <2>1, <2>2, <2>3 DEF DataType, Beside, Q!Absent
  <2>5. o \in Hand /\ o.pc = "listing" /\ o.now = {j} /\ o.todo = op[w].todo
    BY <2>1 DEF Hand, Q!Steps
  <2> HIDE DEF o
  <2>6. Copied(o) /\ o.pc \in PollerSteps \ {"idle", "running"}
        /\ op[w].pc \in PollerSteps \ {"idle", "running"}
    BY <2>1, <2>5 DEF Copied, PollerSteps
  <2> QED BY <2>1, <2>2, <2>4, <2>5, <2>6, PollerGoes
<1> QED BY <1>2, <1>3, <1>4

LEMMA RunStep ==
    ASSUME Q!QueueConstants, QueueInv, NEW w \in Poller, NEW j \in Job,
           Q!List(w, j) \/ \E outcome \in {"done_unlist", "fail_unlist"} : Q!HandlerEnds(w, j, outcome)
    PROVE  QueueInv'
<1>1. w \in Q!Process /\ w \notin Producer /\ w \notin Mover
  BY DEF Q!Process, Q!QueueConstants
<1>2. PICK x \in {"done_unlist", "fail_unlist", "running"} :
          /\ op' = [op EXCEPT ![w].pc = x] /\ UNCHANGED <<job, due, raced, shaken>>
          /\ IF x = "running"
             THEN Q!At(w, "listing", j) /\ Q!Add("active", j) /\ runs' = [runs EXCEPT ![j] = @ + 1]
             ELSE Q!At(w, "running", j) /\ queue' = queue /\ runs' = [runs EXCEPT ![j] = @ - 1]
  BY DEF Q!List, Q!HandlerEnds, Q!Goto, Q!quiet
<1>3. PICK y \in {"listing", "running"} : Q!At(w, y, j) /\ (y = "running" <=> x # "running")
  BY <1>2
<1>4. /\ op[w] \in Hand /\ op[w].pc = y /\ op[w].now = {j} /\ Handles(w, op[w])
      /\ Sound(j) /\ DataType
  BY <1>1, <1>3, InPlace
<1> DEFINE o == [op[w] EXCEPT !.pc = x]
<1>5. /\ o \in Hand /\ o.pc = x /\ o.now = {j} /\ o.todo = op[w].todo
      /\ op' = [op EXCEPT ![w] = o]
  BY <1>2, <1>4 DEF Hand, Q!Steps
<1> HIDE DEF o
<1>6. Handles(w, o)
  BY <1>1, <1>4, <1>5 DEF Handles, Copied, PollerSteps
<1>7. /\ queue' \in [Q!Names -> SUBSET Job]
      /\ \A m \in Q!Names \ {"active"} : queue'[m] = queue[m]
      /\ \A i \in Job \ {j}, m \in Q!Names : i \in queue'[m] <=> i \in queue[m]
  <2>1. CASE x = "running"
    <3>1. "active" \in Q!Names
      BY DEF Q!Names
    <3> QED BY <2>1, <1>2, <1>4, <3>1, AddsOnly
  <2>2. CASE x # "running"
    BY <2>2, <1>2, <1>4 DEF DataType
  <2> QED BY <2>1, <2>2
<1>8. /\ runs' \in [Job -> Int] /\ \A i \in Job \ {j} : runs'[i] = runs[i]
      /\ runs'[j] = IF x = "running" THEN runs[j] + 1 ELSE runs[j] - 1
  BY <1>2, <1>4 DEF DataType
<1>9. DataType'
  BY <1>2, <1>4, <1>7, <1>8 DEF DataType, Q!Names
<1>10. Alone(w, j, o)
  BY <1>2, <1>5, <1>7, <1>8 DEF Alone
<1>11. Hands' /\ op'[w] = o /\ \A q \in Q!Process \ {w} : op'[q] = op[q]
  BY <1>1, <1>5, <1>6, <1>9, AloneHands DEF QueueInv
<1>12. \A i \in Job \ {j} : Sound(i)'
  BY <1>1, <1>4, <1>5, <1>10, Elsewhere
<1>13. NotLost(j)'
  BY <1>1, <1>2, <1>5, <1>11 DEF NotLost, Carries
<1>14. ASSUME InOnePlace(j) PROVE InOnePlace(j)'
  <2>1. /\ \A q \in Q!Process : j \in op[q].now <=> q = w
        /\ \A q \in Q!Process : j \notin op[q].todo
        /\ j \notin queue["pending"] /\ j \notin queue["delayed"] /\ Taken(j)
    BY <1>1, <1>3, <1>4, <1>14 DEF InOnePlace, Q!InHand
  <2>2. /\ \A q \in Q!Process : (j \in op'[q].now <=> q = w) /\ j \notin op'[q].todo
        /\ j \notin queue'["pending"] /\ j \notin queue'["delayed"] /\ Taken(j)'
    BY <2>1, <1>2, <1>5, <1>7, <1>11 DEF Taken, Q!Names
  <2>3. runs'[j] = IF \E q \in Q!Process : Q!At(q, "running", j)' THEN 1 ELSE 0
    <3>1. \A q \in Q!Process : /\ Q!At(q, "running", j) <=> q = w /\ y = "running"
                               /\ Q!At(q, "running", j)' <=> q = w /\ x = "running"
      BY <2>1, <2>2, <1>4, <1>5, <1>11 DEF Q!At
    <3>2. runs[j] = IF y = "running" THEN 1 ELSE 0
      BY <3>1, <1>1, <1>14 DEF InOnePlace
    <3> QED BY <3>1, <3>2, <1>1, <1>3, <1>8
  <2> QED BY <2>2, <2>3, <1>5, <1>11 DEF InOnePlace, Q!Waiting
<1>15. Sound(j)'
  BY <1>2, <1>4, <1>13, <1>14 DEF Sound
<1> QED BY <1>11, <1>12, <1>15 DEF QueueInv

(* A poller goes on, its job left in the place it has.                     *)
LEMMA PollerNext ==
    ASSUME Q!QueueConstants, QueueInv, NEW w \in Poller, NEW j \in Job,
           NEW x \in PollerSteps \ {"idle", "running"}, Q!At(w, x, j),
           NEW y \in PollerSteps \ {"idle", "running", "activating", "done_write", "fail_write", "fail_add"},
           Q!Goto(w, y), Beside(j), job'[j] = job[j] \/ job'[j] # Q!Absent,
           \/ y \notin Last
           \/ ~ToRun(j)'
           \/ ~Carries(w, j) /\ job'[j] = job[j]
    PROVE  QueueInv'
<1>1. w \in Q!Process
  BY DEF Q!Process
<1>2. /\ op[w] \in Hand /\ op[w].pc = x /\ op[w].now = {j} /\ Handles(w, op[w])
  BY <1>1, InPlace
<1> DEFINE o == [op[w] EXCEPT !.pc = y]
<1>3. /\ o \in Hand /\ o.pc = y /\ o.now = {j} /\ o.todo = op[w].todo
      /\ op' = [op EXCEPT ![w] = o]
  BY <1>2 DEF Hand, Q!Steps, Q!Goto, PollerSteps
<1> HIDE DEF o
<1>4. Copied(o) /\ o.pc \in PollerSteps \ {"idle", "running"}
  BY <1>3 DEF Copied, PollerSteps
<1>5. \/ o.pc \notin Last /\ ~(o.pc = "fail_add" /\ o.copy.status = "failed")
      \/ ~ToRun(j)'
      \/ ~Carries(w, j) /\ job'[j] = job[j]
  BY <1>3, <1>4
<1> QED BY <1>2, <1>3, <1>4, <1>5, PollerGoes

(* markCompleted.                                                          *)
LEMMA DoneStep ==
    ASSUME Q!QueueConstants, QueueInv, NEW w \in Poller, NEW j \in Job,
           Q!DoneUnlist(w, j) \/ Q!DoneRead(w, j) \/ Q!Write(w, j, "done_write", "done_add")
           \/ Q!DoneAdd(w, j)
    PROVE  QueueInv'
<1>1. w \in Q!Process /\ w \notin Producer /\ w \notin Mover /\ DataType
  BY DEF Q!Process, Q!QueueConstants, QueueInv, Hands
<1>2. CASE Q!DoneUnlist(w, j)
  <2>1. Q!At(w, "done_unlist", j) /\ Q!Remove("active", j) /\ Q!Goto(w, "done_read")
        /\ UNCHANGED <<job, raced, runs, shaken>>
    BY <1>2 DEF Q!DoneUnlist, Q!quiet
  <2>2. /\ queue' \in [Q!Names -> SUBSET Job]
        /\ \A m \in Q!Names \ {"active"} : queue'[m] = queue[m]
        /\ \A i \in Job \ {j}, m \in Q!Names : i \in queue'[m] <=> i \in queue[m]
    BY <1>1, <2>1, RemovesOnly DEF Q!Names
  <2>3. Beside(j)
    BY <1>1, <2>1, <2>2 DEF Beside, DataType, Q!Names, Q!Remove
  <2> QED BY <2>1, <2>3, PollerNext DEF PollerSteps
<1>3. CASE Q!DoneRead(w, j)
  <2>1. Q!At(w, "done_read", j) /\ UNCHANGED <<queue, due, raced, runs, shaken>>
    BY <1>3 DEF Q!DoneRead, Q!quiet
  <2>2. /\ op[w] \in Hand /\ op[w].pc = "done_read" /\ op[w].now = {j}
        /\ Handles(w, op[w])
    BY <1>1, <2>1, InPlace
  <2>3. CASE Q!Leave(w)
    <3>1. job' = [job EXCEPT ![j] = Q!Absent] \/ (job[j] = Q!Absent /\ job' = job)
      BY <1>3, <2>2, <2>3, <1>1 DEF Q!DoneRead, Q!Leave, Q!Keep, QueueInv, Hands, Q!Idle, Hand
    <3>2. job'[j] = Q!Absent /\ Beside(j)
      BY <3>1, <2>1, <1>1 DEF Beside, DataType
    <3>3. ~ToRun(j)'
      BY <3>2 DEF ToRun, Q!Absent
    <3> QED BY <2>2, <2>3, <3>2, <3>3, PollerLeaves DEF PollerSteps
  <2>4. CASE job[j] # Q!Absent /\ UNCHANGED job /\ Q!Keep(w, "done_write", [job[j] EXCEPT !.status = "completed"])
    <3> DEFINE c == [job[j] EXCEPT !.status = "completed"]
               o == [op[w] EXCEPT !.pc = "done_write", !.copy = c]
    <3>1. job[j] \in Q!Record
      BY <1>1, <2>4 DEF DataType
    <3>2. c \in Q!Record /\ c.status = "completed"
      BY <3>1 DEF Q!Record, Q!Status
    <3>3. op' = [op EXCEPT ![w] = o]
      BY <2>4 DEF Q!Keep
    <3> HIDE DEF c
    <3>4. /\ o \in Hand /\ o.pc = "done_write" /\ o.now = {j} /\ o.todo = op[w].todo
          /\ o.copy = c
      BY <2>2, <3>2 DEF Hand, Q!Steps
    <3> HIDE DEF o
    <3>5. Copied(o)
      BY <3>2, <3>4 DEF Copied
    <3>6. o.pc \in PollerSteps \ {"idle", "running"} /\ op[w].pc \in PollerSteps \ {"idle", "running"}
      BY <2>2, <3>4 DEF PollerSteps
    <3>7. Beside(j) /\ job'[j] = job[j]
      BY <1>1, <2>1, <2>4 DEF Beside, DataType
    <3> QED BY <2>2, <3>3, <3>4, <3>5, <3>6, <3>7, PollerGoes
  <2> QED BY <1>3, <2>3, <2>4 DEF Q!DoneRead
<1>4. CASE Q!Write(w, j, "done_write", "done_add")
  <2>1. /\ Q!At(w, "done_write", j) /\ Q!Goto(w, "done_add")
        /\ job' = [job EXCEPT ![j] = op[w].copy]
        /\ UNCHANGED <<queue, due, raced, runs, shaken>>
    BY <1>4 DEF Q!Write, Q!quiet
  <2>2. /\ op[w] \in Hand /\ op[w].pc = "done_write" /\ Handles(w, op[w])
    BY <1>1, <2>1, InPlace
  <2>3. op[w].copy \in Q!Record \cup {Q!Absent} /\ op[w].copy.status = "completed"
    BY <2>2 DEF Hand, Handles, Copied
  <2>4. job'[j] = op[w].copy /\ job'[j] # Q!Absent /\ Beside(j) /\ ~ToRun(j)'
    BY <1>1, <2>1, <2>3 DEF DataType, Beside, Q!Absent, ToRun
  <2> QED BY <2>1, <2>4, PollerNext DEF PollerSteps
<1>5. CASE Q!DoneAdd(w, j)
  <2>1. Q!At(w, "done_add", j) /\ Q!Add("completed", j) /\ Q!Goto(w, "done_expire")
        /\ UNCHANGED <<job, due, raced, runs, shaken>>
    BY <1>5 DEF Q!DoneAdd, Q!quiet
  <2>2. /\ op[w] \in Hand /\ op[w].pc = "done_add" /\ op[w].now = {j}
    BY <1>1, <2>1, InPlace
  <2>3. /\ queue' \in [Q!Names -> SUBSET Job] /\ j \in queue'["completed"]
        /\ \A m \in Q!Names \ {"completed"} : queue'[m] = queue[m]
        /\ \A i \in Job \ {j}, m \in Q!Names : i \in queue'[m] <=> i \in queue[m]
    BY <1>1, <2>1, AddsOnly DEF Q!Names
  <2>4. queue["completed"] \subseteq queue'["completed"]
    BY <1>1, <2>3 DEF DataType, Q!Names
  <2>5. Beside(j)
    BY <1>1, <2>1, <2>3, <2>4 DEF Beside, DataType, Q!Names
  <2>6. ~Carries(w, j) /\ job'[j] = job[j]
    BY <2>1, <2>2 DEF Carries
  <2> QED BY <2>1, <2>5, <2>6, PollerNext DEF PollerSteps
<1> QED BY <1>2, <1>3, <1>4, <1>5

LEMMA RetriedType ==
    ASSUME Q!QueueConstants, NEW c \in Q!Record
    PROVE  Q!Retried(c) \in Q!Record /\ Q!Retried(c).status \in {"delayed", "failed"}
BY DEF Q!QueueConstants, Q!Record, Q!Retried, Q!Status

(* markFailed.                                                             *)
LEMMA FailStep ==
    ASSUME Q!QueueConstants, QueueInv, NEW w \in Poller, NEW j \in Job,
           Q!FailUnlist(w, j) \/ Q!FailRead(w, j) \/ Q!Write(w, j, "fail_write", "fail_add")
           \/ Q!FailAdd(w, j) \/ Q!FailDlq(w, j)
    PROVE  QueueInv'
<1>1. w \in Q!Process /\ w \notin Producer /\ w \notin Mover /\ DataType
  BY DEF Q!Process, Q!QueueConstants, QueueInv, Hands
<1>2. CASE Q!FailUnlist(w, j)
  <2>1. Q!At(w, "fail_unlist", j) /\ Q!Remove("active", j) /\ Q!Goto(w, "fail_read")
        /\ UNCHANGED <<job, raced, runs, shaken>>
    BY <1>2 DEF Q!FailUnlist, Q!quiet
  <2>2. /\ queue' \in [Q!Names -> SUBSET Job]
        /\ \A m \in Q!Names \ {"active"} : queue'[m] = queue[m]
        /\ \A i \in Job \ {j}, m \in Q!Names : i \in queue'[m] <=> i \in queue[m]
    BY <1>1, <2>1, RemovesOnly DEF Q!Names
  <2>3. Beside(j)
    BY <1>1, <2>1, <2>2 DEF Beside, DataType, Q!Names, Q!Remove
  <2> QED BY <2>1, <2>3, PollerNext DEF PollerSteps
<1>3. CASE Q!FailRead(w, j)
  <2>1. Q!At(w, "fail_read", j) /\ UNCHANGED <<job, queue, due, raced, runs, shaken>>
    BY <1>3 DEF Q!FailRead, Q!quiet
  <2>2. /\ op[w] \in Hand /\ op[w].pc = "fail_read" /\ op[w].now = {j}
        /\ Handles(w, op[w])
    BY <1>1, <2>1, InPlace
  <2>3. Beside(j) /\ job'[j] = job[j]
    BY <1>1, <2>1 DEF Beside, DataType
  <2>4. CASE job[j] = Q!Absent
    <3>1. Q!Leave(w) /\ ~ToRun(j)'
      BY <1>3, <2>3, <2>4 DEF Q!FailRead, ToRun, Q!Absent
    <3> QED BY <2>2, <2>3, <3>1, PollerLeaves DEF PollerSteps
  <2>5. CASE job[j] # Q!Absent
    <3> DEFINE c == Q!Retried(job[j])
               o == [op[w] EXCEPT !.pc = "fail_write", !.copy = c]
    <3>1. c \in Q!Record /\ c.status \in {"delayed", "failed"}
      BY <1>1, <2>5, RetriedType DEF DataType
    <3>2. op' = [op EXCEPT ![w] = o]
      BY <1>3, <2>5 DEF Q!FailRead, Q!Keep
    <3> HIDE DEF c
    <3>4. /\ o \in Hand /\ o.pc = "fail_write" /\ o.now = {j} /\ o.todo = op[w].todo
          /\ o.copy = c
      BY <2>2, <3>1 DEF Hand, Q!Steps
    <3> HIDE DEF o
    <3>5. Copied(o)
      BY <3>1, <3>4 DEF Copied
    <3>6. o.pc \in PollerSteps \ {"idle", "running"} /\ op[w].pc \in PollerSteps \ {"idle", "running"}
      BY <2>2, <3>4 DEF PollerSteps
    <3> QED BY <2>2, <2>3, <3>2, <3>4, <3>5, <3>6, PollerGoes
  <2> QED BY <2>4, <2>5
<1>4. CASE Q!Write(w, j, "fail_write", "fail_add")
  <2>1. /\ Q!At(w, "fail_write", j) /\ Q!Goto(w, "fail_add")
        /\ job' = [job EXCEPT ![j] = op[w].copy]
        /\ UNCHANGED <<queue, due, raced, runs, shaken>>
    BY <1>4 DEF Q!Write, Q!quiet
  <2>2. /\ op[w] \in Hand /\ op[w].pc = "fail_write" /\ op[w].now = {j} /\ Handles(w, op[w])
    BY <1>1, <2>1, InPlace
  <2>3. op[w].copy \in Q!Record \cup {Q!Absent} /\ op[w].copy.status \in {"delayed", "failed"}
    BY <2>2 DEF Hand, Handles, Copied
  <2>4. job'[j] = op[w].copy /\ job'[j] # Q!Absent /\ Beside(j)
    BY <1>1, <2>1, <2>3 DEF DataType, Beside, Q!Absent
  <2>5. op[w].copy.status = "failed" => ~ToRun(j)'
    BY <2>4 DEF ToRun
  <2> DEFINE o == [op[w] EXCEPT !.pc = "fail_add"]
  <2>6. /\ o \in Hand /\ o.pc = "fail_add" /\ o.now = {j} /\ o.todo = op[w].todo
        /\ o.copy = op[w].copy /\ op' = [op EXCEPT ![w] = o]
    BY <2>1, <2>2 DEF Hand, Q!Steps, Q!Goto
  <2> HIDE DEF o
  <2>7. Copied(o) /\ o.pc \in PollerSteps \ {"idle", "running"}
        /\ op[w].pc \in PollerSteps \ {"idle", "running"}
    BY <2>2, <2>3, <2>6 DEF Copied, PollerSteps
  <2>8. \/ o.pc \notin Last /\ ~(o.pc = "fail_add" /\ o.copy.status = "failed")
        \/ ~ToRun(j)'
    BY <2>5, <2>6
  <2> QED BY <2>2, <2>4, <2>6, <2>7, <2>8, PollerGoes
<1>5. CASE Q!FailAdd(w, j)
  <2> DEFINE n == op[w].copy.status
  <2>1. /\ Q!At(w, "fail_add", j) /\ Q!Add(n, j) /\ due' = due \ {j}
        /\ IF n = "failed" THEN Q!Goto(w, "fail_dlq") ELSE Q!Leave(w)
        /\ UNCHANGED <<job, raced, runs, shaken>>
    BY <1>5 DEF Q!FailAdd, Q!quiet
  <2>2. /\ op[w] \in Hand /\ op[w].pc = "fail_add" /\ op[w].now = {j} /\ Handles(w, op[w])
    BY <1>1, <2>1, InPlace
  <2>3. n \in {"delayed", "failed"} /\ n \in Q!Names
    BY <2>2 DEF Handles, Copied, Q!Names
  <2> HIDE DEF n
  <2>4. /\ queue' \in [Q!Names -> SUBSET Job] /\ j \in queue'[n]
        /\ \A m \in Q!Names \ {n} : queue'[m] = queue[m]
        /\ queue'["delayed"] = queue["delayed"] \/ queue'["delayed"] = queue["delayed"] \cup {j}
        /\ \A i \in Job \ {j}, m \in Q!Names : i \in queue'[m] <=> i \in queue[m]
    BY <1>1, <2>1, <2>3, AddsOnly
  <2>5. CASE n = "failed"
    <3>1. queue["failed"] \subseteq queue'["failed"]
      BY <1>1, <2>4, <2>5 DEF DataType, Q!Names
    <3>2. Beside(j)
      BY <1>1, <2>1, <2>4, <2>5, <3>1 DEF Beside, DataType, Q!Names
    <3>3. ~Carries(w, j) /\ job'[j] = job[j]
      BY <2>1, <2>2, <2>5 DEF Carries, n
    <3> QED BY <2>1, <2>5, <3>2, <3>3, PollerNext DEF PollerSteps
  <2>6. CASE n = "delayed"
    <3>1. /\ Q!Idle \in Hand /\ Q!Idle.now = {} /\ Q!Idle.todo = op[w].todo
          /\ Handles(w, Q!Idle) /\ op' = [op EXCEPT ![w] = Q!Idle]
      BY <1>1, <2>1, <2>2, <2>6 DEF Q!Idle, Hand, Q!Steps, Handles, Copied, PollerSteps, Q!Leave
    <3>2. DataType'
      BY <1>1, <2>1, <2>4 DEF DataType
    <3>3. Alone(w, j, Q!Idle) /\ runs'[j] = runs[j] /\ job'[j] = job[j]
      BY <2>1, <2>4, <3>1 DEF Alone
    <3>4. /\ \A m \in {"completed", "failed"} : queue'[m] = queue[m]
          /\ j \in queue'["delayed"] /\ queue'["pending"] = queue["pending"]
      BY <2>4, <2>6 DEF Q!Names
    <3> QED BY <1>1, <2>2, <3>1, <3>2, <3>3, <3>4, PutsDown
  <2> QED BY <2>3, <2>5, <2>6
<1>6. CASE Q!FailDlq(w, j)
  <2>1. Q!At(w, "fail_dlq", j) /\ Q!Add("dlq", j) /\ Q!Goto(w, "fail_expire")
        /\ UNCHANGED <<job, due, raced, runs, shaken>>
    BY <1>6 DEF Q!FailDlq, Q!quiet
  <2>2. /\ op[w] \in Hand /\ op[w].pc = "fail_dlq" /\ op[w].now = {j}
    BY <1>1, <2>1, InPlace
  <2>3. /\ queue' \in [Q!Names -> SUBSET Job]
        /\ \A m \in Q!Names \ {"dlq"} : queue'[m] = queue[m]
        /\ \A i \in Job \ {j}, m \in Q!Names : i \in queue'[m] <=> i \in queue[m]
    BY <1>1, <2>1, AddsOnly DEF Q!Names
  <2>4. Beside(j)
    BY <1>1, <2>1, <2>3 DEF Beside, DataType, Q!Names
  <2>5. ~Carries(w, j) /\ job'[j] = job[j]
    BY <2>1, <2>2 DEF Carries
  <2> QED BY <2>1, <2>4, <2>5, PollerNext DEF PollerSteps
<1> QED BY <1>2, <1>3, <1>4, <1>5, <1>6

(* The last call of either.                                                *)
LEMMA ExpiryStep ==
    ASSUME Q!QueueConstants, QueueInv, NEW w \in Poller, NEW j \in Job,
           NEW x \in {"done_expire", "fail_expire"}, Q!SetExpiry(w, j, x)
    PROVE  QueueInv'
<1>1. w \in Q!Process /\ DataType
  BY DEF Q!Process, QueueInv, Hands
<1>2. Q!At(w, x, j) /\ Q!Leave(w) /\ UNCHANGED <<job, queue, due, raced, runs, shaken>>
  BY DEF Q!SetExpiry, Q!quiet
<1>3. op[w] \in Hand /\ op[w].pc = x /\ op[w].now = {j}
  BY <1>1, <1>2, InPlace
<1>4. Beside(j)
  BY <1>1, <1>2 DEF Beside, DataType
<1>5. ~Carries(w, j) /\ job'[j] = job[j]
  BY <1>2, <1>3 DEF Carries
<1> QED BY <1>2, <1>3, <1>4, <1>5, PollerLeaves DEF PollerSteps

(* moveDelayedJobs, one job after another.                                 *)
LEMMA RestType ==
    ASSUME Q!QueueConstants, NEW m \in Mover, NEW todo \in SUBSET Job
    PROVE  /\ Q!Rest(m, todo) \in Hand /\ Q!Rest(m, todo).now = {} /\ Q!Rest(m, todo).todo = todo
           /\ Handles(m, Q!Rest(m, todo))
<1>1. m \notin Producer /\ m \notin Poller
  BY DEF Q!QueueConstants
<1>2. Q!Idle \in Hand /\ Q!Idle.now = {} /\ Q!Idle.copy = Q!Absent
  BY DEF Q!Idle, Hand, Q!Steps
<1> DEFINE x == IF todo = {} THEN "idle" ELSE "moving"
<1>3. x \in {"idle", "moving"} /\ (x = "idle" => todo = {})
  OBVIOUS
<1>4. Q!Rest(m, todo) = [Q!Idle EXCEPT !.pc = x, !.todo = todo]
  BY DEF Q!Rest
<1> HIDE DEF x
<1>5. /\ Q!Rest(m, todo) \in Hand /\ Q!Rest(m, todo).now = {} /\ Q!Rest(m, todo).todo = todo
      /\ Q!Rest(m, todo).pc = x
  BY <1>2, <1>3, <1>4 DEF Hand, Q!Steps
<1> QED BY <1>1, <1>3, <1>5 DEF Handles, Copied, MoverSteps

LEMMA MoveReadStep ==
    ASSUME Q!QueueConstants, QueueInv, NEW m \in Mover, NEW j \in Job, Q!MoveRead(m, j)
    PROVE  QueueInv'
<1>1. m \in Q!Process /\ m \notin Producer /\ m \notin Poller
  BY DEF Q!Process, Q!QueueConstants
<1>2. /\ op[m] \in Hand /\ Handles(m, op[m]) /\ DataType /\ Sound(j)
      /\ op[m].pc = "moving" /\ j \in op[m].todo /\ op[m].now = {}
  BY <1>1 DEF QueueInv, Hands, Q!MoveRead, Handles
<1>3. UNCHANGED <<job, raced, runs, shaken>> /\ op[m].todo \ {j} \in SUBSET Job
  BY <1>2 DEF Q!MoveRead, Q!quiet, Hand
<1>4. CASE job[j] = Q!Absent
  <2> DEFINE o == Q!Rest(m, op[m].todo \ {j})
  <2>1. Q!Remove("delayed", j) /\ op' = [op EXCEPT ![m] = o]
    BY <1>4 DEF Q!MoveRead
  <2>2. o \in Hand /\ o.now = {} /\ o.todo = op[m].todo \ {j} /\ Handles(m, o)
    BY <1>3, RestType
  <2> HIDE DEF o
  <2>3. /\ queue' \in [Q!Names -> SUBSET Job] /\ due' \subseteq queue'["delayed"]
        /\ j \notin queue'["delayed"] /\ \A n \in Q!Names \ {"delayed"} : queue'[n] = queue[n]
        /\ \A i \in Job \ {j}, n \in Q!Names : i \in queue'[n] <=> i \in queue[n]
    BY <1>2, <2>1, RemovesOnly DEF Q!Names
  <2>4. DataType' /\ Alone(m, j, o) /\ runs'[j] = runs[j]
    BY <1>2, <1>3, <2>1, <2>3 DEF DataType, Alone
  <2>5. Hands' /\ op'[m] = o /\ \A q \in Q!Process \ {m} : op'[q] = op[q]
    BY <1>1, <2>1, <2>2, <2>4, AloneHands DEF QueueInv
  <2>6. \A i \in Job \ {j} : Sound(i)'
    BY <1>1, <1>2, <2>2, <2>4, Elsewhere
  <2>7. NotLost(j)'
    BY <1>3, <1>4 DEF NotLost, ToRun, Q!Absent
  <2>8. ASSUME InOnePlace(j) PROVE InOnePlace(j)'
    <3>1. /\ j \in queue["delayed"] /\ ~Q!InHand(j) /\ j \notin queue["pending"] /\ Taken(j)
          /\ \A q \in Q!Process \ {m} : j \notin op[q].todo
      BY <1>1, <1>2, <2>8 DEF InOnePlace, Q!Waiting
    <3>2. /\ j \notin queue'["delayed"] /\ j \notin queue'["pending"] /\ Taken(j)'
          /\ \A q \in Q!Process : j \notin op'[q].now /\ j \notin op'[q].todo
      BY <3>1, <1>3, <2>2, <2>3, <2>5 DEF Taken, Q!InHand, Q!Names
    <3>3. \A q \in Q!Process : ~Q!At(q, "running", j) /\ ~Q!At(q, "running", j)'
      BY <3>1, <3>2 DEF Q!At, Q!InHand
    <3>4. runs'[j] = IF \E q \in Q!Process : Q!At(q, "running", j)' THEN 1 ELSE 0
      BY <3>3, <2>4, <2>8 DEF InOnePlace
    <3> QED BY <3>2, <3>4 DEF InOnePlace, Q!Waiting
  <2>9. Sound(j)'
    BY <1>2, <1>3, <2>7, <2>8 DEF Sound
  <2> QED BY <2>5, <2>6, <2>9 DEF QueueInv
<1>5. CASE job[j] # Q!Absent
  <2> DEFINE c == [job[j] EXCEPT !.status = "pending"]
             o == [pc |-> "move_write", now |-> {j}, todo |-> op[m].todo \ {j}, copy |-> c]
  <2>1. op' = [op EXCEPT ![m] = o] /\ UNCHANGED <<queue, due>>
    BY <1>5 DEF Q!MoveRead
  <2>2. job[j] \in Q!Record
    BY <1>2, <1>5 DEF DataType
  <2>3. c \in Q!Record /\ c.status = "pending"
    BY <2>2 DEF Q!Record, Q!Status
  <2> HIDE DEF c
  <2>4. /\ o \in Hand /\ o.pc = "move_write" /\ o.now = {j} /\ o.todo = op[m].todo \ {j}
        /\ o.copy = c
    BY <1>3, <2>3 DEF Hand, Q!Steps
  <2> HIDE DEF o
  <2>5. Handles(m, o)
    BY <1>1, <2>3, <2>4 DEF Handles, Copied, MoverSteps
  <2>6. DataType' /\ Alone(m, j, o) /\ runs'[j] = runs[j] /\ (Taken(j)' <=> Taken(j))
    BY <1>2, <1>3, <2>1 DEF DataType, Alone, Taken
  <2>7. InOnePlace(j) =>
              /\ ~Q!InHand(j) /\ \A q \in Q!Process \ {m} : j \notin op[q].todo
              /\ j \notin queue'["pending"] /\ j \in queue'["delayed"] /\ Taken(j)
    BY <1>1, <1>2, <2>1 DEF InOnePlace, Q!Waiting
  <2> QED BY <1>1, <1>2, <2>4, <2>5, <2>6, <2>7, TakesUp
<1> QED BY <1>4, <1>5

LEMMA MoveStep ==
    ASSUME Q!QueueConstants, QueueInv, NEW m \in Mover, NEW j \in Job,
           Q!Write(m, j, "move_write", "move_remove") \/ Q!MoveRemove(m, j) \/ Q!MoveAdd(m, j)
    PROVE  QueueInv'
<1>1. m \in Q!Process /\ m \notin Producer /\ m \notin Poller /\ DataType
  BY DEF Q!Process, Q!QueueConstants, QueueInv, Hands
<1>2. CASE Q!Write(m, j, "move_write", "move_remove")
  <2>1. /\ Q!At(m, "move_write", j) /\ Q!Goto(m, "move_remove")
        /\ job' = [job EXCEPT ![j] = op[m].copy]
        /\ UNCHANGED <<queue, due, raced, runs, shaken>>
    BY <1>2 DEF Q!Write, Q!quiet
  <2>2. /\ op[m] \in Hand /\ op[m].pc = "move_write" /\ op[m].now = {j} /\ Handles(m, op[m])
    BY <1>1, <2>1, InPlace
  <2>3. op[m].copy \in Q!Record \cup {Q!Absent} /\ op[m].copy.status = "pending"
    BY <2>2 DEF Hand, Handles, Copied
  <2> DEFINE o == [op[m] EXCEPT !.pc = "move_remove"]
  <2>4. /\ o \in Hand /\ o.pc = "move_remove" /\ o.now = {j} /\ o.todo = op[m].todo
        /\ op' = [op EXCEPT ![m] = o]
    BY <2>1, <2>2 DEF Hand, Q!Steps, Q!Goto
  <2> HIDE DEF o
  <2>5. Handles(m, o)
    BY <1>1, <2>2, <2>4 DEF Handles, Copied, MoverSteps
  <2>6. DataType' /\ Alone(m, j, o) /\ runs'[j] = runs[j] /\ job'[j] = op[m].copy
    BY <1>1, <2>1, <2>3, <2>4 DEF DataType, Alone
  <2>7. Taken(j)'
    BY <2>3, <2>6 DEF Taken, Q!Absent
  <2> QED BY <1>1, <2>1, <2>2, <2>4, <2>5, <2>6, <2>7, GoesOn
<1>3. CASE Q!MoveRemove(m, j)
  <2>1. /\ Q!At(m, "move_remove", j) /\ Q!Remove("delayed", j) /\ Q!Goto(m, "move_add")
        /\ UNCHANGED <<job, raced, runs, shaken>>
    BY <1>3 DEF Q!MoveRemove, Q!quiet
  <2>2. /\ op[m] \in Hand /\ op[m].pc = "move_remove" /\ op[m].now = {j} /\ Handles(m, op[m])
        /\ Sound(j)
    BY <1>1, <2>1, InPlace
  <2> DEFINE o == [op[m] EXCEPT !.pc = "move_add"]
  <2>3. /\ o \in Hand /\ o.pc = "move_add" /\ o.now = {j} /\ o.todo = op[m].todo
        /\ op' = [op EXCEPT ![m] = o]
    BY <2>1, <2>2 DEF Hand, Q!Steps, Q!Goto
  <2> HIDE DEF o
  <2>4. Handles(m, o)
    BY <1>1, <2>2, <2>3 DEF Handles, Copied, MoverSteps
  <2>5. /\ queue' \in [Q!Names -> SUBSET Job] /\ due' \subseteq queue'["delayed"]
        /\ j \notin queue'["delayed"] /\ \A n \in Q!Names \ {"delayed"} : queue'[n] = queue[n]
        /\ \A i \in Job \ {j}, n \in Q!Names : i \in queue'[n] <=> i \in queue[n]
    BY <1>1, <2>1, RemovesOnly DEF Q!Names
  <2>6. DataType' /\ Alone(m, j, o) /\ runs'[j] = runs[j]
    BY <1>1, <2>1, <2>3, <2>5 DEF DataType, Alone
  <2>7. Hands' /\ op'[m] = o /\ \A q \in Q!Process \ {m} : op'[q] = op[q]
    BY <1>1, <2>3, <2>4, <2>6, AloneHands DEF QueueInv
  <2>8. \A i \in Job \ {j} : Sound(i)'
    BY <1>1, <2>2, <2>3, <2>6, Elsewhere
  <2>9. NotLost(j)'
    BY <1>1, <2>3, <2>7 DEF NotLost, Carries
  <2>10. ASSUME InOnePlace(j) PROVE InOnePlace(j)'
    <3>1. /\ \A q \in Q!Process : j \in op[q].now <=> q = m
          /\ \A q \in Q!Process : j \notin op[q].todo
          /\ j \notin queue["pending"] /\ Taken(j)
      BY <1>1, <2>2, <2>10 DEF InOnePlace, Q!InHand
    <3>2. /\ \A q \in Q!Process : (j \in op'[q].now <=> q = m) /\ j \notin op'[q].todo
          /\ j \notin queue'["pending"] /\ j \notin queue'["delayed"] /\ Taken(j)'
      BY <3>1, <2>1, <2>3, <2>5, <2>7 DEF Taken, Q!Names
    <3>3. \A q \in Q!Process : ~Q!At(q, "running", j) /\ ~Q!At(q, "running", j)'
      BY <3>1, <3>2, <2>2, <2>3, <2>7 DEF Q!At
    <3>4. runs'[j] = IF \E q \in Q!Process : Q!At(q, "running", j)' THEN 1 ELSE 0
      BY <3>3, <2>6, <2>10 DEF InOnePlace
    <3> QED BY <3>2, <3>4, <2>3, <2>7 DEF InOnePlace, Q!Waiting
  <2>11. Sound(j)'
    BY <2>1, <2>2, <2>9, <2>10 DEF Sound
  <2> QED BY <2>7, <2>8, <2>11 DEF QueueInv
<1>4. CASE Q!MoveAdd(m, j)
  <2>1. /\ Q!At(m, "move_add", j) /\ Q!Add("pending", j)
        /\ op' = [op EXCEPT ![m] = Q!Rest(m, op[m].todo)]
        /\ UNCHANGED <<job, due, raced, runs, shaken>>
    BY <1>4 DEF Q!MoveAdd, Q!quiet
  <2>2. /\ op[m] \in Hand /\ op[m].pc = "move_add" /\ op[m].now = {j} /\ Handles(m, op[m])
    BY <1>1, <2>1, InPlace
  <2> DEFINE o == Q!Rest(m, op[m].todo)
  <2>3. o \in Hand /\ o.now = {} /\ o.todo = op[m].todo /\ Handles(m, o)
    BY <2>2, RestType DEF Hand
  <2>4. op' = [op EXCEPT ![m] = o]
    BY <2>1
  <2> HIDE DEF o
  <2>5. /\ queue' \in [Q!Names -> SUBSET Job] /\ j \in queue'["pending"]
        /\ \A n \in Q!Names \ {"pending"} : queue'[n] = queue[n]
        /\ queue'["delayed"] = queue["delayed"]
        /\ \A i \in Job \ {j}, n \in Q!Names : i \in queue'[n] <=> i \in queue[n]
    BY <1>1, <2>1, AddsOnly DEF Q!Names
  <2>6. DataType' /\ Alone(m, j, o) /\ runs'[j] = runs[j] /\ job'[j] = job[j]
    BY <1>1, <2>1, <2>4, <2>5 DEF DataType, Alone
  <2>7. \A n \in {"completed", "failed"} : queue'[n] = queue[n]
    BY <2>5 DEF Q!Names
  <2> QED BY <1>1, <2>2, <2>3, <2>5, <2>6, <2>7, PutsDown
<1> QED BY <1>2, <1>3, <1>4

(* A mover lists what is due: a job another mover has listed or in hand is *)
(* raced for.                                                              *)
LEMMA ScanStep ==
    ASSUME Q!QueueConstants, QueueInv, NEW m \in Mover, Q!Scan(m)
    PROVE  QueueInv'
<1>1. m \in Q!Process /\ m \notin Producer /\ m \notin Poller
  BY DEF Q!Process, Q!QueueConstants
<1> DEFINE o == [Q!Idle EXCEPT !.pc = "moving", !.todo = due]
<1>2. /\ op' = [op EXCEPT ![m] = o] /\ UNCHANGED <<job, queue, due, runs, shaken>>
      /\ raced' = raced \cup (due \cap Q!Others(m, Mover)) /\ op[m].pc = "idle"
  BY DEF Q!Scan, Q!quiet
<1>3. /\ Handles(m, op[m]) /\ DataType /\ op[m].now = {} /\ op[m].todo = {}
  BY <1>1, <1>2 DEF QueueInv, Hands, Handles
<1>4. due \in SUBSET Job /\ due \subseteq queue["delayed"]
  BY <1>3 DEF DataType, Q!Names
<1>5. Q!Idle \in Hand /\ Q!Idle.now = {}
  BY DEF Q!Idle, Hand, Q!Steps
<1>6. o \in Hand /\ o.pc = "moving" /\ o.now = {} /\ o.todo = due
  BY <1>4, <1>5 DEF Hand, Q!Steps
<1> HIDE DEF o
<1>7. Handles(m, o)
  BY <1>1, <1>6 DEF Handles, Copied, MoverSteps
<1>8. Hands' /\ op'[m] = o /\ \A q \in Q!Process \ {m} : op'[q] = op[q]
  <2>1. DataType'
    BY <1>2, <1>3 DEF DataType
  <2> QED BY <1>1, <1>2, <1>6, <1>7, <2>1, AloneHands DEF QueueInv
<1>9. ASSUME NEW i \in Job PROVE Sound(i)'
  <2>1. Sound(i)
    BY DEF QueueInv
  <2>2. \A q \in Q!Process : /\ i \in op'[q].now <=> i \in op[q].now
                             /\ i \in op[q].now => op'[q] = op[q]
    BY <1>3, <1>6, <1>8
  <2>3. \A q \in Q!Process : Carries(q, i)' <=> Carries(q, i)
    BY <2>2 DEF Carries
  <2>4. NotLost(i)'
    BY <2>1, <2>3, <1>2 DEF Sound, NotLost, ToRun, Q!Waiting
  <2>5. ASSUME InOnePlace(i), i \notin raced' PROVE InOnePlace(i)'
    <3>1. Q!InHand(i)' <=> Q!InHand(i)
      BY <2>2 DEF Q!InHand
    <3>2. \A q \in Q!Process : Q!At(q, "running", i)' <=> Q!At(q, "running", i)
      BY <2>2, <1>3, <1>6, <1>8 DEF Q!At
    <3>3. runs'[i] = IF \E q \in Q!Process : Q!At(q, "running", i)' THEN 1 ELSE 0
      BY <3>2, <2>5, <1>2 DEF InOnePlace
    <3>4. i \in due => i \in queue["delayed"] /\ \A q \in Mover \ {m} : i \notin op[q].now /\ i \notin op[q].todo
      BY <1>2, <1>4, <2>5 DEF Q!Others
    <3>5. i \in due => ~Q!InHand(i)
      <4>1. ASSUME NEW q \in Q!Process, i \in due, i \in op[q].now PROVE FALSE
        <5>1. op[q].pc \in {"move_write", "move_remove"}
          BY <4>1, <3>4, <2>5 DEF InOnePlace
        <5>2. q \in Mover
          BY <5>1 DEF QueueInv, Hands, Handles, PollerSteps, Q!Process
        <5>3. q # m
          BY <4>1, <1>3
        <5> QED BY <4>1, <5>2, <5>3, <3>4
      <4> QED BY <4>1 DEF Q!InHand
    <3>6. i \in due => \A q \in Q!Process \ {m} : i \notin op[q].todo
      BY <3>4 DEF QueueInv, Hands, Handles, Q!Process
    <3>7. \A q \in Q!Process : i \in op'[q].todo <=> IF q = m THEN i \in due ELSE i \in op[q].todo
      BY <1>6, <1>8
    <3>8. \A p, q \in Q!Process : i \in op'[p].todo /\ i \in op'[q].todo => p = q
      BY <3>6, <3>7, <2>5 DEF InOnePlace
    <3>9. \A q \in Q!Process : i \in op'[q].todo => i \in queue'["delayed"] /\ ~Q!InHand(i)'
      BY <3>1, <3>4, <3>5, <3>7, <2>5, <1>2 DEF InOnePlace
    <3>10. Taken(i)' <=> Taken(i)
      BY <1>2 DEF Taken
    <3>11. Q!Waiting(i)' <=> Q!Waiting(i)
      BY <1>2 DEF Q!Waiting
    <3> QED BY <3>1, <3>3, <3>8, <3>9, <3>10, <3>11, <2>2, <2>5, <1>2 DEF InOnePlace
  <2> QED BY <2>1, <2>4, <2>5, <1>2 DEF Sound
<1> QED BY <1>8, <1>9 DEF QueueInv

(* Time, Redis errors, and operations cut off.                             *)
LEMMA FaultStep ==
    ASSUME Q!QueueConstants, QueueInv, NEW w \in Poller, Q!RedisError(w)
    PROVE  QueueInv'
<1>1. w \in Q!Process /\ w \notin Producer /\ w \notin Mover
  BY DEF Q!Process, Q!QueueConstants
<1>2. /\ op[w].pc \in {"loading", "activating", "listing", "done_unlist", "done_read",
                       "done_write", "done_add", "done_expire"}
      /\ Q!Goto(w, "fail_unlist") /\ UNCHANGED <<job, queue, due, raced, runs>>
      /\ shaken \subseteq shaken'
  BY DEF Q!RedisError, Q!Before, Q!After
<1>3. op[w] \in Hand /\ Handles(w, op[w]) /\ DataType
  BY <1>1 DEF QueueInv, Hands
<1>4. PICK j \in Job : op[w].now = {j}
  BY <1>2, <1>3 DEF Handles
<1>5. Q!At(w, op[w].pc, j) /\ Beside(j)
  BY <1>2, <1>3, <1>4 DEF Q!At, Beside, DataType
<1>6. job'[j] = job[j] /\ op[w].pc \in PollerSteps \ {"idle", "running"}
  BY <1>2 DEF PollerSteps
<1>7. "fail_unlist" \in PollerSteps \ {"idle", "running", "activating", "done_write", "fail_write", "fail_add"}
      /\ "fail_unlist" \notin Last
  BY DEF PollerSteps
<1> QED BY <1>2, <1>5, <1>6, <1>7, PollerNext

LEMMA CutOffStep ==
    ASSUME Q!QueueConstants, QueueInv, NEW p \in Q!Process, Q!CutOff(p)
    PROVE  QueueInv'
<1>1. /\ op' = [op EXCEPT ![p] = Q!Idle] /\ shaken' = shaken \cup op[p].now /\ runs' = Q!Unrun(p)
      /\ UNCHANGED <<job, queue, due, raced>>
  BY DEF Q!CutOff, Q!Leave
<1>2. DataType /\ op[p] \in Hand
  BY DEF QueueInv, Hands
<1>3. /\ runs' \in [Job -> Int] /\ \A i \in Job : i \notin op[p].now => runs'[i] = runs[i]
  BY <1>1, <1>2 DEF Q!Unrun, DataType
<1>4. DataType'
  BY <1>1, <1>2, <1>3 DEF DataType
<1>5. Q!Idle \in Hand /\ Q!Idle.now = {} /\ Q!Idle.todo = {} /\ Handles(p, Q!Idle)
  BY DEF Q!Idle, Hand, Q!Steps, Handles, Copied, PollerSteps, MoverSteps
<1>6. Hands' /\ op'[p] = Q!Idle /\ \A q \in Q!Process \ {p} : op'[q] = op[q]
  BY <1>1, <1>4, <1>5, AloneHands DEF QueueInv
<1>7. ASSUME NEW i \in Job PROVE Sound(i)'
  <2>0. Sound(i)
    BY DEF QueueInv
  <2>1. CASE i \in op[p].now
    BY <2>1, <1>1 DEF Sound, NotLost
  <2>2. CASE i \notin op[p].now
    <3>1. \A q \in Q!Process : Carries(q, i) => Carries(q, i)'
      BY <2>2, <1>6 DEF Carries
    <3>2. NotLost(i)'
      BY <2>0, <3>1, <1>1 DEF Sound, NotLost, ToRun, Q!Waiting
    <3>3. Taken(i) => Taken(i)'
      BY <1>1 DEF Taken
    <3>4. Stays(i)
      BY <2>2, <3>3, <1>1, <1>3, <1>5, <1>6 DEF Stays
    <3> QED BY <2>0, <3>2, <3>4, <1>1, StaysInPlace DEF Sound
  <2> QED BY <2>1, <2>2
<1> QED BY <1>6, <1>7 DEF QueueInv

LEMMA TimeStep ==
    ASSUME QueueInv, NEW j \in Job, Q!FallDue(j) \/ Q!Expire(j)
    PROVE  QueueInv'
<1>1. /\ UNCHANGED <<queue, op, raced, runs, shaken>> /\ DataType
      /\ \/ due' = due \cup {j} /\ j \in queue["delayed"] /\ job' = job
         \/ due' = due /\ job' = [job EXCEPT ![j] = Q!Absent]
            /\ j \in queue["completed"] \cup queue["failed"]
  BY DEF Q!FallDue, Q!Expire, Q!quiet, QueueInv, Hands
<1>2. DataType' /\ \A i \in Job \ {j} : job'[i] = job[i]
  BY <1>1 DEF DataType
<1>3. Hands'
  BY <1>1, <1>2 DEF QueueInv, Hands
<1>4. ASSUME NEW i \in Job PROVE Sound(i)'
  <2>0. Sound(i)
    BY DEF QueueInv
  <2>1. \A q \in Q!Process : Carries(q, i)' <=> Carries(q, i)
    BY <1>1 DEF Carries
  <2>2. job'[i] = job[i] \/ (job'[i] = Q!Absent /\ i \in queue["completed"] \cup queue["failed"])
    BY <1>1, <1>2 DEF DataType
  <2>3. NotLost(i)'
    BY <2>0, <2>1, <2>2, <1>1 DEF Sound, NotLost, ToRun, Q!Waiting, Q!Absent
  <2>4. Stays(i)
    BY <2>2, <1>1 DEF Stays, Taken
  <2> QED BY <2>0, <2>3, <2>4, <1>1, StaysInPlace DEF Sound
<1> QED BY <1>3, <1>4 DEF QueueInv

LEMMA QueueStep ==
    ASSUME Q!QueueConstants, QueueInv, [Q!Next]_(Q!vars) PROVE QueueInv'
<1>1. CASE UNCHANGED Q!vars
  BY <1>1 DEF Q!vars, QueueInv, Hands, DataType, Sound, NotLost, ToRun, Carries, InOnePlace, Taken,
              Q!Waiting, Q!InHand, Q!At
<1>2. ASSUME NEW p \in Producer, Q!Produce(p) PROVE QueueInv'
  BY <1>2, EnqueueStep DEF Q!Produce
<1>3. ASSUME NEW w \in Poller, Q!Poll(w) PROVE QueueInv'
  BY <1>3, TakeStep, RunStep, DoneStep, FailStep, ExpiryStep DEF Q!Poll
<1>4. ASSUME NEW m \in Mover, Q!MoveNext(m) PROVE QueueInv'
  BY <1>4, ScanStep, MoveReadStep, MoveStep DEF Q!MoveNext
<1> QED BY <1>1, <1>2, <1>3, <1>4, FaultStep, CutOffStep, TimeStep DEF Q!Next

LEMMA QueueInvariant == Spec => []QueueInv
<1>1. Init => QueueInv
  BY QueueInit DEF Init
<1>2. QueueInv /\ [Next]_vars => QueueInv'
  <2>1. [Next]_vars => [Q!Next]_(Q!vars)
    BY DEF Next, vars, ofQueue, Q!vars
  <2> QED BY <2>1, QueueStep, Constants
<1> QED BY <1>1, <1>2, PTL DEF Spec

(* queue.service.ts: whatever the interleaving of producers, pollers and   *)
(* movers, a job whose record says it is to be run is queued or in         *)
(* somebody's hands, unless an operation on it was cut off.                *)
THEOREM JobsNotLost == Spec => []OnlyCutOffsLoseJobs
<1>1. QueueInv => OnlyCutOffsLoseJobs
  BY DEF QueueInv, Sound, NotLost, ToRun, Carries, OnlyCutOffsLoseJobs, Q!OnlyCutOffsLoseJobs, Q!InHand
<1> QED BY <1>1, QueueInvariant, PTL

(* queue.service.ts: a job that no two movers or producers raced for and   *)
(* no fault touched is run by one poller at a time.                        *)
THEOREM JobsRunAlone == Spec => []RunsDoNotOverlap
<1>1. QueueInv => RunsDoNotOverlap
  <2>1. ASSUME NEW j \in Job, InOnePlace(j) PROVE runs[j] <= 1
    <3> DEFINE here == \E p \in Q!Process : Q!At(p, "running", j)
    <3>1. runs[j] = IF here THEN 1 ELSE 0
      BY <2>1 DEF InOnePlace
    <3> HIDE DEF here
    <3> QED BY <3>1
  <2> QED BY <2>1 DEF QueueInv, Sound, RunsDoNotOverlap, Q!RunsDoNotOverlap
<1> QED BY <1>1, QueueInvariant, PTL

-----------------------------------------------------------------------------
(* The life of a job's record.                                             *)

(* What a write may make of a record: a job is enqueued with no attempts,  *)
(* moved when due, taken, and done; a failure costs one attempt and sends  *)
(* it back or, the attempts spent, ends it; nothing follows an end but the *)
(* record's removal.                                                       *)
NextRecord(r, s) ==
    \/ r = Q!Absent /\ s.status \in {"pending", "delayed"} /\ s.attempts = 0
    \/ r.status = "delayed" /\ s = [r EXCEPT !.status = "pending"]
    \/ r.status = "pending" /\ s = [r EXCEPT !.status = "active"]
    \/ r.status = "active" /\ s = [r EXCEPT !.status = "completed"]
    \/ r.status \in {"pending", "active"} /\ s = Q!Retried(r)
    \/ r.status \in {"completed", "failed"} /\ s = Q!Absent
    \/ r.status = "active" /\ RemoveOnComplete /\ s = Q!Absent

Lives == \A j \in Job \ (raced' \cup shaken') :
             job'[j] = job[j] \/ NextRecord(job[j], job'[j])
RecordsLive == [][Lives]_ofQueue

(* What the place of a process says of the record of its job, its copy     *)
(* being the record as the next write will leave it.                       *)
Tells(o, r) ==
    /\ o.pc = "setting" => r = Q!Absent /\ o.copy.attempts = 0
    /\ o.pc \in {"adding", "fail_add"} => r = o.copy
    /\ o.pc \in {"loading", "move_remove", "move_add"} => r.status = "pending"
    /\ o.pc = "activating" => r.status = "pending" /\ o.copy = [r EXCEPT !.status = "active"]
    /\ o.pc \in {"listing", "running", "done_unlist", "done_read"} => r.status = "active"
    /\ o.pc = "done_write" => r.status = "active" /\ o.copy = [r EXCEPT !.status = "completed"]
    /\ o.pc \in {"done_add", "done_expire"} => r.status = "completed"
    /\ o.pc \in {"fail_unlist", "fail_read"} => r.status \in {"pending", "active"}
    /\ o.pc = "fail_write" => r.status \in {"pending", "active"} /\ o.copy = Q!Retried(r)
    /\ o.pc \in {"fail_dlq", "fail_expire"} => r.status = "failed"
    /\ o.pc = "move_write" => r.status = "delayed" /\ o.copy = [r EXCEPT !.status = "pending"]

Told(j) ==
    /\ \A p \in Q!Process : j \in op[p].now => Tells(op[p], job[j])
    /\ j \in queue["pending"] => job[j].status = "pending"
    /\ j \in queue["delayed"] /\ ~Q!InHand(j) => job[j].status = "delayed"

RecordInv == \A j \in Job \ (raced \cup shaken) : Told(j)

(* A step after which the job's record, places and holders are the same.   *)
Still(i) ==
    /\ job'[i] = job[i]
    /\ i \in queue'["pending"] <=> i \in queue["pending"]
    /\ i \in queue'["delayed"] <=> i \in queue["delayed"]
    /\ \A q \in Q!Process : /\ i \in op'[q].now <=> i \in op[q].now
                            /\ i \in op[q].now => op'[q] = op[q]

LEMMA StillTold == ASSUME NEW i \in Job, Told(i), Still(i) PROVE Told(i)'
<1>1. Q!InHand(i)' <=> Q!InHand(i)
  BY DEF Still, Q!InHand
<1> QED BY <1>1 DEF Still, Told

LEMMA StillLive ==
    ASSUME RecordInv, raced \subseteq raced', shaken \subseteq shaken',
           \A i \in Job \ (raced' \cup shaken') : Still(i)
    PROVE  RecordInv' /\ Lives
<1>1. \A i \in Job \ (raced' \cup shaken') : Told(i)'
  BY StillTold DEF RecordInv
<1>2. Lives
  BY DEF Still, Lives
<1> QED BY <1>1, <1>2 DEF RecordInv

(* A process's turn with one job: the others stay as they are.             *)
Turn(p, k, o) ==
    /\ op' = [op EXCEPT ![p] = o] /\ op[p].now \subseteq {k} /\ o.now \subseteq {k}
    /\ \A i \in Job \ {k} : /\ job'[i] = job[i]
                            /\ \A n \in Q!Names : i \in queue'[n] <=> i \in queue[n]
    /\ raced \subseteq raced' /\ shaken \subseteq shaken'

(* What the turn must leave of its own job.                                *)
Follows(k, o) ==
    /\ job'[k] = job[k] \/ NextRecord(job[k], job'[k])
    /\ k \in o.now => Tells(o, job'[k])
    /\ k \in queue'["pending"] => job'[k].status = "pending"
    /\ k \in queue'["delayed"] => k \in o.now \/ job'[k].status = "delayed"

LEMMA TurnLives ==
    ASSUME QueueInv, RecordInv, NEW p \in Q!Process, NEW k \in Job, NEW o, Turn(p, k, o),
           k \notin raced' \cup shaken' =>
              Follows(k, o) /\ \A q \in Q!Process \ {p} : k \notin op[q].now
    PROVE  RecordInv' /\ Lives
<1>1. /\ op'[p] = o /\ \A q \in Q!Process \ {p} : op'[q] = op[q]
      /\ raced \subseteq raced' /\ shaken \subseteq shaken'
  BY DEF Turn, QueueInv, Hands
<1>2. {"pending", "delayed"} \subseteq Q!Names
  BY DEF Q!Names
<1>3. \A i \in Job \ {k} : Still(i)
  BY <1>1, <1>2 DEF Turn, Still
<1>4. ASSUME k \notin raced' \cup shaken' PROVE Told(k)'
  <2>1. Follows(k, o) /\ \A q \in Q!Process \ {p} : k \notin op'[q].now
    BY <1>1, <1>4
  <2>2. \A q \in Q!Process : k \in op'[q].now => Tells(op'[q], job'[k])
    BY <1>1, <2>1 DEF Follows
  <2>3. Q!InHand(k)' <=> k \in o.now
    BY <1>1, <2>1 DEF Q!InHand
  <2> QED BY <2>1, <2>2, <2>3 DEF Follows, Told
<1>5. \A i \in Job \ (raced' \cup shaken') : i # k => Told(i)'
  BY <1>1, <1>3, StillTold DEF RecordInv
<1>6. RecordInv'
  BY <1>4, <1>5 DEF RecordInv
<1>7. Lives
  BY <1>3 DEF Lives, Still, Follows
<1> QED BY <1>6, <1>7

(* What is known of a job in hand before the turn.                         *)
Known(p, k) ==
    /\ Tells(op[p], job[k]) /\ k \notin queue["pending"]
    /\ k \in queue["delayed"] <=> op[p].pc \in {"move_write", "move_remove"}

LEMMA HeldLives ==
    ASSUME QueueInv, RecordInv, NEW p \in Q!Process, NEW k \in Job, NEW x, Q!At(p, x, k),
           NEW o, op' = [op EXCEPT ![p] = o], o.now \subseteq {k},
           \A i \in Job \ {k} : job'[i] = job[i],
           \A i \in Job \ {k}, n \in Q!Names : i \in queue'[n] <=> i \in queue[n],
           raced \subseteq raced', shaken \subseteq shaken',
           k \notin raced' \cup shaken' /\ Known(p, k) => Follows(k, o)
    PROVE  RecordInv' /\ Lives
<1>1. op[p].now = {k} /\ Sound(k)
  BY InPlace
<1>2. ASSUME k \notin raced' \cup shaken'
      PROVE  Follows(k, o) /\ \A q \in Q!Process \ {p} : k \notin op[q].now
  <2>1. InOnePlace(k) /\ Told(k)
    BY <1>1, <1>2 DEF Sound, RecordInv
  <2>2. Known(p, k)
    BY <1>1, <2>1 DEF Known, InOnePlace, Told, Q!InHand
  <2>3. \A q \in Q!Process \ {p} : k \notin op[q].now
    BY <1>1, <2>1 DEF InOnePlace
  <2> QED BY <1>2, <2>2, <2>3
<1>3. Turn(p, k, o)
  BY <1>1 DEF Turn
<1> QED BY <1>2, <1>3, TurnLives

(* The process leaves the sets alone and goes on, or stops.                *)
LEMMA RecordOnly ==
    ASSUME QueueInv, RecordInv, NEW p \in Q!Process, NEW k \in Job, NEW x, Q!At(p, x, k),
           NEW o, op' = [op EXCEPT ![p] = o], o.now = {k},
           \A i \in Job \ {k} : job'[i] = job[i],
           \A i \in Job \ {k}, n \in Q!Names : i \in queue'[n] <=> i \in queue[n],
           queue'["pending"] \subseteq queue["pending"],
           raced \subseteq raced', shaken \subseteq shaken',
           k \notin raced' \cup shaken' /\ Tells(op[p], job[k]) =>
              /\ job'[k] = job[k] \/ NextRecord(job[k], job'[k])
              /\ Tells(o, job'[k])
    PROVE  RecordInv' /\ Lives
<1>1. k \notin raced' \cup shaken' /\ Known(p, k) => Follows(k, o)
  BY DEF Known, Follows
<1> QED BY <1>1, HeldLives

(* enqueue.                                                                *)
LEMMA EnqueueLives ==
    ASSUME Q!QueueConstants, QueueInv, RecordInv, NEW p \in Producer, NEW j \in Job,
           Q!EnqueueSet(p, j) \/ Q!EnqueueAdd(p, j)
           \/ \E s \in {"pending", "delayed"} : Q!Enqueue(p, j, s)
    PROVE  RecordInv' /\ Lives
<1>1. p \in Q!Process /\ p \notin Poller /\ p \notin Mover /\ DataType
  BY DEF Q!Process, Q!QueueConstants, QueueInv, Hands
<1>2. CASE \E s \in {"pending", "delayed"} : Q!Enqueue(p, j, s)
  <2>1. PICK s \in {"pending", "delayed"} : Q!Enqueue(p, j, s)
    BY <1>2
  <2> DEFINE o == [Q!Idle EXCEPT !.pc = "setting", !.now = {j},
                                 !.copy = [status |-> s, attempts |-> 0]]
  <2>2. o.pc = "setting" /\ o.now = {j} /\ o.copy.attempts = 0
    BY DEF Q!Idle
  <2>3. /\ op' = [op EXCEPT ![p] = o] /\ op[p].pc = "idle"
        /\ job[j] = Q!Absent /\ ~Taken(j)
        /\ raced' = raced \cup ({j} \cap Q!Others(p, Producer))
        /\ UNCHANGED <<job, queue, due, runs, shaken>>
    BY <2>1 DEF Q!Enqueue, Taken, Q!quiet
  <2>4. op[p].now = {}
    BY <1>1, <2>3 DEF QueueInv, Hands, Handles
  <2> HIDE DEF o
  <2>5. Turn(p, j, o)
    BY <2>2, <2>3, <2>4 DEF Turn
  <2>6. ASSUME j \notin raced' \cup shaken'
        PROVE  Follows(j, o) /\ \A q \in Q!Process \ {p} : j \notin op[q].now
    <3>1. InOnePlace(j)
      BY <2>3, <2>6 DEF QueueInv, Sound
    <3>2. ~Q!Waiting(j) /\ \A q \in Q!Process : j \in op[q].now => op[q].pc = "setting"
      BY <3>1, <2>3 DEF InOnePlace
    <3>3. \A q \in Q!Process : op[q].pc = "setting" => q \in Producer
      BY DEF QueueInv, Hands, Handles, PollerSteps, MoverSteps, Q!Process
    <3>4. \A q \in Producer \ {p} : j \notin op[q].now
      BY <2>3, <2>6 DEF Q!Others
    <3>5. Follows(j, o)
      BY <2>2, <2>3, <3>2 DEF Follows, Tells, Q!Waiting
    <3> QED BY <3>2, <3>3, <3>4, <3>5
  <2> QED BY <1>1, <2>5, <2>6, TurnLives
<1>3. CASE Q!EnqueueSet(p, j)
  <2> DEFINE o == [op[p] EXCEPT !.pc = "adding"]
  <2>1. /\ op[p] \in Hand /\ op[p].pc = "setting" /\ Handles(p, op[p]) /\ op[p].now = {j}
        /\ Q!At(p, "setting", j)
    BY <1>1, <1>3, InPlace DEF Q!EnqueueSet
  <2>2. /\ op' = [op EXCEPT ![p] = o] /\ job' = [job EXCEPT ![j] = op[p].copy]
        /\ UNCHANGED <<queue, raced, shaken>>
    BY <1>3 DEF Q!EnqueueSet, Q!Goto, Q!quiet
  <2>3. o.pc = "adding" /\ o.now = {j} /\ o.copy = op[p].copy
    BY <2>1 DEF Hand
  <2>4. op[p].copy.status \in {"pending", "delayed"}
    BY <1>1, <2>1 DEF Handles, Copied
  <2>5. job'[j] = op[p].copy /\ \A i \in Job \ {j} : job'[i] = job[i]
    BY <1>1, <2>2 DEF DataType
  <2> HIDE DEF o
  <2>6. Tells(op[p], job[j]) => NextRecord(job[j], job'[j]) /\ Tells(o, job'[j])
    BY <2>1, <2>3, <2>4, <2>5 DEF Tells, NextRecord
  <2> QED BY <1>1, <2>1, <2>2, <2>3, <2>5, <2>6, RecordOnly
<1>4. CASE Q!EnqueueAdd(p, j)
  <2> DEFINE n == op[p].copy.status
  <2>1. /\ op[p] \in Hand /\ op[p].pc = "adding" /\ Handles(p, op[p]) /\ Q!At(p, "adding", j)
    BY <1>1, <1>4, InPlace DEF Q!EnqueueAdd
  <2>2. /\ op' = [op EXCEPT ![p] = Q!Idle] /\ Q!Add(n, j)
        /\ UNCHANGED <<job, raced, shaken>>
    BY <1>4 DEF Q!EnqueueAdd, Q!Leave, Q!quiet
  <2>3. n \in {"pending", "delayed"} /\ n \in Q!Names /\ Q!Idle.now = {}
    BY <1>1, <2>1 DEF Handles, Copied, Q!Names, Q!Idle
  <2>4. /\ \A m \in Q!Names \ {n} : queue'[m] = queue[m]
        /\ \A i \in Job \ {j}, m \in Q!Names : i \in queue'[m] <=> i \in queue[m]
    <3> HIDE DEF n
    <3> QED BY <1>1, <2>2, <2>3, AddsOnly
  <2>5. Known(p, j) => Follows(j, Q!Idle)
    BY <2>1, <2>2, <2>3, <2>4 DEF Known, Follows, Tells, Q!Names
  <2> QED BY <1>1, <2>1, <2>2, <2>3, <2>4, <2>5, HeldLives
<1> QED BY <1>2, <1>3, <1>4

(* processNext, up to the end of the handler.                              *)
LEMMA TakeLives ==
    ASSUME Q!QueueConstants, QueueInv, RecordInv, NEW w \in Poller, NEW j \in Job,
           \/ Q!Pop(w, j) \/ Q!Load(w, j) \/ Q!Activate(w, j) \/ Q!List(w, j)
           \/ \E outcome \in {"done_unlist", "fail_unlist"} : Q!HandlerEnds(w, j, outcome)
    PROVE  RecordInv' /\ Lives
<1>1. w \in Q!Process /\ DataType
  BY DEF Q!Process, QueueInv, Hands
<1>2. CASE Q!Pop(w, j)
  <2> DEFINE o == [Q!Idle EXCEPT !.pc = "loading", !.now = {j}]
  <2>1. o.pc = "loading" /\ o.now = {j}
    BY DEF Q!Idle
  <2>2. /\ op' = [op EXCEPT ![w] = o] /\ op[w].pc = "idle" /\ j \in queue["pending"]
        /\ Q!Remove("pending", j) /\ UNCHANGED <<job, raced, runs, shaken>>
    BY <1>2 DEF Q!Pop, Q!quiet
  <2>3. op[w].now = {}
    BY <1>1, <2>2 DEF QueueInv, Hands, Handles
  <2>4. /\ j \notin queue'["pending"] /\ \A m \in Q!Names \ {"pending"} : queue'[m] = queue[m]
        /\ \A i \in Job \ {j}, m \in Q!Names : i \in queue'[m] <=> i \in queue[m]
    BY <1>1, <2>2, RemovesOnly DEF Q!Names
  <2> HIDE DEF o
  <2>5. Turn(w, j, o)
    BY <2>1, <2>2, <2>3, <2>4 DEF Turn
  <2>6. ASSUME j \notin raced' \cup shaken'
        PROVE  Follows(j, o) /\ \A q \in Q!Process \ {w} : j \notin op[q].now
    <3>1. InOnePlace(j) /\ Told(j)
      BY <2>2, <2>6 DEF QueueInv, Sound, RecordInv
    <3>2. ~Q!InHand(j) /\ job[j].status = "pending"
      BY <2>2, <3>1 DEF InOnePlace, Told
    <3>3. Follows(j, o)
      BY <2>1, <2>2, <2>4, <3>2 DEF Follows, Tells
    <3> QED BY <3>2, <3>3 DEF Q!InHand
  <2> QED BY <1>1, <2>5, <2>6, TurnLives
<1>3. CASE Q!Load(w, j)
  <2>1. /\ op[w] \in Hand /\ op[w].pc = "loading" /\ op[w].now = {j} /\ Q!At(w, "loading", j)
    BY <1>1, <1>3, InPlace DEF Q!Load
  <2>2. UNCHANGED <<job, queue, raced, shaken>>
    BY <1>3 DEF Q!Load, Q!quiet
  <2>3. CASE job[j] = Q!Absent
    <3>1. op' = [op EXCEPT ![w] = Q!Idle] /\ Q!Idle.now = {}
      BY <1>3, <2>3 DEF Q!Load, Q!Leave, Q!Idle
    <3>2. ~Known(w, j)
      BY <2>1, <2>3 DEF Known, Tells, Q!Absent
    <3> QED BY <1>1, <2>1, <2>2, <3>1, <3>2, HeldLives
  <2>4. CASE job[j] # Q!Absent
    <3> DEFINE c == [job[j] EXCEPT !.status = "active"]
               o == [op[w] EXCEPT !.pc = "activating", !.copy = c]
    <3>1. op' = [op EXCEPT ![w] = o]
      BY <1>3, <2>4 DEF Q!Load, Q!Keep
    <3>2. o.pc = "activating" /\ o.now = {j} /\ o.copy = c
      BY <2>1 DEF Hand
    <3>3. Tells(op[w], job[j]) => Tells(o, job'[j])
      BY <2>1, <2>2, <3>2 DEF Tells
    <3> HIDE DEF o
    <3> QED BY <1>1, <2>1, <2>2, <3>1, <3>2, <3>3, RecordOnly
  <2> QED BY <2>3, <2>4
<1>4. CASE Q!Activate(w, j)
  <2> DEFINE o == [op[w] EXCEPT !.pc = "listing"]
  <2>1. /\ op[w] \in Hand /\ op[w].pc = "activating" /\ op[w].now = {j}
        /\ Handles(w, op[w]) /\ Q!At(w, "activating", j)
    BY <1>1, <1>4, InPlace DEF Q!Activate
  <2>2. /\ op' = [op EXCEPT ![w] = o] /\ job' = [job EXCEPT ![j] = op[w].copy]
        /\ UNCHANGED <<queue, raced, shaken>>
    BY <1>4 DEF Q!Activate, Q!Goto, Q!quiet
  <2>3. o.pc = "listing" /\ o.now = {j} /\ op[w].copy.status = "active"
    BY <2>1 DEF Hand, Handles, Copied
  <2>4. job'[j] = op[w].copy /\ \A i \in Job \ {j} : job'[i] = job[i]
    BY <1>1, <2>2 DEF DataType
  <2> HIDE DEF o
  <2>5. Tells(op[w], job[j]) => NextRecord(job[j], job'[j]) /\ Tells(o, job'[j])
    BY <2>1, <2>3, <2>4 DEF Tells, NextRecord
  <2> QED BY <1>1, <2>1, <2>2, <2>3, <2>4, <2>5, RecordOnly
<1>5. CASE Q!List(w, j)
  <2> DEFINE o == [op[w] EXCEPT !.pc = "running"]
  <2>1. /\ op[w] \in Hand /\ op[w].pc = "listing" /\ op[w].now = {j} /\ Q!At(w, "listing", j)
    BY <1>1, <1>5, InPlace DEF Q!List
  <2>2. /\ op' = [op EXCEPT ![w] = o] /\ Q!Add("active", j) /\ UNCHANGED <<job, raced, shaken>>
    BY <1>5 DEF Q!List, Q!Goto, Q!quiet
  <2>3. o.pc = "running" /\ o.now = {j}
    BY <2>1 DEF Hand
  <2>4. /\ queue'["pending"] = queue["pending"]
        /\ \A i \in Job \ {j}, m \in Q!Names : i \in queue'[m] <=> i \in queue[m]
    BY <1>1, <2>2, AddsOnly DEF Q!Names
  <2>5. Tells(op[w], job[j]) => Tells(o, job'[j])
    BY <2>1, <2>2, <2>3 DEF Tells
  <2> HIDE DEF o
  <2> QED BY <1>1, <2>1, <2>2, <2>3, <2>4, <2>5, RecordOnly
<1>6. ASSUME NEW outcome \in {"done_unlist", "fail_unlist"}, Q!HandlerEnds(w, j, outcome)
      PROVE  RecordInv' /\ Lives
  <2> DEFINE o == [op[w] EXCEPT !.pc = outcome]
  <2>1. /\ op[w] \in Hand /\ op[w].pc = "running" /\ op[w].now = {j} /\ Q!At(w, "running", j)
    BY <1>1, <1>6, InPlace DEF Q!HandlerEnds
  <2>2. op' = [op EXCEPT ![w] = o] /\ UNCHANGED <<job, queue, raced, shaken>>
    BY <1>6 DEF Q!HandlerEnds, Q!Goto, Q!quiet
  <2>3. o.pc = outcome /\ o.now = {j}
    BY <2>1 DEF Hand
  <2>4. Tells(op[w], job[j]) => Tells(o, job'[j])
    BY <1>6, <2>1, <2>2, <2>3 DEF Tells
  <2> HIDE DEF o
  <2> QED BY <1>1, <2>1, <2>2, <2>3, <2>4, RecordOnly
<1> QED BY <1>2, <1>3, <1>4, <1>5, <1>6

(* markCompleted.                                                          *)
LEMMA DoneLives ==
    ASSUME Q!QueueConstants, QueueInv, RecordInv, NEW w \in Poller, NEW j \in Job,
           Q!DoneUnlist(w, j) \/ Q!DoneRead(w, j) \/ Q!Write(w, j, "done_write", "done_add")
           \/ Q!DoneAdd(w, j)
    PROVE  RecordInv' /\ Lives
<1>1. w \in Q!Process /\ DataType
  BY DEF Q!Process, QueueInv, Hands
<1>2. CASE Q!DoneUnlist(w, j)
  <2> DEFINE o == [op[w] EXCEPT !.pc = "done_read"]
  <2>1. /\ op[w] \in Hand /\ op[w].pc = "done_unlist" /\ op[w].now = {j}
        /\ Q!At(w, "done_unlist", j)
    BY <1>1, <1>2, InPlace DEF Q!DoneUnlist
  <2>2. /\ op' = [op EXCEPT ![w] = o] /\ Q!Remove("active", j)
        /\ UNCHANGED <<job, raced, shaken>>
    BY <1>2 DEF Q!DoneUnlist, Q!Goto, Q!quiet
  <2>3. o.pc = "done_read" /\ o.now = {j}
    BY <2>1 DEF Hand
  <2>4. /\ queue'["pending"] = queue["pending"]
        /\ \A i \in Job \ {j}, m \in Q!Names : i \in queue'[m] <=> i \in queue[m]
    BY <1>1, <2>2, RemovesOnly DEF Q!Names
  <2>5. Tells(op[w], job[j]) => Tells(o, job'[j])
    BY <2>1, <2>2, <2>3 DEF Tells
  <2> HIDE DEF o
  <2> QED BY <1>1, <2>1, <2>2, <2>3, <2>4, <2>5, RecordOnly
<1>3. CASE Q!DoneRead(w, j)
  <2>1. /\ op[w] \in Hand /\ op[w].pc = "done_read" /\ op[w].now = {j}
        /\ Q!At(w, "done_read", j)
    BY <1>1, <1>3, InPlace DEF Q!DoneRead
  <2>2. UNCHANGED <<queue, raced, shaken>>
    BY <1>3 DEF Q!DoneRead, Q!quiet
  <2>3. CASE Q!Leave(w)
    <3>1. op' = [op EXCEPT ![w] = Q!Idle] /\ Q!Idle.now = {}
      BY <2>3 DEF Q!Leave, Q!Idle
    <3>2. /\ \A i \in Job \ {j} : job'[i] = job[i]
          /\ job'[j] = Q!Absent /\ (RemoveOnComplete \/ job[j] = Q!Absent)
      BY <1>1, <1>3, <2>1, <2>3
         DEF Q!DoneRead, Q!Leave, Q!Keep, QueueInv, Hands, Q!Idle, Hand, DataType
    <3>3. Known(w, j) => Follows(j, Q!Idle)
      BY <2>1, <2>2, <3>1, <3>2 DEF Known, Tells, Follows, NextRecord
    <3> QED BY <1>1, <2>1, <2>2, <3>1, <3>2, <3>3, HeldLives
  <2>4. CASE job[j] # Q!Absent /\ UNCHANGED job /\ Q!Keep(w, "done_write", [job[j] EXCEPT !.status = "completed"])
    <3> DEFINE c == [job[j] EXCEPT !.status = "completed"]
               o == [op[w] EXCEPT !.pc = "done_write", !.copy = c]
    <3>1. op' = [op EXCEPT ![w] = o]
      BY <2>4 DEF Q!Keep
    <3>2. o.pc = "done_write" /\ o.now = {j} /\ o.copy = c
      BY <2>1 DEF Hand
    <3>3. Tells(op[w], job[j]) => Tells(o, job'[j])
      BY <2>1, <2>4, <3>2 DEF Tells
    <3> HIDE DEF o
    <3> QED BY <1>1, <2>1, <2>2, <2>4, <3>1, <3>2, <3>3, RecordOnly
  <2> QED BY <1>3, <2>3, <2>4 DEF Q!DoneRead
<1>4. CASE Q!Write(w, j, "done_write", "done_add")
  <2> DEFINE o == [op[w] EXCEPT !.pc = "done_add"]
  <2>1. /\ op[w] \in Hand /\ op[w].pc = "done_write" /\ op[w].now = {j}
        /\ Handles(w, op[w]) /\ Q!At(w, "done_write", j)
    BY <1>1, <1>4, InPlace DEF Q!Write
  <2>2. /\ op' = [op EXCEPT ![w] = o] /\ job' = [job EXCEPT ![j] = op[w].copy]
        /\ UNCHANGED <<queue, raced, shaken>>
    BY <1>4 DEF Q!Write, Q!Goto, Q!quiet
  <2>3. o.pc = "done_add" /\ o.now = {j} /\ op[w].copy.status = "completed"
    BY <2>1 DEF Hand, Handles, Copied
  <2>4. job'[j] = op[w].copy /\ \A i \in Job \ {j} : job'[i] = job[i]
    BY <1>1, <2>2 DEF DataType
  <2> HIDE DEF o
  <2>5. Tells(op[w], job[j]) => NextRecord(job[j], job'[j]) /\ Tells(o, job'[j])
    BY <2>1, <2>3, <2>4 DEF Tells, NextRecord
  <2> QED BY <1>1, <2>1, <2>2, <2>3, <2>4, <2>5, RecordOnly
<1>5. CASE Q!DoneAdd(w, j)
  <2> DEFINE o == [op[w] EXCEPT !.pc = "done_expire"]
  <2>1. /\ op[w] \in Hand /\ op[w].pc = "done_add" /\ op[w].now = {j}
        /\ Q!At(w, "done_add", j)
    BY <1>1, <1>5, InPlace DEF Q!DoneAdd
  <2>2. /\ op' = [op EXCEPT ![w] = o] /\ Q!Add("completed", j)
        /\ UNCHANGED <<job, raced, shaken>>
    BY <1>5 DEF Q!DoneAdd, Q!Goto, Q!quiet
  <2>3. o.pc = "done_expire" /\ o.now = {j}
    BY <2>1 DEF Hand
  <2>4. /\ queue'["pending"] = queue["pending"]
        /\ \A i \in Job \ {j}, m \in Q!Names : i \in queue'[m] <=> i \in queue[m]
    BY <1>1, <2>2, AddsOnly DEF Q!Names
  <2>5. Tells(op[w], job[j]) => Tells(o, job'[j])
    BY <2>1, <2>2, <2>3 DEF Tells
  <2> HIDE DEF o
  <2> QED BY <1>1, <2>1, <2>2, <2>3, <2>4, <2>5, RecordOnly
<1> QED BY <1>2, <1>3, <1>4, <1>5

(* markFailed.                                                             *)
LEMMA FailLives ==
    ASSUME Q!QueueConstants, QueueInv, RecordInv, NEW w \in Poller, NEW j \in Job,
           Q!FailUnlist(w, j) \/ Q!FailRead(w, j) \/ Q!Write(w, j, "fail_write", "fail_add")
           \/ Q!FailAdd(w, j) \/ Q!FailDlq(w, j)
    PROVE  RecordInv' /\ Lives
<1>1. w \in Q!Process /\ DataType
  BY DEF Q!Process, QueueInv, Hands
<1>2. CASE Q!FailUnlist(w, j)
  <2> DEFINE o == [op[w] EXCEPT !.pc = "fail_read"]
  <2>1. /\ op[w] \in Hand /\ op[w].pc = "fail_unlist" /\ op[w].now = {j}
        /\ Q!At(w, "fail_unlist", j)
    BY <1>1, <1>2, InPlace DEF Q!FailUnlist
  <2>2. /\ op' = [op EXCEPT ![w] = o] /\ Q!Remove("active", j)
        /\ UNCHANGED <<job, raced, shaken>>
    BY <1>2 DEF Q!FailUnlist, Q!Goto, Q!quiet
  <2>3. o.pc = "fail_read" /\ o.now = {j}
    BY <2>1 DEF Hand
  <2>4. /\ queue'["pending"] = queue["pending"]
        /\ \A i \in Job \ {j}, m \in Q!Names : i \in queue'[m] <=> i \in queue[m]
    BY <1>1, <2>2, RemovesOnly DEF Q!Names
  <2>5. Tells(op[w], job[j]) => Tells(o, job'[j])
    BY <2>1, <2>2, <2>3 DEF Tells
  <2> HIDE DEF o
  <2> QED BY <1>1, <2>1, <2>2, <2>3, <2>4, <2>5, RecordOnly
<1>3. CASE Q!FailRead(w, j)
  <2>1. /\ op[w] \in Hand /\ op[w].pc = "fail_read" /\ op[w].now = {j}
        /\ Q!At(w, "fail_read", j)
    BY <1>1, <1>3, InPlace DEF Q!FailRead
  <2>2. UNCHANGED <<job, queue, raced, shaken>>
    BY <1>3 DEF Q!FailRead, Q!quiet
  <2>3. CASE job[j] = Q!Absent
    <3>1. op' = [op EXCEPT ![w] = Q!Idle] /\ Q!Idle.now = {}
      BY <1>3, <2>3 DEF Q!FailRead, Q!Leave, Q!Idle
    <3>2. ~Known(w, j)
      BY <2>1, <2>3 DEF Known, Tells, Q!Absent
    <3> QED BY <1>1, <2>1, <2>2, <3>1, <3>2, HeldLives
  <2>4. CASE job[j] # Q!Absent
    <3> DEFINE c == Q!Retried(job[j])
               o == [op[w] EXCEPT !.pc = "fail_write", !.copy = c]
    <3>1. op' = [op EXCEPT ![w] = o]
      BY <1>3, <2>4 DEF Q!FailRead, Q!Keep
    <3>2. o.pc = "fail_write" /\ o.now = {j} /\ o.copy = c
      BY <2>1 DEF Hand
    <3>3. Tells(op[w], job[j]) => Tells(o, job'[j])
      BY <2>1, <2>2, <3>2 DEF Tells
    <3> HIDE DEF o
    <3> QED BY <1>1, <2>1, <2>2, <3>1, <3>2, <3>3, RecordOnly
  <2> QED BY <2>3, <2>4
<1>4. CASE Q!Write(w, j, "fail_write", "fail_add")
  <2> DEFINE o == [op[w] EXCEPT !.pc = "fail_add"]
  <2>1. /\ op[w] \in Hand /\ op[w].pc = "fail_write" /\ op[w].now = {j}
        /\ Q!At(w, "fail_write", j)
    BY <1>1, <1>4, InPlace DEF Q!Write
  <2>2. /\ op' = [op EXCEPT ![w] = o] /\ job' = [job EXCEPT ![j] = op[w].copy]
        /\ UNCHANGED <<queue, raced, shaken>>
    BY <1>4 DEF Q!Write, Q!Goto, Q!quiet
  <2>3. o.pc = "fail_add" /\ o.now = {j} /\ o.copy = op[w].copy
    BY <2>1 DEF Hand
  <2>4. job'[j] = op[w].copy /\ \A i \in Job \ {j} : job'[i] = job[i]
    BY <1>1, <2>2 DEF DataType
  <2> HIDE DEF o
  <2>5. Tells(op[w], job[j]) => NextRecord(job[j], job'[j]) /\ Tells(o, job'[j])
    BY <2>1, <2>3, <2>4 DEF Tells, NextRecord
  <2> QED BY <1>1, <2>1, <2>2, <2>3, <2>4, <2>5, RecordOnly
<1>5. CASE Q!FailAdd(w, j)
  <2> DEFINE n == op[w].copy.status
  <2>1. /\ op[w] \in Hand /\ op[w].pc = "fail_add" /\ op[w].now = {j}
        /\ Handles(w, op[w]) /\ Q!At(w, "fail_add", j)
    BY <1>1, <1>5, InPlace DEF Q!FailAdd
  <2>2. /\ Q!Add(n, j) /\ UNCHANGED <<job, raced, shaken>>
        /\ IF n = "failed" THEN Q!Goto(w, "fail_dlq") ELSE Q!Leave(w)
    BY <1>5 DEF Q!FailAdd, Q!quiet
  <2>3. n \in {"delayed", "failed"} /\ n \in Q!Names
    BY <2>1 DEF Handles, Copied, Q!Names
  <2>4. /\ \A m \in Q!Names \ {n} : queue'[m] = queue[m]
        /\ \A i \in Job \ {j}, m \in Q!Names : i \in queue'[m] <=> i \in queue[m]
    <3> HIDE DEF n
    <3> QED BY <1>1, <2>2, <2>3, AddsOnly
  <2>5. Tells(op[w], job[j]) => job[j].status = n
    BY <2>1 DEF Tells
  <2>6. CASE n = "failed"
    <3> DEFINE o == [op[w] EXCEPT !.pc = "fail_dlq"]
    <3>1. op' = [op EXCEPT ![w] = o] /\ o.pc = "fail_dlq" /\ o.now = {j}
      BY <2>1, <2>2, <2>6 DEF Hand, Q!Goto
    <3>2. queue'["pending"] = queue["pending"]
      BY <2>4, <2>6 DEF Q!Names
    <3>3. Tells(op[w], job[j]) => Tells(o, job'[j])
      BY <2>2, <2>5, <2>6, <3>1 DEF Tells
    <3> HIDE DEF n, o
    <3> QED BY <1>1, <2>1, <2>2, <2>4, <3>1, <3>2, <3>3, RecordOnly
  <2>7. CASE n = "delayed"
    <3>1. op' = [op EXCEPT ![w] = Q!Idle] /\ Q!Idle.now = {}
      BY <2>2, <2>7 DEF Q!Leave, Q!Idle
    <3>2. queue'["pending"] = queue["pending"]
      BY <2>4, <2>7 DEF Q!Names
    <3>3. Known(w, j) => Follows(j, Q!Idle)
      BY <2>2, <2>5, <2>7, <3>1, <3>2 DEF Known, Follows
    <3> HIDE DEF n
    <3> QED BY <1>1, <2>1, <2>2, <2>4, <3>1, <3>3, HeldLives
  <2> QED BY <2>3, <2>6, <2>7
<1>6. CASE Q!FailDlq(w, j)
  <2> DEFINE o == [op[w] EXCEPT !.pc = "fail_expire"]
  <2>1. /\ op[w] \in Hand /\ op[w].pc = "fail_dlq" /\ op[w].now = {j}
        /\ Q!At(w, "fail_dlq", j)
    BY <1>1, <1>6, InPlace DEF Q!FailDlq
  <2>2. /\ op' = [op EXCEPT ![w] = o] /\ Q!Add("dlq", j)
        /\ UNCHANGED <<job, raced, shaken>>
    BY <1>6 DEF Q!FailDlq, Q!Goto, Q!quiet
  <2>3. o.pc = "fail_expire" /\ o.now = {j}
    BY <2>1 DEF Hand
  <2>4. /\ queue'["pending"] = queue["pending"]
        /\ \A i \in Job \ {j}, m \in Q!Names : i \in queue'[m] <=> i \in queue[m]
    BY <1>1, <2>2, AddsOnly DEF Q!Names
  <2>5. Tells(op[w], job[j]) => Tells(o, job'[j])
    BY <2>1, <2>2, <2>3 DEF Tells
  <2> HIDE DEF o
  <2> QED BY <1>1, <2>1, <2>2, <2>3, <2>4, <2>5, RecordOnly
<1> QED BY <1>2, <1>3, <1>4, <1>5, <1>6

(* The last call of either.                                                *)
LEMMA ExpiryLives ==
    ASSUME Q!QueueConstants, QueueInv, RecordInv, NEW w \in Poller, NEW j \in Job,
           NEW x \in {"done_expire", "fail_expire"}, Q!SetExpiry(w, j, x)
    PROVE  RecordInv' /\ Lives
<1>1. w \in Q!Process /\ DataType
  BY DEF Q!Process, QueueInv, Hands
<1>2. op[w].pc = x /\ op[w].now = {j} /\ Q!At(w, x, j)
  BY <1>1, InPlace DEF Q!SetExpiry
<1>3. /\ op' = [op EXCEPT ![w] = Q!Idle] /\ UNCHANGED <<job, queue, raced, shaken>>
      /\ Q!Idle.now = {}
  BY DEF Q!SetExpiry, Q!Leave, Q!quiet, Q!Idle
<1>4. Known(w, j) => Follows(j, Q!Idle)
  BY <1>2, <1>3 DEF Known, Follows
<1> QED BY <1>1, <1>2, <1>3, <1>4, HeldLives

(* moveDelayedJobs.                                                        *)
LEMMA MoveLives ==
    ASSUME Q!QueueConstants, QueueInv, RecordInv, NEW m \in Mover, NEW j \in Job,
           Q!MoveRead(m, j) \/ Q!Write(m, j, "move_write", "move_remove")
           \/ Q!MoveRemove(m, j) \/ Q!MoveAdd(m, j)
    PROVE  RecordInv' /\ Lives
<1>1. m \in Q!Process /\ DataType
  BY DEF Q!Process, QueueInv, Hands
<1>2. CASE Q!MoveRead(m, j)
  <2> DEFINE todo == op[m].todo \ {j}
             c == [job[j] EXCEPT !.status = "pending"]
             o == IF job[j] = Q!Absent THEN Q!Rest(m, todo)
                  ELSE [pc |-> "move_write", now |-> {j}, todo |-> todo, copy |-> c]
  <2>1. op' = [op EXCEPT ![m] = o]
    BY <1>2 DEF Q!MoveRead
  <2>2. /\ op[m] \in Hand /\ op[m].now = {} /\ j \in op[m].todo
        /\ UNCHANGED <<job, raced, shaken>> /\ todo \in SUBSET Job
    BY <1>1, <1>2 DEF Q!MoveRead, Q!quiet, QueueInv, Hands, Handles, Hand
  <2>3. o.now \subseteq {j} /\ (job[j] # Q!Absent => o.pc = "move_write" /\ o.now = {j} /\ o.copy = c)
    <3> HIDE DEF todo
    <3>1. Q!Rest(m, todo).now = {}
      BY <2>2, RestType, <1>2
    <3> QED BY <3>1
  <2>4. /\ queue'["pending"] = queue["pending"] /\ queue'["delayed"] \subseteq queue["delayed"]
        /\ \A i \in Job \ {j}, n \in Q!Names : i \in queue'[n] <=> i \in queue[n]
    BY <1>1, <1>2, RemovesOnly DEF Q!MoveRead, Q!Names, Q!Remove, DataType
  <2>5. Turn(m, j, o)
    <3> HIDE DEF o, c, todo
    <3> QED BY <2>1, <2>2, <2>3, <2>4 DEF Turn
  <2>6. ASSUME j \notin raced' \cup shaken'
        PROVE  Follows(j, o) /\ \A q \in Q!Process \ {m} : j \notin op[q].now
    <3>1. InOnePlace(j) /\ Told(j)
      BY <2>2, <2>6 DEF QueueInv, Sound, RecordInv
    <3>2. j \in queue["delayed"] /\ ~Q!InHand(j)
      BY <1>1, <2>2, <3>1 DEF InOnePlace
    <3>3. job[j].status = "delayed" /\ j \notin queue["pending"]
      BY <3>1, <3>2 DEF Told, InOnePlace
    <3>4. job[j] # Q!Absent
      BY <3>3 DEF Q!Absent
    <3>5. Follows(j, o)
      <4>1. o.pc = "move_write" /\ o.now = {j} /\ o.copy = c
        BY <2>3, <3>4
      <4> HIDE DEF o
      <4> QED BY <2>2, <2>4, <3>3, <4>1 DEF Follows, Tells
    <3> QED BY <3>2, <3>5 DEF Q!InHand
  <2> HIDE DEF o
  <2> QED BY <1>1, <2>5, <2>6, TurnLives
<1>3. CASE Q!Write(m, j, "move_write", "move_remove")
  <2> DEFINE o == [op[m] EXCEPT !.pc = "move_remove"]
  <2>1. /\ op[m] \in Hand /\ op[m].pc = "move_write" /\ op[m].now = {j}
        /\ Handles(m, op[m]) /\ Q!At(m, "move_write", j)
    BY <1>1, <1>3, InPlace DEF Q!Write
  <2>2. /\ op' = [op EXCEPT ![m] = o] /\ job' = [job EXCEPT ![j] = op[m].copy]
        /\ UNCHANGED <<queue, raced, shaken>>
    BY <1>3 DEF Q!Write, Q!Goto, Q!quiet
  <2>3. o.pc = "move_remove" /\ o.now = {j} /\ op[m].copy.status = "pending"
    BY <2>1 DEF Hand, Handles, Copied
  <2>4. job'[j] = op[m].copy /\ \A i \in Job \ {j} : job'[i] = job[i]
    BY <1>1, <2>2 DEF DataType
  <2> HIDE DEF o
  <2>5. Tells(op[m], job[j]) => NextRecord(job[j], job'[j]) /\ Tells(o, job'[j])
    BY <2>1, <2>3, <2>4 DEF Tells, NextRecord
  <2> QED BY <1>1, <2>1, <2>2, <2>3, <2>4, <2>5, RecordOnly
<1>4. CASE Q!MoveRemove(m, j)
  <2> DEFINE o == [op[m] EXCEPT !.pc = "move_add"]
  <2>1. /\ op[m] \in Hand /\ op[m].pc = "move_remove" /\ op[m].now = {j}
        /\ Q!At(m, "move_remove", j)
    BY <1>1, <1>4, InPlace DEF Q!MoveRemove
  <2>2. /\ op' = [op EXCEPT ![m] = o] /\ Q!Remove("delayed", j)
        /\ UNCHANGED <<job, raced, shaken>>
    BY <1>4 DEF Q!MoveRemove, Q!Goto, Q!quiet
  <2>3. o.pc = "move_add" /\ o.now = {j}
    BY <2>1 DEF Hand
  <2>4. /\ queue'["pending"] = queue["pending"]
        /\ \A i \in Job \ {j}, n \in Q!Names : i \in queue'[n] <=> i \in queue[n]
    BY <1>1, <2>2, RemovesOnly DEF Q!Names
  <2>5. Tells(op[m], job[j]) => Tells(o, job'[j])
    BY <2>1, <2>2, <2>3 DEF Tells
  <2> HIDE DEF o
  <2> QED BY <1>1, <2>1, <2>2, <2>3, <2>4, <2>5, RecordOnly
<1>5. CASE Q!MoveAdd(m, j)
  <2> DEFINE o == Q!Rest(m, op[m].todo)
  <2>1. /\ op[m] \in Hand /\ op[m].pc = "move_add" /\ Q!At(m, "move_add", j)
    BY <1>1, <1>5, InPlace DEF Q!MoveAdd
  <2>2. /\ op' = [op EXCEPT ![m] = o] /\ Q!Add("pending", j)
        /\ UNCHANGED <<job, raced, shaken>>
    BY <1>5 DEF Q!MoveAdd, Q!quiet
  <2>3. o.now = {}
    BY <2>1, RestType DEF Hand
  <2> HIDE DEF o
  <2>4. /\ queue'["delayed"] = queue["delayed"]
        /\ \A i \in Job \ {j}, n \in Q!Names : i \in queue'[n] <=> i \in queue[n]
    BY <1>1, <2>2, AddsOnly DEF Q!Names
  <2>5. Known(m, j) => Follows(j, o)
    BY <2>1, <2>2, <2>3, <2>4 DEF Known, Follows, Tells
  <2> QED BY <1>1, <2>1, <2>2, <2>3, <2>4, <2>5, HeldLives
<1> QED BY <1>2, <1>3, <1>4, <1>5

(* What takes no job further: a mover's list, time, errors and crashes.    *)
LEMMA ErrorLives ==
    ASSUME Q!QueueConstants, QueueInv, RecordInv, NEW w \in Poller, Q!RedisError(w)
    PROVE  RecordInv' /\ Lives
<1>1. w \in Q!Process /\ DataType /\ op[w] \in Hand /\ Handles(w, op[w])
  BY DEF Q!Process, QueueInv, Hands
<1> DEFINE o == [op[w] EXCEPT !.pc = "fail_unlist"]
<1>2. /\ op[w].pc \in Q!Before \cup Q!After
      /\ op' = [op EXCEPT ![w] = o] /\ UNCHANGED <<job, queue, raced>>
      /\ shaken' = IF op[w].pc \in Q!After THEN shaken \cup op[w].now ELSE shaken
  BY DEF Q!RedisError, Q!Goto
<1>3. PICK k \in Job : op[w].now = {k}
  BY <1>1, <1>2 DEF Handles, Q!Before, Q!After
<1>4. Q!At(w, op[w].pc, k) /\ o.pc = "fail_unlist" /\ o.now = {k}
  BY <1>1, <1>3 DEF Q!At, Hand
<1>5. k \notin raced' \cup shaken' /\ Tells(op[w], job[k]) => Tells(o, job'[k])
  BY <1>2, <1>3, <1>4 DEF Tells, Q!Before, Q!After
<1>6. shaken \subseteq shaken'
  BY <1>2
<1> HIDE DEF o
<1> QED BY <1>1, <1>2, <1>4, <1>5, <1>6, RecordOnly

LEMMA QuietLives ==
    ASSUME Q!QueueConstants, QueueInv, RecordInv,
           \/ UNCHANGED Q!vars
           \/ \E m \in Mover : Q!Scan(m)
           \/ \E p \in Q!Process : Q!CutOff(p)
           \/ \E j \in Job : Q!FallDue(j)
    PROVE  RecordInv' /\ Lives
<1>1. CASE UNCHANGED Q!vars
  <2>1. /\ \A i \in Job : Still(i)
        /\ raced \subseteq raced' /\ shaken \subseteq shaken'
    BY <1>1 DEF Q!vars, Still
  <2> QED BY <2>1, StillLive
<1>2. ASSUME NEW m \in Mover, Q!Scan(m) PROVE RecordInv' /\ Lives
  <2> DEFINE o == [Q!Idle EXCEPT !.pc = "moving", !.todo = due]
  <2>1. /\ op' = [op EXCEPT ![m] = o] /\ UNCHANGED <<job, queue, shaken>>
        /\ raced \subseteq raced' /\ op[m].now = {}
    BY <1>2 DEF Q!Scan, Q!quiet, QueueInv, Hands, Handles, Q!Process
  <2>2. o.now = {}
    BY DEF Q!Idle
  <2> HIDE DEF o
  <2>3. \A q \in Q!Process : op'[q] = IF q = m THEN o ELSE op[q]
    BY <2>1 DEF QueueInv, Hands
  <2>4. \A i \in Job : Still(i)
    BY <2>1, <2>2, <2>3 DEF Still
  <2> QED BY <2>1, <2>4, StillLive
<1>3. ASSUME NEW p \in Q!Process, Q!CutOff(p) PROVE RecordInv' /\ Lives
  <2>1. /\ op' = [op EXCEPT ![p] = Q!Idle] /\ UNCHANGED <<job, queue, raced>>
        /\ shaken' = shaken \cup op[p].now /\ Q!Idle.now = {}
    BY <1>3 DEF Q!CutOff, Q!Leave, Q!Idle
  <2>2. \A q \in Q!Process : op'[q] = IF q = p THEN Q!Idle ELSE op[q]
    BY <2>1 DEF QueueInv, Hands
  <2>3. \A i \in Job \ (raced' \cup shaken') : Still(i)
    BY <2>1, <2>2 DEF Still
  <2> QED BY <2>1, <2>3, StillLive
<1>4. ASSUME NEW j \in Job, Q!FallDue(j) PROVE RecordInv' /\ Lives
  <2>1. /\ \A i \in Job : Still(i)
        /\ raced \subseteq raced' /\ shaken \subseteq shaken'
    BY <1>4 DEF Q!FallDue, Q!quiet, Still
  <2> QED BY <2>1, StillLive
<1> QED BY <1>1, <1>2, <1>3, <1>4

LEMMA ExpireLives ==
    ASSUME QueueInv, RecordInv, NEW j \in Job, Q!Expire(j) PROVE RecordInv' /\ Lives
<1>1. /\ UNCHANGED <<queue, op, raced, shaken>> /\ ~Q!InHand(j)
      /\ job[j].status \in {"completed", "failed"}
      /\ job'[j] = Q!Absent /\ \A i \in Job \ {j} : job'[i] = job[i]
  BY DEF Q!Expire, Q!quiet, QueueInv, Hands, DataType
<1>2. \A i \in Job \ {j} : Still(i)
  BY <1>1 DEF Still
<1>3. ASSUME j \notin raced \cup shaken PROVE Told(j)'
  <2>1. Told(j)
    BY <1>3 DEF RecordInv
  <2>2. j \notin queue'["pending"] /\ j \notin queue'["delayed"]
    BY <1>1, <2>1 DEF Told
  <2>3. \A q \in Q!Process : j \notin op'[q].now
    BY <1>1 DEF Q!InHand
  <2> QED BY <2>2, <2>3 DEF Told
<1>4. \A i \in Job \ (raced' \cup shaken') : Told(i)'
  BY <1>1, <1>2, <1>3, StillTold DEF RecordInv
<1>5. Lives
  BY <1>1 DEF Lives, NextRecord
<1> QED BY <1>4, <1>5 DEF RecordInv

LEMMA RecordStep ==
    ASSUME Q!QueueConstants, QueueInv, RecordInv, [Q!Next]_(Q!vars) PROVE RecordInv' /\ Lives
<1>1. ASSUME NEW p \in Producer, Q!Produce(p) PROVE RecordInv' /\ Lives
  BY <1>1, EnqueueLives DEF Q!Produce
<1>2. ASSUME NEW w \in Poller, Q!Poll(w) PROVE RecordInv' /\ Lives
  BY <1>2, TakeLives, DoneLives, FailLives, ExpiryLives DEF Q!Poll
<1>3. ASSUME NEW m \in Mover, Q!MoveNext(m) PROVE RecordInv' /\ Lives
  BY <1>3, QuietLives, MoveLives DEF Q!MoveNext
<1> QED BY <1>1, <1>2, <1>3, ErrorLives, QuietLives, ExpireLives DEF Q!Next

(* queue.service.ts: the record of a job that nobody raced for and no      *)
(* fault touched is written as the life of a job goes: enqueued with no    *)
(* attempts, taken once pending, completed or retried, one attempt more    *)
(* for a failure, ended when they are spent, and after that only removed.  *)
THEOREM JobRecords == Spec => RecordsLive
<1>1. ASSUME Init PROVE RecordInv
  <2>1. /\ \A p \in Q!Process : op[p].now = {}
        /\ queue["pending"] = {} /\ queue["delayed"] = {}
    BY <1>1 DEF Init, Q!Init, Q!Idle, Q!Names
  <2> QED BY <2>1 DEF RecordInv, Told
<1>2. QueueInv /\ RecordInv /\ [Next]_vars => RecordInv' /\ [Lives]_ofQueue
  <2>1. [Next]_vars => [Q!Next]_(Q!vars)
    BY DEF Next, vars, ofQueue, Q!vars
  <2> QED BY <2>1, RecordStep, Constants
<1> QED BY <1>1, <1>2, QueueInvariant, PTL DEF Spec, RecordsLive
=============================================================================
