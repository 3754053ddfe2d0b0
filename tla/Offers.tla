------------------------------- MODULE Offers -------------------------------
(* Offers on one NFT: made by bidders, accepted by the owner, cancelled,   *)
(* expired.  A request reads its row, may await the contract client, and   *)
(* saves its copy whatever happened to the row meanwhile.                  *)
EXTENDS Naturals

CONSTANTS MaxOffers,      \* bound: offers ever made
          Bidder, Request, Nobody,
          MaxOfferFaults  \* bound: requests cut off

OfferConstants == MaxOffers \in Nat /\ MaxOfferFaults \in Nat

VARIABLES offer,    \* the rows, numbered in the order they were made
          lapsed,   \* offers past expiresAt
          ask,      \* the request each process is in
          before,   \* history: offers accepted when this one was made
          overlap,  \* history: pairs of acceptances in hand at once
          offerFaults

offerVars == <<offer, lapsed, ask, before, overlap, offerFaults>>

OfferId == 1..MaxOffers
Status == {"none", "PENDING", "ACCEPTED", "CANCELLED", "EXPIRED"}
NoRow  == [status |-> "none", bidder |-> Nobody]
NoAsk  == [pc |-> "idle", id |-> 0, row |-> NoRow]
RowType == [status : Status, bidder : Bidder \cup {Nobody}]

TypeOK ==
    /\ offer \in [OfferId -> RowType] /\ lapsed \subseteq OfferId
    /\ ask \in [Request -> [pc : {"idle", "create", "accept", "expire", "close", "cancel"},
                            id : OfferId \cup {0}, row : RowType]]
    /\ before \in [OfferId -> SUBSET OfferId] /\ overlap \subseteq OfferId \X OfferId
    /\ offerFaults \in 0..MaxOfferFaults

Init ==
    /\ offer = [o \in OfferId |-> NoRow] /\ lapsed = {}
    /\ ask = [r \in Request |-> NoAsk]
    /\ before = [o \in OfferId |-> {}] /\ overlap = {} /\ offerFaults = 0

With(s)       == {o \in OfferId : offer[o].status = s}
SaveOffer(o, row) == offer' = [offer EXCEPT ![o] = row]
EndAsk(r)     == ask' = [ask EXCEPT ![r] = NoAsk]
Opened(r, pc, o) == ask' = [ask EXCEPT ![r] = [pc |-> pc, id |-> o, row |-> offer[o]]]
Accepting(r)  == ask[r].pc \in {"accept", "close"}

-----------------------------------------------------------------------------
(* create: refused while the bidder has an offer pending.                  *)
Create(r, b) ==
    /\ ask[r].pc = "idle" /\ \A o \in With("PENDING") : offer[o].bidder # b
    /\ ask' = [ask EXCEPT ![r] = [pc |-> "create", id |-> 0,
                                  row |-> [status |-> "PENDING", bidder |-> b]]]
    /\ UNCHANGED <<offer, lapsed, before, overlap, offerFaults>>

SaveCreated(r) ==
    /\ ask[r].pc = "create"
    /\ \E o \in With("none") :
         /\ \A p \in 1..(o - 1) : p \notin With("none")
         /\ SaveOffer(o, ask[r].row)
         /\ before' = [before EXCEPT ![o] = With("ACCEPTED")]
    /\ EndAsk(r)
    /\ UNCHANGED <<lapsed, overlap, offerFaults>>

(* Mutant: only cancelled offers are refused.                              *)
MayAcceptAnyState(o) == offer[o].status \notin {"none", "CANCELLED"}

(* accept: a pending row; one past its time is saved as expired instead.   *)
MayAccept(o) == offer[o].status = "PENDING"

Rivals(r, o) == {ask[q].id : q \in {p \in Request \ {r} : Accepting(p)}} \ {o}
Accept(r, o) ==
    /\ ask[r].pc = "idle" /\ MayAccept(o)
    /\ IF o \in lapsed THEN Opened(r, "expire", o) /\ UNCHANGED overlap
       ELSE /\ Opened(r, "accept", o)
            /\ overlap' = overlap \cup ({o} \X Rivals(r, o)) \cup (Rivals(r, o) \X {o})
    /\ UNCHANGED <<offer, lapsed, before, offerFaults>>

SaveExpired(r) ==
    /\ ask[r].pc = "expire"
    /\ SaveOffer(ask[r].id, [ask[r].row EXCEPT !.status = "EXPIRED"]) /\ EndAsk(r)
    /\ UNCHANGED <<lapsed, before, overlap, offerFaults>>

SaveAccepted(r) ==
    /\ ask[r].pc = "accept"
    /\ SaveOffer(ask[r].id, [ask[r].row EXCEPT !.status = "ACCEPTED"])
    /\ ask' = [ask EXCEPT ![r].pc = "close"]
    /\ UNCHANGED <<lapsed, before, overlap, offerFaults>>

(* The second statement expires every other offer still pending.           *)
CloseOthers(r) ==
    /\ ask[r].pc = "close"
    /\ offer' = [o \in OfferId |-> IF o \in With("PENDING") \ {ask[r].id}
                                 THEN [offer[o] EXCEPT !.status = "EXPIRED"] ELSE offer[o]]
    /\ EndAsk(r)
    /\ UNCHANGED <<lapsed, before, overlap, offerFaults>>

Cancel(r, o) ==
    /\ ask[r].pc = "idle" /\ offer[o].status = "PENDING"
    /\ Opened(r, "cancel", o)
    /\ UNCHANGED <<offer, lapsed, before, overlap, offerFaults>>

SaveCancelled(r) ==
    /\ ask[r].pc = "cancel"
    /\ SaveOffer(ask[r].id, [ask[r].row EXCEPT !.status = "CANCELLED"]) /\ EndAsk(r)
    /\ UNCHANGED <<lapsed, before, overlap, offerFaults>>

-----------------------------------------------------------------------------
Lapse(o) ==
    /\ offer[o].status # "none" /\ o \notin lapsed /\ lapsed' = lapsed \cup {o}
    /\ UNCHANGED <<offer, ask, before, overlap, offerFaults>>

(* The contract client or the database throws, or the instance dies.       *)
CutOff(r) ==
    /\ ask[r].pc # "idle" /\ offerFaults < MaxOfferFaults
    /\ offerFaults' = offerFaults + 1 /\ EndAsk(r)
    /\ UNCHANGED <<offer, lapsed, before, overlap>>

Next == \/ \E o \in OfferId : Lapse(o)
        \/ \E r \in Request : \/ \E b \in Bidder : Create(r, b)
                              \/ \E o \in OfferId : Accept(r, o) \/ Cancel(r, o)
                              \/ SaveCreated(r) \/ SaveExpired(r) \/ SaveAccepted(r)
                              \/ CloseOthers(r) \/ SaveCancelled(r) \/ CutOff(r)

Spec == Init /\ [][Next]_offerVars

(* An NFT has two accepted offers only if the second was made after the    *)
(* first was accepted, the two acceptances were in hand at once, or one    *)
(* was cut off before it closed the others.                                *)
OneAcceptance ==
    \A o, p \in With("ACCEPTED") :
        o # p /\ offerFaults = 0 => o \in before[p] \/ p \in before[o] \/ <<o, p>> \in overlap
=============================================================================
