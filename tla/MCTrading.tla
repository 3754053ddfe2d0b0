----------------------------- MODULE MCTrading -----------------------------
(* What the backend's tables must get right about trades, and small        *)
(* instances of them.                                                      *)
EXTENDS Trading

CONSTANTS u1, u2, u3

OneLot == {{l} : l \in Lot}
Rivals == {[bidder |-> u1, amount |-> 1], [bidder |-> u2, amount |-> 2],
           [bidder |-> u3, amount |-> 2]}
OneSeller == [l \in Lot |-> u3]

(* A transaction is shown completed only if the contract reported it done, *)
(* in whatever order execution, retries, cancellations and the saving of   *)
(* old copies came.                                                        *)
CompletedWasReported ==
    \A id \in DOMAIN tx : tx[id].state = "COMPLETED" => "done" \in answered[id]

(* A listing is sold, an auction settled, only by a transaction about it   *)
(* whose execution was answered; natively paid ones only by success, and   *)
(* an auction only to the buyer of that transaction.                       *)
SoldByATransaction ==
    \A l \in Lot : lot[l].status \in {"SOLD", "SETTLED"} =>
        \E id \in DOMAIN tx :
            /\ l \in {tx[id].lot, tx[id].item}
            /\ answered[id] # {}
            /\ tx[id].kind = "native" => "done" \in answered[id]
            /\ l \in Auction => lot[l].winner = tx[id].buyer

(* listing.service.ts: "Update listing status if transaction completed".   *)
SoldIsPaid ==
    \A l \in Listing : lot[l].status = "SOLD" =>
        \E id \in DOMAIN tx : l \in {tx[id].lot, tx[id].item} /\ "done" \in answered[id]

(* The seller made a highest bid that meets the reserve: a purchase by the *)
(* seller is refused, so that settleAuction throws every time it comes.    *)
LedBySeller(a) ==
    /\ a \in Auction /\ ReserveMet(a)
    /\ \E b \in bids[a] : b.amount = Best(a) /\ b.bidder = Seller[a]

(* A lot past its time does not stay on offer, unless it is an auction led *)
(* by its own seller: the crons close it, however requests, rollbacks and  *)
(* failures interfere.                                                     *)
LotsClose == \A l \in Lot : l \in over ~> lot[l].status # "ACTIVE" \/ LedBySeller(l)

(* By hand, false of the code: an auction its seller leads stays ACTIVE.   *)
AllLotsClose == \A l \in Lot : l \in over ~> lot[l].status # "ACTIVE"
=============================================================================
