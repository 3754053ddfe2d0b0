------------------------------ MODULE Auction ------------------------------
(***************************************************************************)
(* The auction engine of the marketplace_settlement contract.  The lot is  *)
(* escrowed with the auction, a direct bid with the bid; a displaced       *)
(* leader is repaid in the very call that displaces them.  With the        *)
(* commit-reveal scheme switched on, a sealed bid moves no money until it  *)
(* is revealed.                                                            *)
(***************************************************************************)
EXTENDS Payout, SequencesExt

CONSTANTS
    Types,        \* the types of auction sellers create
    Starts,       \* starting prices
    Reserves,     \* reserve prices
    Amounts,      \* the amounts bid
    Increments,   \* the bid increments sellers ask for
    MinIncrementBps, MaxDuration, Window, RevealPeriod,  \* AuctionConfig
    CommitReveal, \* AuctionConfig.commit_reveal_enabled = 1
    MaxAuctions,  \* bound: auctions ever created
    MaxBids       \* bound: bids in the book of one auction

AuctionType == {"English", "Dutch"}

ASSUME AuctionAssumption ==
    /\ Types \subseteq AuctionType
    /\ Starts \subseteq Nat /\ Reserves \subseteq Nat
    /\ Amounts \subseteq Nat /\ Increments \subseteq Nat
    /\ {MinIncrementBps, MaxDuration, Window, RevealPeriod} \subseteq Nat
    /\ CommitReveal \in BOOLEAN
    /\ MaxAuctions \in Nat /\ MaxBids \in Nat

VARIABLES
    auctions,  \* AuctionStore: auction records, by id
    bids,      \* AuctionKey::Bids: the book of each auction
    sealed,    \* the commitments of each auction, by bidder
    dutch,     \* AuctionKey::Dutch: the stored price of each auction
    strayed    \* history: tokens taken out by cancelling a closed auction

auctionVars == <<auctions, bids, sealed, dutch, strayed>>
vars        == <<ledgerVars, auctionVars, termVars, volume>>

AuctionState == {"Pending", "Executed", "Cancelled"}

Listing == [seller : User, nft : NFT, type : AuctionType, starting : Nat,
            reserve : Nat, increment : Nat, highest_bid : Nat,
            highest_bidder : SomeUser, end_time : Nat, state : AuctionState]
Bid     == [bidder : User, amount : Nat, refunded : BOOLEAN]
Promise == [amount : Nat, deadline : Nat]
NoPromise == [amount |-> 0, deadline |-> -1]
Price   == [current : Nat, updated : Nat]

TypeOK ==
    /\ LedgerTypeOK
    /\ PayoutTypeOK
    /\ auctions \in Seq(Listing) /\ Len(auctions) <= MaxAuctions
    /\ bids \in Seq(Seq(Bid)) /\ Len(bids) = Len(auctions)
    /\ sealed \in Seq([User -> Promise \cup {NoPromise}])
    /\ Len(sealed) = Len(auctions)
    /\ dutch \in Seq(Price) /\ Len(dutch) = Len(auctions)
    /\ strayed \subseteq NFT

Init ==
    /\ LedgerInit
    /\ PayoutInit
    /\ auctions = <<>> /\ bids = <<>> /\ sealed = <<>> /\ dutch = <<>>
    /\ strayed = {}

-----------------------------------------------------------------------------
(* The bid book.                                                           *)

Unrefunded(i, u) ==
    {k \in DOMAIN bids[i] : bids[i][k].bidder = u /\ ~bids[i][k].refunded}

Outstanding(i, u) ==
    SumFunctionOnSet([k \in DOMAIN bids[i] |-> bids[i][k].amount], Unrefunded(i, u))

(* refund_all_bids: every unrefunded bid of u in the book is ticked off.   *)
TickOff(i, u) ==
    [k \in DOMAIN bids[i] |->
        [bids[i][k] EXCEPT !.refunded = @ \/ bids[i][k].bidder = u]]

NewBid(u, amount) == [bidder |-> u, amount |-> amount, refunded |-> FALSE]

-----------------------------------------------------------------------------
(* validate_auction_params.  A reserve may lie above the starting price;   *)
(* the increment is measured in basis points of the starting price, and    *)
(* not at all for a Dutch auction.                                         *)
ValidParams(type, starting, d, increment) ==
    /\ starting > 0
    /\ ValidDuration(d, MaxDuration)
    /\ increment > 0
    /\ type # "Dutch" =>
          (increment * Basis) \div starting >= MinIncrementBps

CreateAuction(seller, n, type, starting, reserve, d, increment) ==
    /\ Len(auctions) < MaxAuctions
    /\ Admitted(seller, "auctions")
    /\ OwnsAll(owner, seller, {n})
    /\ ValidParams(type, starting, d, increment)
    /\ owner' = Give(owner, Market, {n})
    /\ auctions' = Append(auctions,
           [seller |-> seller, nft |-> n, type |-> type, starting |-> starting,
            reserve |-> reserve, increment |-> increment, highest_bid |-> 0,
            highest_bidder |-> None, end_time |-> now + d, state |-> "Pending"])
    /\ bids' = Append(bids, <<>>)
    /\ sealed' = Append(sealed, [u \in User |-> NoPromise])
    /\ dutch' = Append(dutch, [current |-> starting, updated |-> now])
    /\ UNCHANGED <<gateVars, bal, strayed, termVars, volume>>

(* validate_bid_amount, on a lot whose starting price and lead are given:  *)
(* strictly above the lead, by the configured percentage of it; the        *)
(* seller's own bid_increment plays no part.                               *)
HighEnough(auction, amount) ==
    /\ amount > auction.highest_bid
    /\ IF auction.highest_bid > 0
       THEN amount >= auction.highest_bid
                      + (auction.highest_bid * MinIncrementBps) \div Basis
       ELSE amount >= auction.starting

(* Mutant: the closing second itself does not extend.                      *)
ExtendedBefore(end) ==
    IF end - now <= Window /\ now < end /\ now + Window > end
    THEN now + Window ELSE end

(* A bid in the last Window seconds, the closing second included, keeps    *)
(* the auction open for another Window.                                    *)
Extended(end) ==
    IF end - now <= Window /\ now + Window > end THEN now + Window ELSE end

MayBid(i, u, amount) ==
    /\ Len(bids[i]) < MaxBids
    /\ Admitted(u, "auctions")
    /\ auctions[i].state = "Pending"
    /\ now <= auctions[i].end_time
    /\ HighEnough(auctions[i], amount)

(* Mutants: the deposits of every auction the account leads or led; the    *)
(* leader forgotten.                                                       *)
DepositsAnywhere(i) ==
    IF auctions[i].highest_bidder = None THEN 0
    ELSE SumFunction([j \in DOMAIN auctions |->
                          Outstanding(j, auctions[i].highest_bidder)])
ForgetLeader(b, i) == b

(* What refund_displaced_bidder pays back to the current leader, and the   *)
(* book it leaves: nothing for a lot without a leader or deposit.          *)
LeadersDeposit(i) ==
    IF auctions[i].highest_bidder = None THEN 0
    ELSE Outstanding(i, auctions[i].highest_bidder)
PayLeader(b, i) ==
    IF auctions[i].highest_bidder = None THEN b
    ELSE Pay(b, Market, auctions[i].highest_bidder, LeadersDeposit(i))

(* A direct bid: paid in, then the displaced leader repaid, then recorded. *)
PlaceBid(i, u, amount) ==
    LET paid == Pay(bal, u, Market, amount)
    IN  /\ MayBid(i, u, amount)
        /\ CanPay(bal, u, amount)
        /\ CanPay(paid, Market, LeadersDeposit(i))
        /\ bal' = PayLeader(paid, i)
        /\ bids' = [bids EXCEPT ![i] =
                       Append(TickOff(i, auctions[i].highest_bidder),
                              NewBid(u, amount))]
        /\ auctions' = [auctions EXCEPT ![i].highest_bid = amount,
                                        ![i].highest_bidder = u,
                                        ![i].end_time = Extended(@)]
        /\ UNCHANGED <<gateVars, owner, sealed, dutch, strayed, termVars, volume>>

(* A sealed bid: the amount in the call must be high enough but is not     *)
(* collected, and the committed amount may be any other.                   *)
PlaceSealedBid(i, u, amount, secret) ==
    /\ CommitReveal
    /\ MayBid(i, u, amount)
    /\ sealed' = [sealed EXCEPT ![i][u] =
                     [amount |-> secret, deadline |-> now + RevealPeriod]]
    /\ bids' = [bids EXCEPT ![i] = Append(@, NewBid(u, amount))]
    /\ auctions' = [auctions EXCEPT ![i].end_time = Extended(@)]
    /\ UNCHANGED <<gateVars, owner, bal, dutch, strayed, termVars, volume>>

(* A revealed bid takes the lead whatever the state of the auction and     *)
(* whatever the lead is, and overwrites the bidder's first bid on record.  *)
RevealBid(i, u) ==
    LET amount == sealed[i][u].amount
        refund == PayLeader(bal, i)
        book   == TickOff(i, auctions[i].highest_bidder)
        mine   == {k \in DOMAIN book : book[k].bidder = u}
    IN  /\ CommitReveal
        /\ Admitted(u, "auctions")
        /\ sealed[i][u] # NoPromise
        /\ now <= sealed[i][u].deadline
        /\ CanPay(bal, Market, LeadersDeposit(i))
        /\ CanPay(refund, u, amount)
        /\ mine # {}
        /\ bal' = Pay(refund, u, Market, amount)
        /\ bids' = [bids EXCEPT ![i] = [book EXCEPT ![Min(mine)] = NewBid(u, amount)]]
        /\ auctions' = [auctions EXCEPT ![i].highest_bid = amount,
                                        ![i].highest_bidder = u]
        /\ UNCHANGED <<gateVars, owner, sealed, dutch, strayed, termVars, volume>>

CleanupExpiredCommitments ==
    /\ sealed' = [i \in DOMAIN sealed |-> [u \in User |->
                     IF now > sealed[i][u].deadline THEN NoPromise
                     ELSE sealed[i][u]]]
    /\ UNCHANGED <<ledgerVars, auctions, bids, dutch, strayed, termVars, volume>>

-----------------------------------------------------------------------------
(* Settling and calling off.                                               *)

(* Mutant: the reserve is not looked at.                                   *)
AnyLeader(auction) == auction.highest_bidder # None

Endable(i) ==
    /\ ~IsModulePaused("auctions")
    /\ now > auctions[i].end_time
    /\ auctions[i].state = "Pending"

ReserveMet(auction) ==
    auction.highest_bidder # None /\ auction.highest_bid >= auction.reserve

(* Anyone may end it.  Fee, royalties and fee recipient are today's.       *)
EndSold(i, fee) ==
    LET auction == auctions[i]
        shares  == SaleShares(auction.nft, auction.highest_bid, auction.seller, fee)
    IN  /\ Endable(i)
        /\ ReserveMet(auction)
        /\ OwnsAll(owner, Market, {auction.nft})
        /\ owner' = Give(owner, auction.highest_bidder, {auction.nft})
        /\ CanDistribute(bal, shares, auction.highest_bid)
        /\ bal' = Distribute(bal, shares, auction.highest_bid)
        /\ RecordVolume(auction.highest_bidder, shares[recipient])
        /\ auctions' = [auctions EXCEPT ![i].state = "Executed"]
        /\ UNCHANGED <<gateVars, bids, sealed, dutch, strayed, termVars>>

(* Mutant: the lot stays behind.                                           *)
UndoKeepsLot(i) ==
    /\ bal' = PayLeader(bal, i)
    /\ bids' = [bids EXCEPT ![i] = TickOff(i, auctions[i].highest_bidder)]
    /\ auctions' = [auctions EXCEPT ![i].state = "Cancelled"]
    /\ UNCHANGED <<gateVars, owner, sealed, dutch, strayed, termVars, volume>>

(* The deposits of the leader and the lot go back; a leader without any    *)
(* deposit on record makes the call fail.                                  *)
Undo(i) ==
    LET auction == auctions[i]
        leader  == auction.highest_bidder
    IN  /\ leader # None => Unrefunded(i, leader) # {}
        /\ CanPay(bal, Market, LeadersDeposit(i))
        /\ bal' = PayLeader(bal, i)
        /\ bids' = [bids EXCEPT ![i] = TickOff(i, leader)]
        /\ OwnsAll(owner, Market, {auction.nft})
        /\ owner' = Give(owner, auction.seller, {auction.nft})
        /\ auctions' = [auctions EXCEPT ![i].state = "Cancelled"]
        /\ UNCHANGED <<gateVars, sealed, dutch, strayed, termVars, volume>>

EndUnsold(i) == Endable(i) /\ ~ReserveMet(auctions[i]) /\ Undo(i)

(* Mutant: the auction's state is not looked at.                           *)
CancelAgain(i, canceller) ==
    /\ ~IsModulePaused("auctions")
    /\ auctions[i].seller = canceller
    /\ Undo(i)

CancelAuctionWithRefund(i, canceller) ==
    /\ ~IsModulePaused("auctions")
    /\ auctions[i].seller = canceller
    /\ auctions[i].state = "Pending"
    /\ Undo(i)

(* cancel_transaction "auction": refused once there is a bid, whatever the *)
(* state; the token is taken out of what the contract owns at that moment, *)
(* be it in custody for this auction or, once it is closed, for any later  *)
(* deal.                                                                   *)
CancelAuction(i, canceller) ==
    LET auction == auctions[i]
    IN  /\ NotPaused
        /\ auction.seller = canceller
        /\ auction.highest_bid <= 0
        /\ OwnsAll(owner, Market, {auction.nft})
        /\ owner' = Give(owner, canceller, {auction.nft})
        /\ auctions' = [auctions EXCEPT ![i].state = "Cancelled"]
        /\ strayed' = IF auction.state = "Pending" THEN strayed
                      ELSE strayed \cup {auction.nft}
        /\ UNCHANGED <<gateVars, bal, bids, sealed, dutch, termVars, volume>>

WithdrawLosingBid(i, u) ==
    LET auction == auctions[i]
    IN  /\ ~IsModulePaused("auctions")
        /\ auction.state # "Pending"
        /\ ~(auction.highest_bidder = u /\ auction.state = "Executed")
        /\ Unrefunded(i, u) # {}
        /\ CanPay(bal, Market, Outstanding(i, u))
        /\ bal' = Pay(bal, Market, u, Outstanding(i, u))
        /\ bids' = [bids EXCEPT ![i] = TickOff(i, u)]
        /\ UNCHANGED <<gateVars, owner, auctions, sealed, dutch, strayed, termVars, volume>>

-----------------------------------------------------------------------------
(* get_dutch_auction_price moves the stored price along the line from the  *)
(* price and time of the last reading to the reserve at the closing time;  *)
(* the division truncates towards zero, in either direction.  No bid looks *)
(* at it.                                                                  *)
TowardsZero(a, b) == IF a >= 0 THEN a \div b ELSE -((-a) \div b)

(* Mutant: the line is followed past its end.                              *)
Unbounded(t0, t1, p0, p1) ==
    IF now <= t0 \/ t1 <= t0 THEN p0
    ELSE p0 - TowardsZero((p0 - p1) * (now - t0), t1 - t0)

TimeWeighted(t0, t1, p0, p1) ==
    IF now <= t0 THEN p0
    ELSE IF now >= t1 THEN p1
    ELSE p0 - TowardsZero((p0 - p1) * (now - t0), t1 - t0)

GetDutchAuctionPrice(i) ==
    /\ auctions[i].type = "Dutch"
    /\ dutch' = [dutch EXCEPT ![i] =
          [current |-> TimeWeighted(dutch[i].updated, auctions[i].end_time,
                                    dutch[i].current, auctions[i].reserve),
           updated |-> now]]
    /\ UNCHANGED <<ledgerVars, auctions, bids, sealed, strayed, termVars, volume>>

-----------------------------------------------------------------------------
BidNext == \E i \in DOMAIN auctions, u \in User :
    \/ \E amount \in Amounts : PlaceBid(i, u, amount)
    \/ \E amount, secret \in Amounts : PlaceSealedBid(i, u, amount, secret)
    \/ RevealBid(i, u)
    \/ WithdrawLosingBid(i, u)

SellerNext ==
    \/ \E u \in User, n \in NFT, type \in Types, starting \in Starts, reserve \in Reserves,
          d \in 1..MaxDuration, increment \in Increments :
              CreateAuction(u, n, type, starting, reserve, d, increment)
    \/ \E i \in DOMAIN auctions, u \in User :
          CancelAuction(i, u) \/ CancelAuctionWithRefund(i, u)

AnyoneNext ==
    \/ \E i \in DOMAIN auctions :
          \/ \E fee \in Fees : EndSold(i, fee)
          \/ EndUnsold(i)
          \/ GetDutchAuctionPrice(i)
    \/ CleanupExpiredCommitments

Around ==
    \/ Surroundings /\ UNCHANGED <<auctionVars, termVars, volume>>
    \/ TermsNext /\ UNCHANGED auctionVars

Next == BidNext \/ SellerNext \/ AnyoneNext \/ Around

Spec == Init /\ [][Next]_vars
=============================================================================
