---------------------------- MODULE AuctionProps ----------------------------
(***************************************************************************)
(* What the auction engine must guarantee, and the mapping under which its *)
(* lots implement Escrow.                                                  *)
(***************************************************************************)
EXTENDS Auction

Pending  == {i \in DOMAIN auctions : auctions[i].state = "Pending"}

Leads(i, u) == auctions[i].highest_bidder = u

(* What the bidders have in pending auctions.                              *)
LeadingBids == SumFunction([i \in Pending |-> auctions[i].highest_bid])

(* The refinement mapping: each pending auction holds its lot for its      *)
(* seller, who keeps a claim to the token when the auction is closed.      *)
LotsOf(S) ==
    {[deal |-> <<"auction", i>>, item |-> auctions[i].nft,
      from |-> auctions[i].seller] : i \in S}
Lots     == LotsOf(Pending)
Claims   == LotsOf(DOMAIN auctions \ Pending)
LotDeals == {"auction"} \X (1..MaxAuctions)
Ended    == {<<"auction", i>> : i \in DOMAIN auctions \ Pending}

E == INSTANCE Escrow WITH Party <- User, Item <- NFT, Deal <- LotDeals,
                          escrow <- Lots, ended <- Ended, claims <- Claims

(* A lot enters escrow from its owner and leaves once, with the end of its *)
(* own auction; only a seller who cancels a closed auction breaks that.     *)
ImplementsEscrow == E!Spec

(* The bid book, the lead and the contract's purse agree: of all the bids  *)
(* on record only the leading one is unrefunded, the purse is the sum of   *)
(* the leading bids of the pending auctions, and so a closed auction has   *)
(* nothing left to withdraw.                                               *)
BooksBalance ==
    /\ \A i \in DOMAIN auctions, u \in User :
          Outstanding(i, u) =
              IF Leads(i, u) /\ auctions[i].state # "Cancelled"
              THEN auctions[i].highest_bid ELSE 0
    /\ bal[Market] = LeadingBids

(* An auction can always be brought to an end: once its time is over and   *)
(* while auctions are not paused, ending it goes through for any fee, and  *)
(* whatever royalties the creator has set meanwhile, unless its lot has    *)
(* strayed.                                                                *)
CanBeEnded ==
    \A i \in Pending :
        (/\ now > auctions[i].end_time
         /\ ~IsModulePaused("auctions")
         /\ auctions[i].nft \notin strayed) =>
            \/ \A fee \in Fees : ENABLED EndSold(i, fee)
            \/ ENABLED EndUnsold(i)

(* Losing costs nothing: a leader who is displaced, or whose auction is    *)
(* called off or misses its reserve, gets the whole bid back in that call. *)
LosersMadeWhole ==
    [][\A i \in Pending, u \in User :
          /\ Leads(i, u)
          /\ auctions'[i].highest_bidder # u \/ auctions'[i].state = "Cancelled"
          => bal'[u] = bal[u] + auctions[i].highest_bid]_vars

(* The hammer: a sale happens after the closing time, to the leader, at    *)
(* the leading bid, which meets the reserve and the starting price; the    *)
(* winner gets the lot and exactly the bid is paid out.                    *)
HammerIsFair ==
    [][\A i \in Pending : auctions'[i].state = "Executed" =>
          LET auction == auctions[i]
          IN  /\ now > auction.end_time
              /\ auction.highest_bid >= auction.reserve
              /\ auction.highest_bid >= auction.starting
              /\ owner'[auction.nft] = auction.highest_bidder
              /\ bal[Market] - bal'[Market] = auction.highest_bid]_vars

(* Everybody gets time to answer: whenever the lead changes, the auction   *)
(* stays open for another Window, and no call ever brings the closing      *)
(* time forward.                                                           *)
TimeToAnswer ==
    [][\A i \in DOMAIN auctions :
          /\ auctions'[i].end_time >= auctions[i].end_time
          /\ auctions'[i].highest_bidder # auctions[i].highest_bidder =>
                auctions'[i].end_time >= now + Window]_vars

(* Reading the Dutch price never lets it overshoot: each reading lies      *)
(* between the previous one and the reserve, however often it is read, and *)
(* at the closing time the reserve is reached.                             *)
DutchNeverOvershoots ==
    [][\A i \in DOMAIN dutch :
          LET old   == dutch[i].current
              new   == dutch'[i].current
              floor == auctions[i].reserve
          IN  /\ old >= floor => old >= new /\ new >= floor
              /\ old <= floor => old <= new /\ new <= floor
              /\ (dutch'[i].updated >= auctions[i].end_time
                  /\ dutch'[i].updated > dutch[i].updated) => new = floor]_vars

-----------------------------------------------------------------------------
(* Statements of the repository that the code does not keep.               *)

(* "Escrow the lot for the lifetime of the auction" (create_auction): a    *)
(* seller who cancels again an auction of theirs that is closed takes its  *)
(* token out of the auction it is in now.                                  *)
LotEscrowedWhilePending ==
    \A i \in Pending : owner[auctions[i].nft] = Market

(* "the price descends on a schedule and the first buyer takes it"         *)
(* (validate_auction_params).                                              *)
FirstDutchBuyerTakesIt ==
    \A i \in DOMAIN auctions :
        auctions[i].type = "Dutch" /\ auctions[i].highest_bidder # None
            => auctions[i].state # "Pending"
=============================================================================
