---------------------------- MODULE Marketplace ----------------------------
(***************************************************************************)
(* The whole marketplace_settlement contract (lib.rs, settlement_core.rs): *)
(* sales, trades, bundles and auctions in one contract.  They have their   *)
(* own tables, and share everything else: the items in custody, the purse, *)
(* royalties and fee recipient, the pause and the blocklist.               *)
(***************************************************************************)
EXTENDS AuctionProps

CONSTANTS
    Prices,       \* the prices asked for listings and bundles
    MaxDealTime,  \* the contract's 30 days for sales, trades and bundles
    MaxSales, MaxTrades, MaxBundles,  \* bounds: deals of each kind ever made
    AllowRescue   \* whether the admin ever enables emergency withdrawal

VARIABLES sales, swaps, trades, bundles, emergency

(* With its lemmas: the proofs about the whole contract cite them.         *)
Settle == INSTANCE SettlementProofs WITH MaxDuration <- MaxDealTime

ASSUME MarketAssumption ==
    /\ Prices \subseteq Nat
    /\ MaxDealTime \in Nat
    /\ MaxSales \in Nat /\ MaxTrades \in Nat /\ MaxBundles \in Nat
    /\ AllowRescue \in BOOLEAN

dealTables == <<sales, swaps, trades, bundles, emergency>>
marketVars == <<ledgerVars, termVars, volume, auctionVars, dealTables>>

MarketInit == Init /\ Settle!Init

(* A call is of one kind of deal and leaves the tables of the other alone. *)
MarketNext ==
    \/ Settle!Next /\ UNCHANGED auctionVars
    \/ Next /\ UNCHANGED dealTables

MarketSpec == MarketInit /\ [][MarketNext]_marketVars

-----------------------------------------------------------------------------
(* What is in custody, of every kind of deal together.                     *)
Custodian == INSTANCE Escrow WITH
        Party <- User, Item <- NFT, Deal <- Settle!Deals \cup LotDeals,
        escrow <- Settle!escrow \cup Lots, ended <- Settle!ended \cup Ended,
        claims <- Claims

(* The whole contract keeps the one promise about items: an item enters    *)
(* custody from its owner and leaves with its whole deal, once.  What does *)
(* take an item out of another deal, of any kind, is a claim from an       *)
(* auction that is closed, and nothing else.                               *)
KeepsPromise == Custodian!Spec

(* So does every call made while the hatch is shut, even if it was open    *)
(* before.                                                                 *)
StepsKeepPromise ==
    [][~emergency => Custodian!Next \/ UNCHANGED Custodian!vars]_marketVars

(* A deal that was executed or cancelled stays exactly as it was, and none *)
(* is forgotten.                                                           *)
DealsStayClosed ==
    [][/\ Settle!Frozen(sales, sales')
       /\ Settle!Frozen(trades, trades')
       /\ Settle!Frozen(bundles, bundles')
       /\ Settle!Frozen(auctions, auctions')]_marketVars

(* With the hatch shut, the purse of the whole contract moves with the     *)
(* leading bids of its pending auctions: what a sale or bundle takes in it *)
(* gives out in the same call, and it touches no bidder's deposit.         *)
PurseFollowsBids ==
    [][~emergency => bal'[Market] - bal[Market] = LeadingBids' - LeadingBids]_marketVars

(* Tokens are alike in the instances that TLC explores.                    *)
Symmetric == Permutations(NFT)
=============================================================================
