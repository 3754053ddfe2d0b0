----------------------------- MODULE Settlement -----------------------------
(***************************************************************************)
(* Fixed-price sales (with the atomic swap that holds their two legs),     *)
(* NFT-for-NFT trades and bundles of the marketplace_settlement contract.  *)
(*                                                                         *)
(* The rate limiter and the allowlists can only refuse a call, which is a  *)
(* step not taken; the fee a listing is quoted is any amount of Fees, so   *)
(* every fee configuration is covered (FeeMath has the computation).       *)
(***************************************************************************)
EXTENDS Payout

CONSTANTS
    Prices,       \* the prices asked
    MaxDuration,  \* the contract's 30 days
    MaxSales, MaxTrades, MaxBundles,  \* bounds: deals of each kind ever made
    AllowRescue   \* whether the admin ever enables emergency withdrawal

ASSUME SettlementAssumption ==
    /\ Prices \subseteq Nat
    /\ MaxDuration \in Nat
    /\ MaxSales \in Nat /\ MaxTrades \in Nat /\ MaxBundles \in Nat
    /\ AllowRescue \in BOOLEAN

VARIABLES
    sales,      \* SaleTransactionStore: sale records, by id
    swaps,      \* the AtomicSwap of each sale, by the same id
    trades,     \* TradeTransactionStore
    bundles,    \* BundleTransactionStore
    emergency   \* admin_config.emergency_withdrawal_enabled

dealVars == <<sales, swaps, trades, bundles>>
vars     == <<ledgerVars, dealVars, termVars, volume, emergency>>

SaleState  == {"Pending", "Executed", "Cancelled"}
TradeState == {"Pending", "Funded", "Executed", "Cancelled"}
SwapState  == {"SellerFunded", "Executed", "Failed"}

Sale   == [seller : User, buyer : SomeUser, nft : NFT, price : Nat, fee : Int,
           shares : [User -> Int], expires_at : Nat, state : SaleState]
Swap   == [buyer : SomeUser, state : SwapState]
Trade  == [initiator : User, counterparty : SomeUser, give : SUBSET NFT,
           want : SUBSET NFT, expires_at : Nat, state : TradeState]
Bundle == [seller : User, buyer : SomeUser, items : SUBSET NFT, price : Nat,
           fee : Int, expires_at : Nat, state : SaleState]

TypeOK ==
    /\ LedgerTypeOK
    /\ PayoutTypeOK
    /\ sales \in Seq(Sale) /\ Len(sales) <= MaxSales
    /\ swaps \in Seq(Swap) /\ Len(swaps) = Len(sales)
    /\ trades \in Seq(Trade) /\ Len(trades) <= MaxTrades
    /\ bundles \in Seq(Bundle) /\ Len(bundles) <= MaxBundles
    /\ emergency \in BOOLEAN

Init ==
    /\ LedgerInit
    /\ PayoutInit
    /\ sales = <<>> /\ swaps = <<>> /\ trades = <<>> /\ bundles = <<>>
    /\ emergency = FALSE

-----------------------------------------------------------------------------
(* Fixed-price sales.  The seller's NFT goes into the swap at listing, the *)
(* buyer's payment and the hand-over follow in a single call.              *)

CreateSale(seller, n, price, fee, d) ==
    /\ Len(sales) < MaxSales
    /\ Admitted(seller, "sales")
    /\ ValidDuration(d, MaxDuration)
    /\ OwnsAll(owner, seller, {n})
    /\ owner' = Give(owner, Market, {n})
    /\ sales' = Append(sales,
           [seller |-> seller, buyer |-> None, nft |-> n, price |-> price,
            fee |-> fee, shares |-> SaleShares(n, price, seller, fee),
            expires_at |-> now + d, state |-> "Pending"])
    /\ swaps' = Append(swaps, [buyer |-> None, state |-> "SellerFunded"])
    /\ UNCHANGED <<gateVars, bal, trades, bundles, termVars, volume, emergency>>

(* Mutant: the split is worked out again when the sale settles.            *)
SettleToday(i, buyer) ==
    LET sale   == sales[i]
        paid   == Pay(bal, buyer, Market, sale.price)
        shares == SaleShares(sale.nft, sale.price, sale.seller, sale.fee)
    IN  /\ Admitted(buyer, "sales")
        /\ sale.state = "Pending"
        /\ ~IsExpired(sale.expires_at)
        /\ swaps[i].buyer = None
        /\ CanPay(bal, buyer, sale.price)
        /\ OwnsAll(owner, Market, {sale.nft})
        /\ CanDistribute(paid, shares, sale.price)
        /\ owner' = Give(owner, buyer, {sale.nft})
        /\ bal' = Distribute(paid, shares, sale.price)
        /\ swaps' = [swaps EXCEPT ![i] = [buyer |-> buyer, state |-> "Executed"]]
        /\ RecordVolume(buyer, sale.fee)
        /\ sales' = [sales EXCEPT ![i].buyer = buyer, ![i].state = "Executed"]
        /\ UNCHANGED <<gateVars, trades, bundles, termVars, emergency>>

(* The payment must be the exact price; it is in escrow before anything is *)
(* paid out, and split as it was fixed at listing time.                    *)
ExecuteSale(i, buyer) ==
    LET sale == sales[i]
        paid == Pay(bal, buyer, Market, sale.price)
    IN  /\ Admitted(buyer, "sales")
        /\ sale.state = "Pending"
        /\ ~IsExpired(sale.expires_at)
        /\ swaps[i].buyer = None
        /\ CanPay(bal, buyer, sale.price)
        /\ OwnsAll(owner, Market, {sale.nft})
        /\ CanDistribute(paid, sale.shares, sale.price)
        /\ owner' = Give(owner, buyer, {sale.nft})
        /\ bal' = Distribute(paid, sale.shares, sale.price)
        /\ swaps' = [swaps EXCEPT ![i] = [buyer |-> buyer, state |-> "Executed"]]
        /\ RecordVolume(buyer, sale.fee)
        /\ sales' = [sales EXCEPT ![i].buyer = buyer, ![i].state = "Executed"]
        /\ UNCHANGED <<gateVars, trades, bundles, termVars, emergency>>

(* Mutant: a blocked seller is not refunded.                               *)
RefundAdmitted(i) ==
    /\ sales[i].seller \notin blocked
    /\ OwnsAll(owner, Market, {sales[i].nft})
    /\ owner' = Give(owner, sales[i].seller, {sales[i].nft})
    /\ UNCHANGED bal

(* refund_escrow_holdings: every holding on record goes back to its        *)
(* holder, out of what the contract owns at that moment.                   *)
RefundHoldings(i) ==
    LET sale == sales[i]
        buyer == swaps[i].buyer
    IN  /\ OwnsAll(owner, Market, {sale.nft})
        /\ owner' = Give(owner, sale.seller, {sale.nft})
        /\ IF buyer = None
           THEN UNCHANGED bal
           ELSE /\ CanPay(bal, Market, sale.price)
                /\ bal' = Pay(bal, Market, buyer, sale.price)

CancelSale(i, canceller) ==
    /\ NotPaused
    /\ sales[i].seller = canceller
    /\ sales[i].state = "Pending"
    /\ RefundHoldings(i)
    /\ swaps' = [swaps EXCEPT ![i].state = "Failed"]
    /\ sales' = [sales EXCEPT ![i].state = "Cancelled"]
    /\ UNCHANGED <<gateVars, trades, bundles, termVars, volume, emergency>>

(* The administrator's hatch: the holdings are returned whatever the state *)
(* of the sale, and neither the sale nor its swap is told.                 *)
EmergencyWithdraw(i) ==
    /\ emergency
    /\ RefundHoldings(i)
    /\ UNCHANGED <<gateVars, dealVars, termVars, volume, emergency>>

SetEmergencyWithdrawal(enabled) ==
    /\ AllowRescue
    /\ emergency' = enabled
    /\ UNCHANGED <<ledgerVars, dealVars, termVars, volume>>

-----------------------------------------------------------------------------
(* Trades.  The initiator's side is escrowed with the offer, the other     *)
(* side on acceptance; both move in one call.                              *)

CreateTrade(u, counterparty, give, want, d) ==
    /\ Len(trades) < MaxTrades
    /\ Admitted(u, "trades")
    /\ give \cup want # {}
    /\ ValidDuration(d, MaxDuration)
    /\ OwnsAll(owner, u, give)
    /\ owner' = Give(owner, Market, give)
    /\ trades' = Append(trades,
           [initiator |-> u, counterparty |-> counterparty, give |-> give,
            want |-> want, expires_at |-> now + d, state |-> "Pending"])
    /\ UNCHANGED <<gateVars, bal, sales, swaps, bundles, termVars, volume,
                   emergency>>

(* Mutant: the offer's state is not looked at.                             *)
AcceptAnyState(i, u) ==
    LET trade == trades[i]
    IN  /\ Admitted(u, "trades")
        /\ ~IsExpired(trade.expires_at)
        /\ trade.counterparty \in {None, u}
        /\ trade.initiator # u
        /\ OwnsAll(owner, u, trade.want)
        /\ owner' = Give(owner, Market, trade.want)
        /\ trades' = [trades EXCEPT ![i].counterparty = u, ![i].state = "Funded"]
        /\ UNCHANGED <<gateVars, bal, sales, swaps, bundles, termVars, volume,
                       emergency>>

AcceptTrade(i, u) ==
    LET trade == trades[i]
    IN  /\ Admitted(u, "trades")
        /\ trade.state = "Pending"
        /\ ~IsExpired(trade.expires_at)
        /\ trade.counterparty \in {None, u}
        /\ trade.initiator # u
        /\ OwnsAll(owner, u, trade.want)
        /\ owner' = Give(owner, Market, trade.want)
        /\ trades' = [trades EXCEPT ![i].counterparty = u, ![i].state = "Funded"]
        /\ UNCHANGED <<gateVars, bal, sales, swaps, bundles, termVars, volume,
                       emergency>>

(* Mutant: the second release works on what was read before the first.     *)
ReleaseStale(to1, S1, to2, S2) ==
    /\ OwnsAll(owner, Market, S1 \cup S2)
    /\ owner' = Give(owner, to2, S2)

(* Two releases in a row: the second finds the items the first left.       *)
ReleaseBoth(to1, S1, to2, S2) ==
    LET mid == Give(owner, to1, S1)
    IN  /\ OwnsAll(owner, Market, S1)
        /\ OwnsAll(mid, Market, S2)
        /\ owner' = Give(mid, to2, S2)

ExecuteTrade(i, executor) ==
    LET trade == trades[i]
    IN  /\ Admitted(executor, "trades")
        /\ trade.state = "Funded"
        /\ ~IsExpired(trade.expires_at)
        /\ executor \in {trade.initiator, trade.counterparty}
        /\ ReleaseBoth(trade.counterparty, trade.give,
                       trade.initiator, trade.want)
        /\ trades' = [trades EXCEPT ![i].state = "Executed"]
        /\ UNCHANGED <<gateVars, bal, sales, swaps, bundles, termVars, volume,
                       emergency>>

(* Mutant: whatever is not an open offer is unwound.                       *)
CancelAnyState(i, canceller) ==
    LET trade == trades[i]
    IN  /\ NotPaused
        /\ canceller \in {trade.initiator, trade.counterparty}
        /\ \/ /\ trade.state = "Pending"
              /\ ReleaseBoth(trade.initiator, trade.give, trade.initiator, {})
           \/ /\ trade.state # "Pending" /\ trade.counterparty # None
              /\ ReleaseBoth(trade.initiator, trade.give,
                             trade.counterparty, trade.want)
        /\ trades' = [trades EXCEPT ![i].state = "Cancelled"]
        /\ UNCHANGED <<gateVars, bal, sales, swaps, bundles, termVars, volume,
                       emergency>>

CancelTrade(i, canceller) ==
    LET trade == trades[i]
    IN  /\ NotPaused
        /\ canceller \in {trade.initiator, trade.counterparty}
        /\ \/ /\ trade.state = "Pending"
              /\ ReleaseBoth(trade.initiator, trade.give, trade.initiator, {})
           \/ /\ trade.state = "Funded"
              /\ ReleaseBoth(trade.initiator, trade.give,
                             trade.counterparty, trade.want)
        /\ trades' = [trades EXCEPT ![i].state = "Cancelled"]
        /\ UNCHANGED <<gateVars, bal, sales, swaps, bundles, termVars, volume,
                       emergency>>

-----------------------------------------------------------------------------
(* Bundles.  Only the fee is fixed at listing time: the royalties and the  *)
(* fee recipient are those in force when the bundle is bought.             *)

CreateBundle(seller, items, price, fee, d) ==
    /\ Len(bundles) < MaxBundles
    /\ Admitted(seller, "bundles")
    /\ items # {}
    /\ price > 0
    /\ ValidDuration(d, MaxDuration)
    /\ OwnsAll(owner, seller, items)
    /\ owner' = Give(owner, Market, items)
    /\ bundles' = Append(bundles,
           [seller |-> seller, buyer |-> None, items |-> items, price |-> price,
            fee |-> fee, expires_at |-> now + d, state |-> "Pending"])
    /\ UNCHANGED <<gateVars, bal, sales, swaps, trades, termVars, volume,
                   emergency>>

ExecuteBundle(i, buyer) ==
    LET bundle == bundles[i]
        paid   == Pay(bal, buyer, Market, bundle.price)
        shares == BundleShares(bundle.items, bundle.price, bundle.seller,
                               bundle.fee)
    IN  /\ Admitted(buyer, "bundles")
        /\ bundle.state = "Pending"
        /\ ~IsExpired(bundle.expires_at)
        /\ CanPay(bal, buyer, bundle.price)
        /\ CanDistribute(paid, shares, bundle.price)
        /\ bal' = Distribute(paid, shares, bundle.price)
        /\ OwnsAll(owner, Market, bundle.items)
        /\ owner' = Give(owner, buyer, bundle.items)
        /\ bundles' = [bundles EXCEPT ![i].buyer = buyer, ![i].state = "Executed"]
        /\ RecordVolume(buyer, bundle.fee)
        /\ UNCHANGED <<gateVars, sales, swaps, trades, termVars, emergency>>

CancelBundle(i, canceller) ==
    LET bundle == bundles[i]
    IN  /\ NotPaused
        /\ bundle.seller = canceller
        /\ bundle.state = "Pending"
        /\ OwnsAll(owner, Market, bundle.items)
        /\ owner' = Give(owner, canceller, bundle.items)
        /\ bundles' = [bundles EXCEPT ![i].state = "Cancelled"]
        /\ UNCHANGED <<gateVars, bal, sales, swaps, trades, termVars, volume,
                       emergency>>

-----------------------------------------------------------------------------
SaleNext ==
    \/ \E u \in User, n \in NFT, price \in Prices, fee \in Fees, d \in 1..MaxDuration :
          CreateSale(u, n, price, fee, d)
    \/ \E i \in DOMAIN sales, u \in User : ExecuteSale(i, u) \/ CancelSale(i, u)
    \/ \E i \in DOMAIN sales : EmergencyWithdraw(i)

TradeNext ==
    \/ \E u \in User, c \in SomeUser, give, want \in SUBSET NFT, d \in 1..MaxDuration :
          CreateTrade(u, c, give, want, d)
    \/ \E i \in DOMAIN trades, u \in User :
          AcceptTrade(i, u) \/ ExecuteTrade(i, u) \/ CancelTrade(i, u)

BundleNext ==
    \/ \E u \in User, items \in SUBSET NFT, price \in Prices, fee \in Fees,
          d \in 1..MaxDuration : CreateBundle(u, items, price, fee, d)
    \/ \E i \in DOMAIN bundles, u \in User :
          ExecuteBundle(i, u) \/ CancelBundle(i, u)

AdminNext ==
    \/ TermsNext /\ UNCHANGED <<dealVars, emergency>>
    \/ \E enabled \in BOOLEAN : SetEmergencyWithdrawal(enabled)

(* A step around the contract leaves the contract's own storage alone.     *)
Around == Surroundings /\ UNCHANGED <<dealVars, termVars, volume, emergency>>

Next == SaleNext \/ TradeNext \/ BundleNext \/ AdminNext \/ Around

Spec == Init /\ [][Next]_vars
=============================================================================
