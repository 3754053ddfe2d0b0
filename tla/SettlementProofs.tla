-------------------------- MODULE SettlementProofs --------------------------
(***************************************************************************)
(* Sales, trades and bundles are well typed, implement Escrow, leave what  *)
(* is closed alone, settle as agreed and conserve money, for any users,    *)
(* tokens, prices, fees, royalties and bounds.                             *)
(***************************************************************************)
EXTENDS SettlementProps, PayoutProofs

-----------------------------------------------------------------------------
(* Type correctness, action by action.  The parts of the state an action   *)
(* leaves alone keep their types; the lemmas say so once.                  *)

SalesTyped ==
    /\ sales \in Seq(Sale) /\ Len(sales) <= MaxSales
    /\ swaps \in Seq(Swap) /\ Len(swaps) = Len(sales)
TradesTyped  == trades \in Seq(Trade) /\ Len(trades) <= MaxTrades
BundlesTyped == bundles \in Seq(Bundle) /\ Len(bundles) <= MaxBundles
GatesTyped   == now \in Nat /\ pause \in PauseInfo /\ blocked \subseteq User
TermsTyped   == royalty \in [NFT -> Royalty] /\ recipient \in User
AssetsTyped  == owner \in [NFT -> Account] /\ bal \in [Account -> Nat]
VolumeTyped  == volume \in [User -> Int]

LEMMA TypeParts ==
    TypeOK <=> /\ SalesTyped /\ TradesTyped /\ BundlesTyped
               /\ GatesTyped /\ TermsTyped /\ AssetsTyped
               /\ VolumeTyped /\ emergency \in BOOLEAN
BY DEF TypeOK, LedgerTypeOK, PayoutTypeOK, SalesTyped, TradesTyped,
       BundlesTyped, GatesTyped, TermsTyped, AssetsTyped, VolumeTyped

LEMMA PartsPrimed ==
    ASSUME SalesTyped', TradesTyped', BundlesTyped', GatesTyped', TermsTyped',
           AssetsTyped', VolumeTyped', (emergency \in BOOLEAN)'
    PROVE  TypeOK'
BY DEF TypeOK, LedgerTypeOK, PayoutTypeOK, SalesTyped, TradesTyped,
       BundlesTyped, GatesTyped, TermsTyped, AssetsTyped, VolumeTyped

LEMMA Kept ==
    ASSUME TypeOK
    PROVE  /\ UNCHANGED <<sales, swaps>> => SalesTyped'
           /\ UNCHANGED trades => TradesTyped'
           /\ UNCHANGED bundles => BundlesTyped'
           /\ UNCHANGED gateVars => GatesTyped'
           /\ UNCHANGED termVars => TermsTyped'
           /\ UNCHANGED <<owner, bal>> => AssetsTyped'
           /\ UNCHANGED volume => VolumeTyped'
           /\ UNCHANGED emergency => (emergency \in BOOLEAN)'
BY TypeParts DEF SalesTyped, TradesTyped, BundlesTyped, GatesTyped, TermsTyped,
       AssetsTyped, VolumeTyped, gateVars, termVars

LEMMA CreateSaleType ==
    ASSUME TypeOK, NEW u \in User, NEW n \in NFT, NEW price \in Prices,
           NEW fee \in Fees, NEW d \in 1..MaxDuration,
           CreateSale(u, n, price, fee, d)
    PROVE  TypeOK'
<1>1. SalesTyped'
  <2> DEFINE sale == [seller |-> u, buyer |-> None, nft |-> n, price |-> price,
                 fee |-> fee, shares |-> SaleShares(n, price, u, fee),
                 expires_at |-> now + d, state |-> "Pending"]
             swap == [buyer |-> None, state |-> "SellerFunded"]
  <2>1. price \in Nat /\ fee \in Int /\ d \in Nat /\ now \in Nat
    BY TypeParts, SettlementAssumption, PayoutAssumption DEF GatesTyped
  <2>2. SaleShares(n, price, u, fee) \in [User -> Int]
    BY <2>1, SaleSharesType DEF TypeOK
  <2>3. sale \in Sale
    BY <2>1, <2>2 DEF Sale, SomeUser, SaleState
  <2>4. swap \in Swap
    BY DEF Swap, SomeUser, SwapState
  <2> HIDE DEF sale, swap
  <2>5. sales' = Append(sales, sale) /\ swaps' = Append(swaps, swap)
    BY DEF CreateSale, sale, swap
  <2>6. /\ sales \in Seq(Sale) /\ swaps \in Seq(Swap)
        /\ Len(swaps) = Len(sales) /\ Len(sales) < MaxSales
    BY TypeParts DEF SalesTyped, CreateSale
  <2> QED BY <2>3, <2>4, <2>5, <2>6, Extend, SettlementAssumption DEF SalesTyped
<1>2. AssetsTyped'
  BY TypeParts, GiveType DEF CreateSale, AssetsTyped, Account
<1> QED BY <1>1, <1>2, Kept, PartsPrimed DEF CreateSale

LEMMA ExecuteSaleType ==
    ASSUME TypeOK, NEW i \in DOMAIN sales, NEW u \in User, ExecuteSale(i, u)
    PROVE  TypeOK'
<1> DEFINE sale == sales[i]
           paid == Pay(bal, u, Market, sale.price)
<1>1. sale \in Sale /\ i \in DOMAIN swaps /\ swaps[i] \in Swap
  BY TypeParts DEF SalesTyped
<1>2. sale.price \in Nat /\ sale.fee \in Int /\ sale.nft \in NFT
  BY <1>1 DEF Sale
<1>3. SalesTyped'
  <2> DEFINE sold == [sale EXCEPT !.buyer = u, !.state = "Executed"]
             swap == [buyer |-> u, state |-> "Executed"]
  <2>1. sold \in Sale
    BY <1>1 DEF Sale, SomeUser, SaleState
  <2>2. swap \in Swap
    BY DEF Swap, SomeUser, SwapState
  <2>3. sales' = [sales EXCEPT ![i] = sold] /\ swaps' = [swaps EXCEPT ![i] = swap]
    BY <1>1 DEF ExecuteSale
  <2> HIDE DEF sold, swap
  <2> QED BY <1>1, <2>1, <2>2, <2>3, Replace, TypeParts DEF SalesTyped
<1>4. AssetsTyped'
  <2>1. paid \in [Account -> Nat]
    BY <1>2, PayType, TypeParts DEF ExecuteSale, AssetsTyped, Account
  <2>2. bal' \in [Account -> Nat]
    BY <1>2, <2>1, DistributeType DEF ExecuteSale
  <2>3. owner' \in [NFT -> Account]
    BY TypeParts, GiveType DEF ExecuteSale, AssetsTyped, Account
  <2> QED BY <2>2, <2>3 DEF AssetsTyped
<1>5. VolumeTyped'
  BY <1>2, TypeParts DEF ExecuteSale, RecordVolume, VolumeTyped
<1> QED BY <1>3, <1>4, <1>5, Kept, PartsPrimed DEF ExecuteSale

LEMMA RefundType ==
    ASSUME TypeOK, NEW i \in DOMAIN sales, RefundHoldings(i)
    PROVE  AssetsTyped'
<1>1. sales[i] \in Sale /\ swaps[i] \in Swap
  BY TypeParts DEF SalesTyped
<1>2. /\ sales[i].seller \in User /\ sales[i].price \in Nat
      /\ swaps[i].buyer \in SomeUser
  BY <1>1 DEF Sale, Swap
<1>3. owner' \in [NFT -> Account]
  BY <1>2, TypeParts, GiveType DEF RefundHoldings, AssetsTyped, Account
<1>4. bal' \in [Account -> Nat]
  <2>1. CASE swaps[i].buyer = None
    BY <2>1, TypeParts DEF RefundHoldings, AssetsTyped
  <2>2. CASE swaps[i].buyer # None
    <3>1. swaps[i].buyer \in Account /\ Market \in Account
      BY <1>2, <2>2 DEF SomeUser, Account
    <3> QED BY <1>2, <2>2, <3>1, PayType, TypeParts DEF RefundHoldings, AssetsTyped
  <2> QED BY <2>1, <2>2
<1> QED BY <1>3, <1>4 DEF AssetsTyped

LEMMA CancelSaleType ==
    ASSUME TypeOK, NEW i \in DOMAIN sales, NEW u \in User, CancelSale(i, u)
    PROVE  TypeOK'
<1>1. sales[i] \in Sale /\ i \in DOMAIN swaps /\ swaps[i] \in Swap
  BY TypeParts DEF SalesTyped
<1>2. SalesTyped'
  <2> DEFINE sale == [sales[i] EXCEPT !.state = "Cancelled"]
             swap == [swaps[i] EXCEPT !.state = "Failed"]
  <2>1. sale \in Sale /\ swap \in Swap
    BY <1>1 DEF Sale, SaleState, Swap, SwapState
  <2>2. sales' = [sales EXCEPT ![i] = sale] /\ swaps' = [swaps EXCEPT ![i] = swap]
    BY <1>1 DEF CancelSale
  <2> HIDE DEF sale, swap
  <2> QED BY <1>1, <2>1, <2>2, Replace, TypeParts DEF SalesTyped
<1>3. AssetsTyped'
  BY RefundType DEF CancelSale
<1> QED BY <1>2, <1>3, Kept, PartsPrimed DEF CancelSale

LEMMA EmergencyType ==
    ASSUME TypeOK, NEW i \in DOMAIN sales, EmergencyWithdraw(i)
    PROVE  TypeOK'
<1>1. AssetsTyped'
  BY RefundType DEF EmergencyWithdraw
<1> QED BY <1>1, Kept, PartsPrimed DEF EmergencyWithdraw, dealVars

LEMMA CreateTradeType ==
    ASSUME TypeOK, NEW u \in User, NEW c \in SomeUser, NEW give \in SUBSET NFT,
           NEW want \in SUBSET NFT, NEW d \in 1..MaxDuration,
           CreateTrade(u, c, give, want, d)
    PROVE  TypeOK'
<1>1. TradesTyped'
  <2> DEFINE trade == [initiator |-> u, counterparty |-> c, give |-> give,
                 want |-> want, expires_at |-> now + d, state |-> "Pending"]
  <2>1. now + d \in Nat
    BY TypeParts, SettlementAssumption DEF GatesTyped
  <2>2. trade \in Trade
    BY <2>1 DEF Trade, TradeState
  <2>3. trades' = Append(trades, trade) /\ Len(trades) < MaxTrades
    BY DEF CreateTrade
  <2> HIDE DEF trade
  <2> QED BY <2>2, <2>3, Extend, TypeParts, SettlementAssumption DEF TradesTyped
<1>2. AssetsTyped'
  BY TypeParts, GiveType DEF CreateTrade, AssetsTyped, Account
<1> QED BY <1>1, <1>2, Kept, PartsPrimed DEF CreateTrade

LEMMA ReleaseType ==
    ASSUME TypeOK, NEW u \in Account, NEW v \in Account, NEW S, NEW T,
           ReleaseBoth(u, S, v, T)
    PROVE  owner' \in [NFT -> Account]
BY TypeParts, GiveType DEF ReleaseBoth, AssetsTyped

LEMMA AcceptTradeType ==
    ASSUME TypeOK, NEW i \in DOMAIN trades, NEW u \in User, AcceptTrade(i, u)
    PROVE  TypeOK'
<1>1. trades[i] \in Trade
  BY TypeParts DEF TradesTyped
<1>2. TradesTyped'
  <2> DEFINE trade == [trades[i] EXCEPT !.counterparty = u, !.state = "Funded"]
  <2>1. trade \in Trade
    BY <1>1 DEF Trade, TradeState, SomeUser
  <2>2. trades' = [trades EXCEPT ![i] = trade]
    BY <1>1 DEF AcceptTrade
  <2> HIDE DEF trade
  <2> QED BY <2>1, <2>2, Replace, TypeParts DEF TradesTyped
<1>3. AssetsTyped'
  BY TypeParts, GiveType DEF AcceptTrade, AssetsTyped, Account
<1> QED BY <1>2, <1>3, Kept, PartsPrimed DEF AcceptTrade

(* A trade that executes or is cancelled gives every item to one of its    *)
(* two parties; a funded trade has both.                                   *)
FundedHasBoth ==
    \A i \in DOMAIN trades :
        trades[i].state = "Funded" => trades[i].counterparty \in User

LEMMA CloseTradeType ==
    ASSUME TypeOK, FundedHasBoth, NEW i \in DOMAIN trades, NEW u \in User,
           ExecuteTrade(i, u) \/ CancelTrade(i, u)
    PROVE  TypeOK'
<1>1. trades[i] \in Trade
  BY TypeParts DEF TradesTyped
<1>2. trades[i].initiator \in Account
  BY <1>1 DEF Trade, Account
<1>3. ASSUME NEW state \in TradeState,
             trades' = [trades EXCEPT ![i].state = state]
      PROVE  TradesTyped'
  <2> DEFINE trade == [trades[i] EXCEPT !.state = state]
  <2>1. trade \in Trade
    BY <1>1 DEF Trade
  <2>2. trades' = [trades EXCEPT ![i] = trade]
    BY <1>1, <1>3
  <2> HIDE DEF trade
  <2> QED BY <2>1, <2>2, Replace, TypeParts DEF TradesTyped
<1>4. owner' \in [NFT -> Account]
  <2>1. CASE trades[i].state = "Funded"
    <3>1. trades[i].counterparty \in Account
      BY <2>1 DEF FundedHasBoth, Account
    <3> QED BY <1>2, <2>1, <3>1, ReleaseType DEF ExecuteTrade, CancelTrade
  <2>2. CASE trades[i].state # "Funded"
    BY <1>2, <2>2, ReleaseType DEF ExecuteTrade, CancelTrade
  <2> QED BY <2>1, <2>2
<1>5. TradesTyped'
  BY <1>3 DEF ExecuteTrade, CancelTrade, TradeState
<1>6. AssetsTyped'
  BY <1>4, TypeParts DEF ExecuteTrade, CancelTrade, AssetsTyped
<1> QED BY <1>5, <1>6, Kept, PartsPrimed DEF ExecuteTrade, CancelTrade

LEMMA CreateBundleType ==
    ASSUME TypeOK, NEW u \in User, NEW items \in SUBSET NFT, NEW price \in Prices,
           NEW fee \in Fees, NEW d \in 1..MaxDuration,
           CreateBundle(u, items, price, fee, d)
    PROVE  TypeOK'
<1>1. BundlesTyped'
  <2> DEFINE bundle == [seller |-> u, buyer |-> None, items |-> items,
                 price |-> price, fee |-> fee, expires_at |-> now + d,
                 state |-> "Pending"]
  <2>1. price \in Nat /\ fee \in Int /\ now + d \in Nat
    BY TypeParts, SettlementAssumption, PayoutAssumption DEF GatesTyped
  <2>2. bundle \in Bundle
    BY <2>1 DEF Bundle, SaleState, SomeUser
  <2>3. bundles' = Append(bundles, bundle) /\ Len(bundles) < MaxBundles
    BY DEF CreateBundle
  <2> HIDE DEF bundle
  <2> QED BY <2>2, <2>3, Extend, TypeParts, SettlementAssumption DEF BundlesTyped
<1>2. AssetsTyped'
  BY TypeParts, GiveType DEF CreateBundle, AssetsTyped, Account
<1> QED BY <1>1, <1>2, Kept, PartsPrimed DEF CreateBundle

LEMMA ExecuteBundleType ==
    ASSUME TypeOK, NEW i \in DOMAIN bundles, NEW u \in User, ExecuteBundle(i, u)
    PROVE  TypeOK'
<1> DEFINE bundle == bundles[i]
           paid == Pay(bal, u, Market, bundle.price)
<1>1. bundle \in Bundle
  BY TypeParts DEF BundlesTyped
<1>2. bundle.price \in Nat /\ bundle.fee \in Int
  BY <1>1 DEF Bundle
<1>3. BundlesTyped'
  <2> DEFINE sold == [bundle EXCEPT !.buyer = u, !.state = "Executed"]
  <2>1. sold \in Bundle
    BY <1>1 DEF Bundle, SomeUser, SaleState
  <2>2. bundles' = [bundles EXCEPT ![i] = sold]
    BY <1>1 DEF ExecuteBundle
  <2> HIDE DEF sold
  <2> QED BY <2>1, <2>2, Replace, TypeParts DEF BundlesTyped
<1>4. AssetsTyped'
  <2>1. paid \in [Account -> Nat]
    BY <1>2, PayType, TypeParts DEF ExecuteBundle, AssetsTyped, Account
  <2>2. bal' \in [Account -> Nat]
    BY <1>2, <2>1, DistributeType DEF ExecuteBundle
  <2>3. owner' \in [NFT -> Account]
    BY TypeParts, GiveType DEF ExecuteBundle, AssetsTyped, Account
  <2> QED BY <2>2, <2>3 DEF AssetsTyped
<1>5. VolumeTyped'
  BY <1>2, TypeParts DEF ExecuteBundle, RecordVolume, VolumeTyped
<1> QED BY <1>3, <1>4, <1>5, Kept, PartsPrimed DEF ExecuteBundle

LEMMA CancelBundleType ==
    ASSUME TypeOK, NEW i \in DOMAIN bundles, NEW u \in User, CancelBundle(i, u)
    PROVE  TypeOK'
<1>1. bundles[i] \in Bundle
  BY TypeParts DEF BundlesTyped
<1>2. BundlesTyped'
  <2> DEFINE bundle == [bundles[i] EXCEPT !.state = "Cancelled"]
  <2>1. bundle \in Bundle
    BY <1>1 DEF Bundle, SaleState
  <2>2. bundles' = [bundles EXCEPT ![i] = bundle]
    BY <1>1 DEF CancelBundle
  <2> HIDE DEF bundle
  <2> QED BY <2>1, <2>2, Replace, TypeParts DEF BundlesTyped
<1>3. AssetsTyped'
  BY TypeParts, GiveType DEF CancelBundle, AssetsTyped, Account
<1> QED BY <1>2, <1>3, Kept, PartsPrimed DEF CancelBundle

LEMMA AdminType ==
    ASSUME TypeOK, AdminNext
    PROVE  TypeOK' /\ UNCHANGED dealVars
<1>1. CASE TermsNext /\ UNCHANGED <<dealVars, emergency>>
  <2>1. TermsTyped'
    <3>1. CASE \E n \in NFT, u \in User, bps \in RoyaltyBps : SetRoyaltyInfo(n, u, bps)
      <4>1. PICK n \in NFT, u \in User, bps \in RoyaltyBps : SetRoyaltyInfo(n, u, bps)
        BY <3>1
      <4>2. [creator |-> u, bps |-> bps] \in Royalty
        BY PayoutAssumption DEF Royalty, SomeUser
      <4> QED BY <4>1, <4>2, TypeParts DEF SetRoyaltyInfo, TermsTyped
    <3>2. CASE \E u \in Recipients : SetFeeRecipient(u)
      BY <3>2, PayoutAssumption, TypeParts DEF SetFeeRecipient, TermsTyped
    <3> QED BY <1>1, <3>1, <3>2 DEF TermsNext
  <2>2. UNCHANGED <<ledgerVars, volume>>
    BY <1>1 DEF TermsNext, SetRoyaltyInfo, SetFeeRecipient
  <2> QED BY <1>1, <2>1, <2>2, Kept, PartsPrimed DEF ledgerVars, gateVars, dealVars
<1>2. CASE \E enabled \in BOOLEAN : SetEmergencyWithdrawal(enabled)
  <2>1. (emergency \in BOOLEAN)'
    BY <1>2 DEF SetEmergencyWithdrawal
  <2>2. UNCHANGED <<ledgerVars, dealVars, termVars, volume>>
    BY <1>2 DEF SetEmergencyWithdrawal
  <2> QED BY <2>1, <2>2, Kept, PartsPrimed DEF ledgerVars, gateVars, dealVars
<1> QED BY <1>1, <1>2 DEF AdminNext

LEMMA AroundType ==
    ASSUME TypeOK, Around
    PROVE  TypeOK' /\ UNCHANGED dealVars
<1>1. GatesTyped' /\ AssetsTyped'
  <2>1. CASE Tick
    BY <2>1, TypeParts DEF Tick, GatesTyped, AssetsTyped
  <2>2. CASE \E n \in NFT, u \in User : TransferOutside(n, u)
    BY <2>2, TypeParts DEF TransferOutside, GatesTyped, AssetsTyped, gateVars, Account
  <2>3. CASE \E p \in PauseInfos : SetPause(p)
    BY <2>3, TypeParts, LedgerAssumption DEF SetPause, GatesTyped, AssetsTyped
  <2>4. CASE \E B \in BlockSets : SetBlocked(B)
    BY <2>4, TypeParts, LedgerAssumption DEF SetBlocked, GatesTyped, AssetsTyped
  <2> QED BY <2>1, <2>2, <2>3, <2>4 DEF Around, Surroundings
<1> QED BY <1>1, Kept, PartsPrimed DEF Around, dealVars

LEMMA FundedStep ==
    ASSUME TypeOK, FundedHasBoth, Next
    PROVE  FundedHasBoth'
<1> USE DEF FundedHasBoth
<1> trades \in Seq(Trade)
  BY TypeParts DEF TradesTyped
<1>1. CASE UNCHANGED trades
  BY <1>1
<1>2. ASSUME NEW u \in User, NEW c \in SomeUser, NEW give \in SUBSET NFT,
             NEW want \in SUBSET NFT, NEW d \in 1..MaxDuration,
             CreateTrade(u, c, give, want, d)
      PROVE  FundedHasBoth'
  <2> DEFINE trade == [initiator |-> u, counterparty |-> c, give |-> give,
                 want |-> want, expires_at |-> now + d, state |-> "Pending"]
  <2>1. trades' = Append(trades, trade)
    BY <1>2 DEF CreateTrade
  <2>2. SUFFICES ASSUME NEW j \in DOMAIN trades', trades'[j].state = "Funded"
                 PROVE  trades'[j].counterparty \in User
    OBVIOUS
  <2>3. CASE j \in DOMAIN trades
    BY <2>1, <2>2, <2>3
  <2>4. CASE j = Len(trades) + 1
    BY <2>1, <2>2, <2>4
  <2> QED BY <2>1, <2>3, <2>4
<1>3. ASSUME NEW i \in DOMAIN trades, NEW u \in User,
             AcceptTrade(i, u) \/ ExecuteTrade(i, u) \/ CancelTrade(i, u)
      PROVE  FundedHasBoth'
  <2>1. trades[i] \in Trade
    BY DEF TradesTyped
  <2>2. DOMAIN trades' = DOMAIN trades
    BY <1>3 DEF AcceptTrade, ExecuteTrade, CancelTrade
  <2>3. \A j \in DOMAIN trades : j # i => trades'[j] = trades[j]
    BY <1>3 DEF AcceptTrade, ExecuteTrade, CancelTrade
  <2>4. trades'[i].state = "Funded" => trades'[i].counterparty \in User
    BY <1>3, <2>1 DEF AcceptTrade, ExecuteTrade, CancelTrade, Trade
  <2> QED BY <2>2, <2>3, <2>4
<1>4. SaleNext => UNCHANGED trades
  BY DEF SaleNext, CreateSale, ExecuteSale, CancelSale, EmergencyWithdraw, dealVars
<1>5. BundleNext => UNCHANGED trades
  BY DEF BundleNext, CreateBundle, ExecuteBundle, CancelBundle
<1>6. AdminNext \/ Around => UNCHANGED trades
  BY AdminType, AroundType DEF dealVars
<1> QED BY <1>1, <1>2, <1>3, <1>4, <1>5, <1>6 DEF Next, TradeNext

-----------------------------------------------------------------------------
(* The types hold together with the one fact they lean on: a funded trade  *)
(* names both parties.                                                     *)
IInv == TypeOK /\ FundedHasBoth

LEMMA InitInv == Init => IInv
<1> SUFFICES ASSUME Init PROVE IInv
  OBVIOUS
<1>1. LedgerTypeOK
  BY LedgerAssumption DEF Init, LedgerInit, LedgerTypeOK, Account, Unpaused,
       PauseInfo, ModuleName
<1>2. PayoutTypeOK
  BY PayoutAssumption DEF Init, PayoutInit, PayoutTypeOK, Royalty, SomeUser,
       MaxRoyaltyBps
<1>3. SalesTyped /\ TradesTyped /\ BundlesTyped /\ FundedHasBoth
  BY SettlementAssumption DEF Init, SalesTyped, TradesTyped, BundlesTyped,
       FundedHasBoth
<1> QED BY <1>1, <1>2, <1>3 DEF Init, IInv, TypeOK, SalesTyped, TradesTyped,
       BundlesTyped

LEMMA NextType ==
    ASSUME IInv, Next
    PROVE  TypeOK'
<1> USE DEF IInv
<1>1. CASE SaleNext
  BY <1>1, CreateSaleType, ExecuteSaleType, CancelSaleType, EmergencyType
     DEF SaleNext
<1>2. CASE TradeNext
  BY <1>2, CreateTradeType, AcceptTradeType, CloseTradeType DEF TradeNext
<1>3. CASE BundleNext
  BY <1>3, CreateBundleType, ExecuteBundleType, CancelBundleType DEF BundleNext
<1> QED BY <1>1, <1>2, <1>3, AdminType, AroundType DEF Next

(* Type correctness, whether or not the emergency hatch is ever opened.    *)
THEOREM SettlementTypes == Spec => []TypeOK
<1>1. IInv /\ [Next]_vars => IInv'
  <2>1. ASSUME IInv, UNCHANGED vars PROVE IInv'
    BY <2>1 DEF IInv, TypeOK, LedgerTypeOK, PayoutTypeOK, FundedHasBoth, vars,
         ledgerVars, dealVars, termVars
  <2> QED BY <2>1, NextType, FundedStep DEF IInv
<1> QED BY <1>1, InitInv, PTL DEF Spec, IInv

-----------------------------------------------------------------------------
(* The refinement.  First, what the mapping makes of a step that touches   *)
(* one deal: it is a deposit into that deal, or the end of it.             *)

(* Apart from deal d the step leaves every deal as it was.                 *)
Untouched(d) ==
    \A e \in Deals \ {d} : Holds(e)' = Holds(e) /\ (Over(e)' <=> Over(e))

LEMMA HoldsOwn ==
    ASSUME NEW d \in Deals, NEW h \in Holds(d)
    PROVE  h.deal = d
<1>1. CASE d \in {"sale"} \X (1..MaxSales)
  <2>1. d = <<"sale", d[2]>>
    BY <1>1
  <2>2. h \in SaleHolds(d[2])
    BY <2>1 DEF Holds
  <2> QED BY <2>1, <2>2 DEF SaleHolds, Hold
<1>2. CASE d \in {"trade"} \X (1..MaxTrades)
  <2>1. d = <<"trade", d[2]>>
    BY <1>2
  <2>2. h \in TradeHolds(d[2])
    BY <2>1 DEF Holds
  <2> QED BY <2>1, <2>2 DEF TradeHolds, Hold
<1>3. CASE d \in {"bundle"} \X (1..MaxBundles)
  <2>1. d = <<"bundle", d[2]>>
    BY <1>3
  <2>2. h \in BundleHolds(d[2])
    BY <2>1 DEF Holds
  <2> QED BY <2>1, <2>2 DEF BundleHolds, Hold
<1> QED BY <1>1, <1>2, <1>3 DEF Deals

LEMMA OfIsHolds ==
    ASSUME NEW d \in Deals
    PROVE  E!Of(d) = Holds(d)
BY HoldsOwn DEF E!Of, escrow

LEMMA DepositStep ==
    ASSUME NEW d \in Deals, NEW p \in User, NEW S \in SUBSET NFT,
           ~Over(d), ~Over(d)', Untouched(d),
           Holds(d)' = Holds(d) \cup {[deal |-> d, item |-> n, from |-> p] : n \in S},
           OwnsAll(owner, p, S), owner' = Give(owner, Market, S)
    PROVE  E!Next
<1>1. d \notin ended /\ ended' = ended
  BY DEF ended, Untouched
<1>2. escrow' = escrow \cup {[deal |-> d, item |-> n, from |-> p] : n \in S}
  BY DEF escrow, Untouched
<1>3. E!Deposit(d, p, S)
  BY <1>1, <1>2 DEF E!Deposit, OwnsAll, Give
<1> QED BY <1>3 DEF E!Next

LEMMA EndStep ==
    ASSUME NEW d \in Deals, NEW to \in [User -> User],
           owner' \in [NFT -> Account],
           ~Over(d), Over(d)', Untouched(d), Holds(d)' = {},
           \A h \in Holds(d) : owner'[h.item] = to[h.from],
           \A n \in NFT : (\A h \in Holds(d) : h.item # n) => owner'[n] = owner[n]
    PROVE  E!Next
<1>1. d \notin ended /\ ended' = ended \cup {d}
  BY DEF ended, Untouched
<1>2. escrow' = escrow \ E!Of(d)
  <2>1. \A e \in Deals \ {d} : \A h \in Holds(e) : h.deal # d
    BY HoldsOwn
  <2>2. escrow' = UNION {Holds(e) : e \in Deals \ {d}}
    BY DEF escrow, Untouched
  <2>3. escrow = Holds(d) \cup UNION {Holds(e) : e \in Deals \ {d}}
    BY DEF escrow
  <2>4. \A h \in Holds(d) : h.deal = d
    BY HoldsOwn
  <2>5. \A h \in UNION {Holds(e) : e \in Deals \ {d}} : h.deal # d
    BY <2>1
  <2>6. escrow' = escrow \ Holds(d)
    BY <2>2, <2>3, <2>4, <2>5
  <2> QED BY <2>6, OfIsHolds
<1>3. E!End(d, to)
  BY <1>1, <1>2, OfIsHolds DEF E!End, E!ItemsOf, Account
<1> QED BY <1>3 DEF E!Next

(* One table changed, at one index.                                        *)
SameBut(old, new, i) ==
    \A j \in Nat \ {i} : /\ j \in DOMAIN new <=> j \in DOMAIN old
                         /\ j \in DOMAIN old => new[j] = old[j]

LEMMA SaleLocal ==
    ASSUME NEW i \in 1..MaxSales, SameBut(sales, sales', i),
           UNCHANGED <<trades, bundles>>
    PROVE  Untouched(<<"sale", i>>)
<1> SUFFICES ASSUME NEW e \in Deals \ {<<"sale", i>>}
             PROVE  Holds(e)' = Holds(e) /\ (Over(e)' <=> Over(e))
  BY DEF Untouched
<1>1. CASE e \in {"sale"} \X (1..MaxSales)
  <2>1. PICK j \in 1..MaxSales : e = <<"sale", j>> /\ j # i
    BY <1>1
  <2>2. (j \in DOMAIN sales' <=> j \in DOMAIN sales)
        /\ (j \in DOMAIN sales => sales'[j] = sales[j])
    BY <2>1 DEF SameBut
  <2>3. SaleHolds(j)' = SaleHolds(j) /\ (IsClosed(sales, j)' <=> IsClosed(sales, j))
    BY <2>2 DEF SaleHolds, IsClosed
  <2> QED BY <2>1, <2>3 DEF Holds, Over
<1>2. CASE e \notin {"sale"} \X (1..MaxSales)
  BY <1>2 DEF Deals, Holds, Over, TradeHolds, BundleHolds, IsClosed
<1> QED BY <1>1, <1>2

LEMMA TradeLocal ==
    ASSUME NEW i \in 1..MaxTrades, SameBut(trades, trades', i),
           UNCHANGED <<sales, bundles>>
    PROVE  Untouched(<<"trade", i>>)
<1> SUFFICES ASSUME NEW e \in Deals \ {<<"trade", i>>}
             PROVE  Holds(e)' = Holds(e) /\ (Over(e)' <=> Over(e))
  BY DEF Untouched
<1>1. CASE e \in {"trade"} \X (1..MaxTrades)
  <2>1. PICK j \in 1..MaxTrades : e = <<"trade", j>> /\ j # i
    BY <1>1
  <2>2. (j \in DOMAIN trades' <=> j \in DOMAIN trades)
        /\ (j \in DOMAIN trades => trades'[j] = trades[j])
    BY <2>1 DEF SameBut
  <2>3. TradeHolds(j)' = TradeHolds(j) /\ (IsClosed(trades, j)' <=> IsClosed(trades, j))
    BY <2>2 DEF TradeHolds, IsClosed
  <2> QED BY <2>1, <2>3 DEF Holds, Over
<1>2. CASE e \notin {"trade"} \X (1..MaxTrades)
  BY <1>2 DEF Deals, Holds, Over, SaleHolds, BundleHolds, IsClosed
<1> QED BY <1>1, <1>2

LEMMA BundleLocal ==
    ASSUME NEW i \in 1..MaxBundles, SameBut(bundles, bundles', i),
           UNCHANGED <<sales, trades>>
    PROVE  Untouched(<<"bundle", i>>)
<1> SUFFICES ASSUME NEW e \in Deals \ {<<"bundle", i>>}
             PROVE  Holds(e)' = Holds(e) /\ (Over(e)' <=> Over(e))
  BY DEF Untouched
<1>1. CASE e \in {"bundle"} \X (1..MaxBundles)
  <2>1. PICK j \in 1..MaxBundles : e = <<"bundle", j>> /\ j # i
    BY <1>1
  <2>2. (j \in DOMAIN bundles' <=> j \in DOMAIN bundles)
        /\ (j \in DOMAIN bundles => bundles'[j] = bundles[j])
    BY <2>1 DEF SameBut
  <2>3. BundleHolds(j)' = BundleHolds(j) /\ (IsClosed(bundles, j)' <=> IsClosed(bundles, j))
    BY <2>2 DEF BundleHolds, IsClosed
  <2> QED BY <2>1, <2>3 DEF Holds, Over
<1>2. CASE e \notin {"bundle"} \X (1..MaxBundles)
  BY <1>2 DEF Deals, Holds, Over, SaleHolds, TradeHolds, IsClosed
<1> QED BY <1>1, <1>2

LEMMA SameButAppend ==
    ASSUME NEW S, NEW s \in Seq(S), NEW e
    PROVE  SameBut(s, Append(s, e), Len(s) + 1)
BY DEF SameBut

LEMMA SameButReplace ==
    ASSUME NEW S, NEW s \in Seq(S), NEW i \in DOMAIN s, NEW t,
           DOMAIN t = DOMAIN s, \A j \in DOMAIN s : j # i => t[j] = s[j]
    PROVE  SameBut(s, t, i)
BY DEF SameBut

LEMMA CreateSaleRefines ==
    ASSUME TypeOK, NEW u \in User, NEW n \in NFT, NEW price \in Prices,
           NEW fee \in Fees, NEW d \in 1..MaxDuration,
           CreateSale(u, n, price, fee, d)
    PROVE  E!Next
<1>1. PICK i \in Nat : i = Len(sales) + 1
  BY TypeParts DEF SalesTyped
<1>2. sales \in Seq(Sale) /\ i \in 1..MaxSales /\ i \notin DOMAIN sales
  BY <1>1, TypeParts, SettlementAssumption DEF SalesTyped, CreateSale
<1>3. /\ i \in DOMAIN sales' /\ sales'[i].state = "Pending"
      /\ sales'[i].nft = n /\ sales'[i].seller = u
  BY <1>1, <1>2 DEF CreateSale
<1>4. Untouched(<<"sale", i>>)
  BY <1>1, <1>2, SameButAppend, SaleLocal DEF CreateSale
<1>5. Holds(<<"sale", i>>) = {} /\ ~Over(<<"sale", i>>)
  BY <1>2 DEF Holds, SaleHolds, Over, IsClosed
<1>6. /\ ~Over(<<"sale", i>>)'
      /\ Holds(<<"sale", i>>)' =
            {[deal |-> <<"sale", i>>, item |-> m, from |-> u] : m \in {n}}
  BY <1>3 DEF Holds, SaleHolds, Hold, Over, IsClosed, Closed
<1>7. <<"sale", i>> \in Deals
  BY <1>2 DEF Deals
<1>8. OwnsAll(owner, u, {n}) /\ owner' = Give(owner, Market, {n})
  BY DEF CreateSale
<1> QED BY <1>4, <1>5, <1>6, <1>7, <1>8, DepositStep

(* A pending sale that closes, its token going to party q.                 *)
LEMMA SaleEnds ==
    ASSUME TypeOK, TypeOK', NEW i \in DOMAIN sales, NEW q \in User, NEW sale,
           sales[i].state = "Pending", sale.state \in Closed,
           sales' = [sales EXCEPT ![i] = sale], UNCHANGED <<trades, bundles>>,
           owner' = Give(owner, q, {sales[i].nft})
    PROVE  E!Next
<1>1. sales \in Seq(Sale) /\ i \in 1..MaxSales /\ sales[i] \in Sale
  BY TypeParts, SettlementAssumption DEF SalesTyped
<1>2. /\ DOMAIN sales' = DOMAIN sales /\ sales'[i] = sale
      /\ \A j \in DOMAIN sales : j # i => sales'[j] = sales[j]
  BY <1>1
<1>3. Untouched(<<"sale", i>>)
  BY <1>1, <1>2, SameButReplace, SaleLocal
<1>4. /\ ~Over(<<"sale", i>>)
      /\ Holds(<<"sale", i>>) = {[deal |-> <<"sale", i>>, item |-> m,
                                 from |-> sales[i].seller] : m \in {sales[i].nft}}
  BY DEF Holds, SaleHolds, Hold, Over, IsClosed, Closed
<1>5. Holds(<<"sale", i>>)' = {} /\ Over(<<"sale", i>>)'
  BY <1>2 DEF Holds, SaleHolds, Over, IsClosed, Closed
<1>6. <<"sale", i>> \in Deals /\ owner' \in [NFT -> Account]
  BY <1>1 DEF Deals, TypeOK, LedgerTypeOK
<1>7. sales[i].seller \in User /\ sales[i].nft \in NFT
  BY <1>1 DEF Sale
<1>8. PICK to \in [User -> User] : \A p \in User : to[p] = q
  <2>1. [p \in User |-> q] \in [User -> User]
    OBVIOUS
  <2> QED BY <2>1
<1>9. \A h \in Holds(<<"sale", i>>) : owner'[h.item] = to[h.from]
  BY <1>4, <1>7, <1>8 DEF Give
<1>10. \A n \in NFT : (\A h \in Holds(<<"sale", i>>) : h.item # n)
          => owner'[n] = owner[n]
  <2> SUFFICES ASSUME NEW n \in NFT, \A h \in Holds(<<"sale", i>>) : h.item # n
               PROVE  owner'[n] = owner[n]
    OBVIOUS
  <2>1. n # sales[i].nft
    <3>1. [deal |-> <<"sale", i>>, item |-> sales[i].nft, from |-> sales[i].seller]
             \in Holds(<<"sale", i>>)
      BY <1>4
    <3> QED BY <3>1
  <2> QED BY <2>1 DEF Give
<1> QED BY <1>3, <1>4, <1>5, <1>6, <1>9, <1>10, EndStep

LEMMA ExecuteSaleRefines ==
    ASSUME TypeOK, TypeOK', NEW i \in DOMAIN sales, NEW u \in User,
           ExecuteSale(i, u)
    PROVE  E!Next
<1>1. PICK sale : sale = [sales[i] EXCEPT !.buyer = u, !.state = "Executed"]
  OBVIOUS
<1>2. sales[i] \in Sale
  BY TypeParts DEF SalesTyped
<1>3. sale.state \in Closed
  BY <1>1, <1>2 DEF Closed, Sale
<1>4. sales' = [sales EXCEPT ![i] = sale]
  BY <1>1, <1>2 DEF ExecuteSale
<1> QED BY <1>3, <1>4, SaleEnds DEF ExecuteSale

LEMMA CancelSaleRefines ==
    ASSUME TypeOK, TypeOK', NEW i \in DOMAIN sales, NEW u \in User,
           CancelSale(i, u)
    PROVE  E!Next
<1>1. PICK sale : sale = [sales[i] EXCEPT !.state = "Cancelled"]
  OBVIOUS
<1>2. sales[i] \in Sale
  BY TypeParts DEF SalesTyped
<1>3. sale.state \in Closed
  BY <1>1, <1>2 DEF Closed, Sale
<1>4. sales' = [sales EXCEPT ![i] = sale]
  BY <1>1, <1>2 DEF CancelSale
<1> QED BY <1>3, <1>4, SaleEnds DEF CancelSale, RefundHoldings

LEMMA CreateTradeRefines ==
    ASSUME TypeOK, NEW u \in User, NEW c \in SomeUser, NEW give \in SUBSET NFT,
           NEW want \in SUBSET NFT, NEW d \in 1..MaxDuration,
           CreateTrade(u, c, give, want, d)
    PROVE  E!Next
<1>1. PICK i \in Nat : i = Len(trades) + 1
  BY TypeParts DEF TradesTyped
<1>2. trades \in Seq(Trade) /\ i \in 1..MaxTrades /\ i \notin DOMAIN trades
  BY <1>1, TypeParts, SettlementAssumption DEF TradesTyped, CreateTrade
<1>3. /\ i \in DOMAIN trades' /\ trades'[i].state = "Pending"
      /\ trades'[i].give = give /\ trades'[i].initiator = u
  BY <1>1, <1>2 DEF CreateTrade
<1>4. Untouched(<<"trade", i>>)
  BY <1>1, <1>2, SameButAppend, TradeLocal DEF CreateTrade
<1>5. Holds(<<"trade", i>>) = {} /\ ~Over(<<"trade", i>>)
  BY <1>2 DEF Holds, TradeHolds, Over, IsClosed
<1>6. /\ ~Over(<<"trade", i>>)'
      /\ Holds(<<"trade", i>>)' =
            {[deal |-> <<"trade", i>>, item |-> m, from |-> u] : m \in give}
  BY <1>3 DEF Holds, TradeHolds, Hold, Over, IsClosed, Closed
<1>7. <<"trade", i>> \in Deals
  BY <1>2 DEF Deals
<1>8. OwnsAll(owner, u, give) /\ owner' = Give(owner, Market, give)
  BY DEF CreateTrade
<1> QED BY <1>4, <1>5, <1>6, <1>7, <1>8, DepositStep

LEMMA AcceptTradeRefines ==
    ASSUME TypeOK, NEW i \in DOMAIN trades, NEW u \in User, AcceptTrade(i, u)
    PROVE  E!Next
<1>1. trades \in Seq(Trade) /\ i \in 1..MaxTrades /\ trades[i] \in Trade
  BY TypeParts, SettlementAssumption DEF TradesTyped
<1>2. PICK trade : trade = [trades[i] EXCEPT !.counterparty = u, !.state = "Funded"]
  OBVIOUS
<1>3. trades' = [trades EXCEPT ![i] = trade]
  BY <1>1, <1>2 DEF AcceptTrade
<1>4. /\ DOMAIN trades' = DOMAIN trades /\ trades'[i] = trade
      /\ \A j \in DOMAIN trades : j # i => trades'[j] = trades[j]
  BY <1>1, <1>3
<1>5. /\ trades[i].state = "Pending" /\ trade.state = "Funded"
      /\ trade.give = trades[i].give /\ trade.want = trades[i].want
      /\ trade.initiator = trades[i].initiator /\ trade.counterparty = u
  BY <1>1, <1>2 DEF AcceptTrade, Trade
<1>6. Untouched(<<"trade", i>>)
  BY <1>1, <1>4, SameButReplace, TradeLocal DEF AcceptTrade
<1>7. ~Over(<<"trade", i>>) /\ ~Over(<<"trade", i>>)'
  BY <1>4, <1>5 DEF Over, IsClosed, Closed
<1>8. Holds(<<"trade", i>>)' = Holds(<<"trade", i>>) \cup
          {[deal |-> <<"trade", i>>, item |-> m, from |-> u] : m \in trades[i].want}
  BY <1>4, <1>5 DEF Holds, TradeHolds, Hold
<1>9. <<"trade", i>> \in Deals /\ trades[i].want \in SUBSET NFT
  BY <1>1 DEF Deals, Trade
<1>10. OwnsAll(owner, u, trades[i].want) /\ owner' = Give(owner, Market, trades[i].want)
  BY DEF AcceptTrade
<1> QED BY <1>6, <1>7, <1>8, <1>9, <1>10, DepositStep

(* An open trade that closes: what the initiator put in goes to p, and of  *)
(* a funded one what the counterparty put in goes to q.                    *)
LEMMA TradeEnds ==
    ASSUME TypeOK, TypeOK', NEW i \in DOMAIN trades, NEW trade,
           NEW to \in [User -> User], NEW T,
           trade.state \in Closed,
           \/ trades[i].state = "Pending" /\ T = {}
           \/ trades[i].state = "Funded" /\ T = trades[i].want,
           trades' = [trades EXCEPT ![i] = trade], UNCHANGED <<sales, bundles>>,
           NEW q \in User, T = {} \/ q = to[trades[i].counterparty],
           ReleaseBoth(to[trades[i].initiator], trades[i].give, q, T)
    PROVE  E!Next
<1>1. trades \in Seq(Trade) /\ i \in 1..MaxTrades /\ trades[i] \in Trade
  BY TypeParts, SettlementAssumption DEF TradesTyped
<1>2. /\ DOMAIN trades' = DOMAIN trades /\ trades'[i] = trade
      /\ \A j \in DOMAIN trades : j # i => trades'[j] = trades[j]
  BY <1>1
<1>3. Untouched(<<"trade", i>>)
  BY <1>1, <1>2, SameButReplace, TradeLocal
<1>4. Holds(<<"trade", i>>)' = {} /\ Over(<<"trade", i>>)'
  BY <1>2 DEF Holds, TradeHolds, Over, IsClosed, Closed
<1>5. ~Over(<<"trade", i>>)
  BY DEF Over, IsClosed, Closed
<1>6. Holds(<<"trade", i>>) =
         {[deal |-> <<"trade", i>>, item |-> m, from |-> trades[i].initiator] :
             m \in trades[i].give}
         \cup
         {[deal |-> <<"trade", i>>, item |-> m, from |-> trades[i].counterparty] :
             m \in T}
  BY DEF Holds, TradeHolds, Hold
<1>7. <<"trade", i>> \in Deals /\ owner' \in [NFT -> Account]
  BY <1>1 DEF Deals, TypeOK, LedgerTypeOK
<1>8. /\ trades[i].give \subseteq NFT /\ T \subseteq NFT
      /\ trades[i].initiator \in User
  BY <1>1 DEF Trade
<1>9. \A m \in NFT : owner'[m] = IF m \in T THEN q
                                 ELSE IF m \in trades[i].give
                                      THEN to[trades[i].initiator] ELSE owner[m]
  BY DEF ReleaseBoth, Give
<1>10. \A m \in trades[i].give : m \notin T
  <2> SUFFICES ASSUME NEW m \in trades[i].give, m \in T PROVE FALSE
    OBVIOUS
  <2>1. Give(owner, to[trades[i].initiator], trades[i].give)[m]
           = to[trades[i].initiator]
    BY <1>8 DEF Give
  <2>2. Give(owner, to[trades[i].initiator], trades[i].give)[m] = Market
    BY DEF ReleaseBoth, OwnsAll
  <2> QED BY <1>8, <2>1, <2>2, LedgerAssumption
<1>11. \A h \in Holds(<<"trade", i>>) : owner'[h.item] = to[h.from]
  <2> SUFFICES ASSUME NEW h \in Holds(<<"trade", i>>)
               PROVE  owner'[h.item] = to[h.from]
    OBVIOUS
  <2>1. CASE h.item \in trades[i].give /\ h.from = trades[i].initiator
    BY <1>8, <1>9, <1>10, <2>1
  <2>2. CASE h.item \in T /\ h.from = trades[i].counterparty
    BY <1>8, <1>9, <2>2
  <2> QED BY <1>6, <2>1, <2>2
<1>12. \A n \in NFT : (\A h \in Holds(<<"trade", i>>) : h.item # n)
          => owner'[n] = owner[n]
  <2> SUFFICES ASSUME NEW n \in NFT, \A h \in Holds(<<"trade", i>>) : h.item # n
               PROVE  owner'[n] = owner[n]
    OBVIOUS
  <2>1. n \notin trades[i].give
    <3> SUFFICES ASSUME n \in trades[i].give PROVE FALSE
      OBVIOUS
    <3>1. [deal |-> <<"trade", i>>, item |-> n, from |-> trades[i].initiator]
             \in Holds(<<"trade", i>>)
      BY <1>6
    <3> QED BY <3>1
  <2>2. n \notin T
    <3> SUFFICES ASSUME n \in T PROVE FALSE
      OBVIOUS
    <3>1. [deal |-> <<"trade", i>>, item |-> n, from |-> trades[i].counterparty]
             \in Holds(<<"trade", i>>)
      BY <1>6
    <3> QED BY <3>1
  <2> QED BY <1>9, <2>1, <2>2
<1> QED BY <1>3, <1>4, <1>5, <1>7, <1>11, <1>12, EndStep

LEMMA ExecuteTradeRefines ==
    ASSUME TypeOK, TypeOK', FundedHasBoth, NEW i \in DOMAIN trades,
           NEW u \in User, ExecuteTrade(i, u)
    PROVE  E!Next
<1>1. trades[i] \in Trade /\ trades[i].state = "Funded"
  BY TypeParts DEF TradesTyped, ExecuteTrade
<1>2. trades[i].initiator \in User /\ trades[i].counterparty \in User
  BY <1>1 DEF Trade, FundedHasBoth
<1>3. PICK trade : trade = [trades[i] EXCEPT !.state = "Executed"]
  OBVIOUS
<1>4. trades' = [trades EXCEPT ![i] = trade] /\ trade.state \in Closed
  BY <1>1, <1>3 DEF ExecuteTrade, Trade, Closed
<1>5. PICK to \in [User -> User] :
         /\ to[trades[i].initiator] = trades[i].counterparty
         /\ to[trades[i].counterparty] = trades[i].initiator
  <2> DEFINE swap == [p \in User |-> IF p = trades[i].initiator
                                     THEN trades[i].counterparty
                                     ELSE trades[i].initiator]
  <2>1. swap \in [User -> User]
    BY <1>2
  <2>2. /\ swap[trades[i].initiator] = trades[i].counterparty
        /\ swap[trades[i].counterparty] = trades[i].initiator
    BY <1>2
  <2> HIDE DEF swap
  <2> QED BY <2>1, <2>2
<1>6. ReleaseBoth(to[trades[i].initiator], trades[i].give,
                  trades[i].initiator, trades[i].want)
  BY <1>5 DEF ExecuteTrade
<1>7. UNCHANGED <<sales, bundles>>
  BY DEF ExecuteTrade
<1> QED BY <1>1, <1>2, <1>4, <1>5, <1>6, <1>7, TradeEnds

LEMMA CancelTradeRefines ==
    ASSUME TypeOK, TypeOK', FundedHasBoth, NEW i \in DOMAIN trades,
           NEW u \in User, CancelTrade(i, u)
    PROVE  E!Next
<1>1. trades[i] \in Trade
  BY TypeParts DEF TradesTyped
<1>2. trades[i].initiator \in User
  BY <1>1 DEF Trade
<1>3. PICK trade : trade = [trades[i] EXCEPT !.state = "Cancelled"]
  OBVIOUS
<1>4. trades' = [trades EXCEPT ![i] = trade] /\ trade.state \in Closed
  BY <1>1, <1>3 DEF CancelTrade, Trade, Closed
<1>5. PICK to \in [User -> User] : \A p \in User : to[p] = p
  <2>1. [p \in User |-> p] \in [User -> User]
    OBVIOUS
  <2> QED BY <2>1
<1>6. UNCHANGED <<sales, bundles>>
  BY DEF CancelTrade
<1>7. CASE /\ trades[i].state = "Pending"
           /\ ReleaseBoth(trades[i].initiator, trades[i].give,
                          trades[i].initiator, {})
  BY <1>2, <1>4, <1>5, <1>6, <1>7, TradeEnds
<1>8. CASE /\ trades[i].state = "Funded"
           /\ ReleaseBoth(trades[i].initiator, trades[i].give,
                          trades[i].counterparty, trades[i].want)
  <2>1. trades[i].counterparty \in User
    BY <1>8 DEF FundedHasBoth
  <2> QED BY <1>2, <1>4, <1>5, <1>6, <1>8, <2>1, TradeEnds
<1> QED BY <1>7, <1>8 DEF CancelTrade

LEMMA CreateBundleRefines ==
    ASSUME TypeOK, NEW u \in User, NEW items \in SUBSET NFT, NEW price \in Prices,
           NEW fee \in Fees, NEW d \in 1..MaxDuration,
           CreateBundle(u, items, price, fee, d)
    PROVE  E!Next
<1>1. PICK i \in Nat : i = Len(bundles) + 1
  BY TypeParts DEF BundlesTyped
<1>2. bundles \in Seq(Bundle) /\ i \in 1..MaxBundles /\ i \notin DOMAIN bundles
  BY <1>1, TypeParts, SettlementAssumption DEF BundlesTyped, CreateBundle
<1>3. /\ i \in DOMAIN bundles' /\ bundles'[i].state = "Pending"
      /\ bundles'[i].items = items /\ bundles'[i].seller = u
  BY <1>1, <1>2 DEF CreateBundle
<1>4. Untouched(<<"bundle", i>>)
  BY <1>1, <1>2, SameButAppend, BundleLocal DEF CreateBundle
<1>5. Holds(<<"bundle", i>>) = {} /\ ~Over(<<"bundle", i>>)
  BY <1>2 DEF Holds, BundleHolds, Over, IsClosed
<1>6. /\ ~Over(<<"bundle", i>>)'
      /\ Holds(<<"bundle", i>>)' =
            {[deal |-> <<"bundle", i>>, item |-> m, from |-> u] : m \in items}
  BY <1>3 DEF Holds, BundleHolds, Hold, Over, IsClosed, Closed
<1>7. <<"bundle", i>> \in Deals
  BY <1>2 DEF Deals
<1>8. OwnsAll(owner, u, items) /\ owner' = Give(owner, Market, items)
  BY DEF CreateBundle
<1> QED BY <1>4, <1>5, <1>6, <1>7, <1>8, DepositStep

(* A pending bundle that closes, its tokens going to party q.              *)
LEMMA BundleEnds ==
    ASSUME TypeOK, TypeOK', NEW i \in DOMAIN bundles, NEW q \in User, NEW bundle,
           bundles[i].state = "Pending", bundle.state \in Closed,
           bundles' = [bundles EXCEPT ![i] = bundle], UNCHANGED <<sales, trades>>,
           owner' = Give(owner, q, bundles[i].items)
    PROVE  E!Next
<1>1. bundles \in Seq(Bundle) /\ i \in 1..MaxBundles /\ bundles[i] \in Bundle
  BY TypeParts, SettlementAssumption DEF BundlesTyped
<1>2. /\ DOMAIN bundles' = DOMAIN bundles /\ bundles'[i] = bundle
      /\ \A j \in DOMAIN bundles : j # i => bundles'[j] = bundles[j]
  BY <1>1
<1>3. Untouched(<<"bundle", i>>)
  BY <1>1, <1>2, SameButReplace, BundleLocal
<1>4. /\ ~Over(<<"bundle", i>>)
      /\ Holds(<<"bundle", i>>) = {[deal |-> <<"bundle", i>>, item |-> m,
                                   from |-> bundles[i].seller] : m \in bundles[i].items}
  BY DEF Holds, BundleHolds, Hold, Over, IsClosed, Closed
<1>5. Holds(<<"bundle", i>>)' = {} /\ Over(<<"bundle", i>>)'
  BY <1>2 DEF Holds, BundleHolds, Over, IsClosed, Closed
<1>6. <<"bundle", i>> \in Deals /\ owner' \in [NFT -> Account]
  BY <1>1 DEF Deals, TypeOK, LedgerTypeOK
<1>7. bundles[i].seller \in User /\ bundles[i].items \subseteq NFT
  BY <1>1 DEF Bundle
<1>8. PICK to \in [User -> User] : \A p \in User : to[p] = q
  <2>1. [p \in User |-> q] \in [User -> User]
    OBVIOUS
  <2> QED BY <2>1
<1>9. \A h \in Holds(<<"bundle", i>>) : owner'[h.item] = to[h.from]
  BY <1>4, <1>7, <1>8 DEF Give
<1>10. \A n \in NFT : (\A h \in Holds(<<"bundle", i>>) : h.item # n)
          => owner'[n] = owner[n]
  <2> SUFFICES ASSUME NEW n \in NFT, \A h \in Holds(<<"bundle", i>>) : h.item # n
               PROVE  owner'[n] = owner[n]
    OBVIOUS
  <2>1. n \notin bundles[i].items
    <3> SUFFICES ASSUME n \in bundles[i].items PROVE FALSE
      OBVIOUS
    <3>1. [deal |-> <<"bundle", i>>, item |-> n, from |-> bundles[i].seller]
             \in Holds(<<"bundle", i>>)
      BY <1>4
    <3> QED BY <3>1
  <2> QED BY <2>1 DEF Give
<1> QED BY <1>3, <1>4, <1>5, <1>6, <1>9, <1>10, EndStep

LEMMA ExecuteBundleRefines ==
    ASSUME TypeOK, TypeOK', NEW i \in DOMAIN bundles, NEW u \in User,
           ExecuteBundle(i, u)
    PROVE  E!Next
<1>1. PICK bundle : bundle = [bundles[i] EXCEPT !.buyer = u, !.state = "Executed"]
  OBVIOUS
<1>2. bundles[i] \in Bundle
  BY TypeParts DEF BundlesTyped
<1>3. bundle.state \in Closed
  BY <1>1, <1>2 DEF Closed, Bundle
<1>4. bundles' = [bundles EXCEPT ![i] = bundle]
  BY <1>1, <1>2 DEF ExecuteBundle
<1> QED BY <1>3, <1>4, BundleEnds DEF ExecuteBundle

LEMMA CancelBundleRefines ==
    ASSUME TypeOK, TypeOK', NEW i \in DOMAIN bundles, NEW u \in User,
           CancelBundle(i, u)
    PROVE  E!Next
<1>1. PICK bundle : bundle = [bundles[i] EXCEPT !.state = "Cancelled"]
  OBVIOUS
<1>2. bundles[i] \in Bundle
  BY TypeParts DEF BundlesTyped
<1>3. bundle.state \in Closed
  BY <1>1, <1>2 DEF Closed, Bundle
<1>4. bundles' = [bundles EXCEPT ![i] = bundle]
  BY <1>1, <1>2 DEF CancelBundle
<1> QED BY <1>3, <1>4, BundleEnds DEF CancelBundle

-----------------------------------------------------------------------------
(* Every step of the contract is a step of the escrow, or none.            *)

(* As long as the administrator never opens the emergency hatch.           *)
HatchShut == emergency = FALSE

LEMMA DealsStill ==
    ASSUME UNCHANGED dealVars
    PROVE  UNCHANGED <<escrow, ended>>
<1>1. \A d \in Deals : Holds(d)' = Holds(d) /\ (Over(d)' <=> Over(d))
  BY DEF dealVars, Holds, SaleHolds, TradeHolds, BundleHolds, Over, IsClosed
<1> QED BY <1>1 DEF escrow, ended

LEMMA AroundRefines ==
    ASSUME Around
    PROVE  E!Next \/ UNCHANGED E!vars
<1>1. UNCHANGED <<escrow, ended>>
  BY DealsStill DEF Around
<1>2. CASE \E n \in NFT, u \in User : TransferOutside(n, u)
  <2>1. PICK n \in NFT, u \in User : TransferOutside(n, u)
    BY <1>2
  <2>2. E!Elsewhere(n, u)
    BY <1>1, <2>1 DEF E!Elsewhere, TransferOutside
  <2> QED BY <2>2 DEF E!Next
<1>3. CASE UNCHANGED owner
  BY <1>1, <1>3 DEF E!vars
<1> QED BY <1>2, <1>3 DEF Around, Surroundings, Tick, SetPause, SetBlocked

LEMMA HatchStaysShut ==
    ASSUME AllowRescue = FALSE, HatchShut, TypeOK, Next
    PROVE  HatchShut'
<1>1. SaleNext \/ TradeNext \/ BundleNext \/ Around => UNCHANGED emergency
  BY DEF SaleNext, CreateSale, ExecuteSale, CancelSale, EmergencyWithdraw,
         TradeNext, CreateTrade, AcceptTrade, ExecuteTrade, CancelTrade,
         BundleNext, CreateBundle, ExecuteBundle, CancelBundle, Around
<1>2. AdminNext => UNCHANGED emergency
  BY DEF AdminNext, SetEmergencyWithdrawal
<1> QED BY <1>1, <1>2 DEF Next, HatchShut

LEMMA NextRefines ==
    ASSUME IInv, TypeOK', HatchShut, Next
    PROVE  E!Next \/ UNCHANGED E!vars
<1> USE DEF IInv
<1>1. CASE SaleNext
  <2>1. \A i \in DOMAIN sales : ~EmergencyWithdraw(i)
    BY DEF EmergencyWithdraw, HatchShut
  <2> QED BY <1>1, <2>1, CreateSaleRefines, ExecuteSaleRefines,
             CancelSaleRefines DEF SaleNext
<1>2. CASE TradeNext
  BY <1>2, CreateTradeRefines, AcceptTradeRefines, ExecuteTradeRefines,
     CancelTradeRefines DEF TradeNext
<1>3. CASE BundleNext
  BY <1>3, CreateBundleRefines, ExecuteBundleRefines, CancelBundleRefines
     DEF BundleNext
<1>4. CASE AdminNext
  <2>1. UNCHANGED owner
    BY <1>4 DEF AdminNext, TermsNext, SetRoyaltyInfo, SetFeeRecipient,
         SetEmergencyWithdrawal, ledgerVars
  <2> QED BY <1>4, <2>1, AdminType, DealsStill DEF E!vars
<1>5. CASE Around
  BY <1>5, AroundRefines
<1> QED BY <1>1, <1>2, <1>3, <1>4, <1>5 DEF Next

LEMMA InitRefines ==
    ASSUME Init
    PROVE  E!Init
<1>1. DOMAIN sales = {} /\ DOMAIN trades = {} /\ DOMAIN bundles = {}
  BY DEF Init
<1>2. \A d \in Deals : Holds(d) = {} /\ ~Over(d)
  BY <1>1 DEF Deals, Holds, SaleHolds, TradeHolds, BundleHolds, Over, IsClosed
<1>3. escrow = {} /\ ended = {}
  BY <1>2 DEF escrow, ended
<1> QED BY <1>3 DEF Init, LedgerInit, E!Init

(* Sales, trades and bundles implement the escrow as long as the emergency *)
(* hatch stays shut.                                                       *)
THEOREM SettlementImplementsEscrow ==
    ASSUME AllowRescue = FALSE
    PROVE  Spec => ImplementsEscrow
<1>1. Init => IInv /\ HatchShut /\ E!Init
  BY InitInv, InitRefines DEF Init, HatchShut
<1>2. IInv /\ HatchShut /\ [Next]_vars =>
         IInv' /\ HatchShut' /\ [E!Next]_(E!vars)
  <2>1. ASSUME IInv, HatchShut, Next
        PROVE  IInv' /\ HatchShut' /\ [E!Next]_(E!vars)
    BY <2>1, NextType, FundedStep, HatchStaysShut, NextRefines DEF IInv
  <2>2. ASSUME IInv, HatchShut, UNCHANGED vars
        PROVE  IInv' /\ HatchShut' /\ UNCHANGED E!vars
    <3>1. IInv'
      BY <2>2 DEF IInv, TypeOK, LedgerTypeOK, PayoutTypeOK, FundedHasBoth, vars,
           ledgerVars, dealVars, termVars
    <3>2. UNCHANGED <<dealVars, owner, emergency>>
      BY <2>2 DEF vars, ledgerVars
    <3> QED BY <2>2, <3>1, <3>2, DealsStill DEF HatchShut, E!vars
  <2> QED BY <2>1, <2>2
<1> QED BY <1>1, <1>2, PTL DEF Spec, ImplementsEscrow, E!Spec

(* The promise keeps custody.                                              *)
InCustody == Accounted(Deals, owner, escrow, ended, {})

LEMMA CustodyStep == InCustody /\ [E!Next]_(E!vars) => InCustody'
<1> SUFFICES ASSUME InCustody, [E!Next]_(E!vars)
             PROVE  Accounted(Deals, owner', escrow', ended', {})
  BY DEF InCustody, Accounted, Account
<1>1. ASSUME NEW d \in Deals, NEW p \in User, NEW S \in SUBSET NFT, E!Deposit(d, p, S)
      PROVE  Accounted(Deals, owner', escrow', ended', {})
  <2>1. /\ d \notin ended /\ ended' = ended /\ \A n \in S : owner[n] = p
        /\ owner' = [n \in NFT |-> IF n \in S THEN Market ELSE owner[n]]
        /\ escrow' = escrow \cup {[deal |-> d, item |-> n, from |-> p] : n \in S}
    BY <1>1 DEF E!Deposit
  <2> QED BY <2>1, DepositAccounted DEF InCustody
<1>2. ASSUME NEW d \in Deals, NEW to \in [User -> User], E!End(d, to)
      PROVE  Accounted(Deals, owner', escrow', ended', {})
  <2>1. /\ owner' \in [NFT -> Account] /\ \A h \in HeldFor(escrow, d) : owner'[h.item] = to[h.from]
        /\ \A n \in NFT \ {h.item : h \in HeldFor(escrow, d)} : owner'[n] = owner[n]
        /\ escrow' = escrow \ HeldFor(escrow, d) /\ ended' = ended \cup {d}
    BY <1>2 DEF E!End, E!Of, E!ItemsOf, Account, HeldFor
  <2> QED BY <2>1, EndAccounted DEF InCustody
<1>3. ASSUME NEW n \in NFT, NEW p \in User, E!Elsewhere(n, p)
      PROVE  Accounted(Deals, owner', escrow', ended', {})
  <2>1. owner[n] # Market /\ owner' = [owner EXCEPT ![n] = p] /\ escrow' = escrow /\ ended' = ended
    BY <1>3 DEF E!Elsewhere
  <2> QED BY <2>1, ElsewhereAccounted DEF InCustody
<1>4. CASE UNCHANGED E!vars
  <2>1. owner' = owner /\ escrow' = escrow /\ ended' = ended
    BY <1>4 DEF E!vars
  <2> QED BY <2>1 DEF InCustody
<1>5. \A h \in E!Holding : ~E!Stray(h)
  BY DEF E!Stray
<1> QED BY <1>1, <1>2, <1>3, <1>4, <1>5 DEF E!Next

LEMMA AlwaysInCustody ==
    ASSUME AllowRescue = FALSE
    PROVE  Spec => []InCustody
<1>1. Spec => E!Spec
  BY SettlementImplementsEscrow DEF ImplementsEscrow
<1>2. E!Init => InCustody
  BY NothingHeld DEF E!Init, InCustody
<1> QED BY <1>1, <1>2, CustodyStep, PTL DEF E!Spec

(* What the escrow guarantees carries over: the contract holds exactly the *)
(* items of the open deals, and no item is promised by two of them.        *)
THEOREM SettlementCustody ==
    ASSUME AllowRescue = FALSE
    PROVE  Spec => []Custody
<1>1. InCustody => Custody
  BY DEF InCustody, Accounted, Custody, E!Custody
<1> QED BY <1>1, AlwaysInCustody, PTL

-----------------------------------------------------------------------------
(* Closed deals stay as they are.  A table grows at its end or changes at  *)
(* the index of a deal that is not closed.                                 *)

LEMMA FrozenSame ==
    ASSUME NEW S, NEW old \in Seq(S)
    PROVE  Frozen(old, old)
BY DEF Frozen

LEMMA FrozenAppend ==
    ASSUME NEW S, NEW old \in Seq(S), NEW e
    PROVE  Frozen(old, Append(old, e))
BY DEF Frozen

LEMMA FrozenReplace ==
    ASSUME NEW S, NEW old \in Seq(S), NEW i \in DOMAIN old, NEW e,
           old[i].state \notin Closed
    PROVE  Frozen(old, [old EXCEPT ![i] = e])
BY DEF Frozen

LEMMA SalesFrozen ==
    ASSUME TypeOK, Next
    PROVE  Frozen(sales, sales')
<1>1. sales \in Seq(Sale)
  BY DEF TypeOK
<1>2. ASSUME NEW u \in User, NEW n \in NFT, NEW price \in Prices, NEW fee \in Fees,
             NEW d \in 1..MaxDuration, CreateSale(u, n, price, fee, d)
      PROVE  Frozen(sales, sales')
  BY <1>1, <1>2, FrozenAppend DEF CreateSale
<1>3. ASSUME NEW i \in DOMAIN sales, NEW u \in User, ExecuteSale(i, u)
      PROVE  Frozen(sales, sales')
  <2>1. sales[i].state \notin Closed
    BY <1>3 DEF ExecuteSale, Closed
  <2>2. sales' = [sales EXCEPT ![i] =
                     [sales[i] EXCEPT !.buyer = u, !.state = "Executed"]]
    BY <1>1, <1>3 DEF ExecuteSale
  <2> QED BY <1>1, <2>1, <2>2, FrozenReplace
<1>4. ASSUME NEW i \in DOMAIN sales, NEW u \in User, CancelSale(i, u)
      PROVE  Frozen(sales, sales')
  <2>1. sales[i].state \notin Closed
    BY <1>4 DEF CancelSale, Closed
  <2>2. sales' = [sales EXCEPT ![i] = [sales[i] EXCEPT !.state = "Cancelled"]]
    BY <1>1, <1>4 DEF CancelSale
  <2> QED BY <1>1, <2>1, <2>2, FrozenReplace
<1>5. ASSUME UNCHANGED sales PROVE Frozen(sales, sales')
  BY <1>1, <1>5, FrozenSame
<1>6. CASE SaleNext
  BY <1>2, <1>3, <1>4, <1>5, <1>6 DEF SaleNext, EmergencyWithdraw, dealVars
<1>7. CASE TradeNext
  BY <1>5, <1>7 DEF TradeNext, CreateTrade, AcceptTrade, ExecuteTrade, CancelTrade
<1>8. CASE BundleNext
  BY <1>5, <1>8 DEF BundleNext, CreateBundle, ExecuteBundle, CancelBundle
<1>9. CASE AdminNext \/ Around
  BY <1>5, <1>9 DEF AdminNext, Around, SetEmergencyWithdrawal, dealVars
<1> QED BY <1>6, <1>7, <1>8, <1>9 DEF Next

LEMMA TradesFrozen ==
    ASSUME TypeOK, Next
    PROVE  Frozen(trades, trades')
<1>1. trades \in Seq(Trade)
  BY DEF TypeOK
<1>2. ASSUME NEW u \in User, NEW c \in SomeUser, NEW give \in SUBSET NFT,
             NEW want \in SUBSET NFT, NEW d \in 1..MaxDuration,
             CreateTrade(u, c, give, want, d)
      PROVE  Frozen(trades, trades')
  BY <1>1, <1>2, FrozenAppend DEF CreateTrade
<1>3. ASSUME NEW i \in DOMAIN trades, NEW u \in User, AcceptTrade(i, u)
      PROVE  Frozen(trades, trades')
  <2>1. trades[i].state \notin Closed
    BY <1>3 DEF AcceptTrade, Closed
  <2>2. trades' = [trades EXCEPT ![i] =
                      [trades[i] EXCEPT !.counterparty = u, !.state = "Funded"]]
    BY <1>1, <1>3 DEF AcceptTrade
  <2> QED BY <1>1, <2>1, <2>2, FrozenReplace
<1>4. ASSUME NEW i \in DOMAIN trades, NEW u \in User,
             ExecuteTrade(i, u) \/ CancelTrade(i, u)
      PROVE  Frozen(trades, trades')
  <2>1. trades[i].state \notin Closed
    BY <1>4 DEF ExecuteTrade, CancelTrade, Closed
  <2>2. PICK s \in TradeState :
            trades' = [trades EXCEPT ![i] = [trades[i] EXCEPT !.state = s]]
    BY <1>1, <1>4 DEF ExecuteTrade, CancelTrade, TradeState
  <2> QED BY <1>1, <2>1, <2>2, FrozenReplace
<1>5. ASSUME UNCHANGED trades PROVE Frozen(trades, trades')
  BY <1>1, <1>5, FrozenSame
<1>6. CASE SaleNext
  BY <1>5, <1>6 DEF SaleNext, CreateSale, ExecuteSale, CancelSale,
     EmergencyWithdraw, dealVars
<1>7. CASE TradeNext
  BY <1>2, <1>3, <1>4, <1>7 DEF TradeNext
<1>8. CASE BundleNext
  BY <1>5, <1>8 DEF BundleNext, CreateBundle, ExecuteBundle, CancelBundle
<1>9. CASE AdminNext \/ Around
  BY <1>5, <1>9 DEF AdminNext, Around, SetEmergencyWithdrawal, dealVars
<1> QED BY <1>6, <1>7, <1>8, <1>9 DEF Next

LEMMA BundlesFrozen ==
    ASSUME TypeOK, Next
    PROVE  Frozen(bundles, bundles')
<1>1. bundles \in Seq(Bundle)
  BY DEF TypeOK
<1>2. ASSUME NEW u \in User, NEW items \in SUBSET NFT, NEW price \in Prices,
             NEW fee \in Fees, NEW d \in 1..MaxDuration,
             CreateBundle(u, items, price, fee, d)
      PROVE  Frozen(bundles, bundles')
  BY <1>1, <1>2, FrozenAppend DEF CreateBundle
<1>3. ASSUME NEW i \in DOMAIN bundles, NEW u \in User, ExecuteBundle(i, u)
      PROVE  Frozen(bundles, bundles')
  <2>1. bundles[i].state \notin Closed
    BY <1>3 DEF ExecuteBundle, Closed
  <2>2. bundles' = [bundles EXCEPT ![i] =
                       [bundles[i] EXCEPT !.buyer = u, !.state = "Executed"]]
    BY <1>1, <1>3 DEF ExecuteBundle
  <2> QED BY <1>1, <2>1, <2>2, FrozenReplace
<1>4. ASSUME NEW i \in DOMAIN bundles, NEW u \in User, CancelBundle(i, u)
      PROVE  Frozen(bundles, bundles')
  <2>1. bundles[i].state \notin Closed
    BY <1>4 DEF CancelBundle, Closed
  <2>2. bundles' = [bundles EXCEPT ![i] = [bundles[i] EXCEPT !.state = "Cancelled"]]
    BY <1>1, <1>4 DEF CancelBundle
  <2> QED BY <1>1, <2>1, <2>2, FrozenReplace
<1>5. ASSUME UNCHANGED bundles PROVE Frozen(bundles, bundles')
  BY <1>1, <1>5, FrozenSame
<1>6. CASE SaleNext
  BY <1>5, <1>6 DEF SaleNext, CreateSale, ExecuteSale, CancelSale,
     EmergencyWithdraw, dealVars
<1>7. CASE TradeNext
  BY <1>5, <1>7 DEF TradeNext, CreateTrade, AcceptTrade, ExecuteTrade, CancelTrade
<1>8. CASE BundleNext
  BY <1>2, <1>3, <1>4, <1>8 DEF BundleNext
<1>9. CASE AdminNext \/ Around
  BY <1>5, <1>9 DEF AdminNext, Around, SetEmergencyWithdrawal, dealVars
<1> QED BY <1>6, <1>7, <1>8, <1>9 DEF Next

(* A deal that was executed or cancelled stays exactly as it was, whatever *)
(* the emergency hatch does to its items.                                  *)
THEOREM SettlementFinality == Spec => ClosedIsFinal
<1> DEFINE Final == /\ Frozen(sales, sales')
                    /\ Frozen(trades, trades')
                    /\ Frozen(bundles, bundles')
<1>1. TypeOK /\ [Next]_vars => [Final]_vars
  BY SalesFrozen, TradesFrozen, BundlesFrozen
<1> QED BY <1>1, SettlementTypes, PTL DEF Spec, ClosedIsFinal

-----------------------------------------------------------------------------
(* Settlement on the listed terms.                                         *)

AsListed(old, new) ==
    /\ Terms(new) = Terms(old)
    /\ old.state = "Pending" /\ new.state = "Executed" =>
          \A u \in User :
              bal'[u] = bal[u] + old.shares[u] - Credit(u, new.buyer, old.price)

LEMMA PurchaseMoves ==
    ASSUME NEW b \in [Account -> Nat], NEW shares \in [User -> Int],
           NEW price \in Nat, NEW buyer \in User, NEW u \in User
    PROVE  Distribute(Pay(b, buyer, Market, price), shares, price)[u]
              = b[u] + shares[u] - Credit(u, buyer, price)
<1>1. u \in Account /\ u # Market
  BY LedgerAssumption DEF Account
<1>2. Pay(b, buyer, Market, price)[u] = b[u] - Credit(u, buyer, price)
  BY <1>1 DEF Pay, Credit
<1>3. b[u] \in Int /\ shares[u] \in Int /\ Credit(u, buyer, price) \in Int
  BY <1>1 DEF Credit
<1> QED BY <1>1, <1>2, <1>3 DEF Distribute

LEMMA SalesAsListed ==
    ASSUME TypeOK, Next, NEW j \in DOMAIN sales
    PROVE  AsListed(sales[j], sales'[j])
<1>1. sales \in Seq(Sale) /\ sales[j] \in Sale /\ bal \in [Account -> Nat]
  BY DEF TypeOK, LedgerTypeOK
<1>2. ASSUME sales'[j] = sales[j] PROVE AsListed(sales[j], sales'[j])
  BY <1>2 DEF AsListed
<1>3. ASSUME NEW u \in User, NEW n \in NFT, NEW price \in Prices, NEW fee \in Fees,
             NEW d \in 1..MaxDuration, CreateSale(u, n, price, fee, d)
      PROVE  sales'[j] = sales[j]
  BY <1>1, <1>3 DEF CreateSale
<1>4. ASSUME NEW i \in DOMAIN sales, NEW buyer \in User, ExecuteSale(i, buyer)
      PROVE  AsListed(sales[j], sales'[j])
  <2>1. CASE j # i
    BY <1>1, <1>2, <1>4, <2>1 DEF ExecuteSale
  <2>2. CASE j = i
    <3>1. sales'[j] = [sales[j] EXCEPT !.buyer = buyer, !.state = "Executed"]
      BY <1>1, <1>4, <2>2 DEF ExecuteSale
    <3>2. sales[j].shares \in [User -> Int] /\ sales[j].price \in Nat
      BY <1>1 DEF Sale
    <3>3. bal' = Distribute(Pay(bal, buyer, Market, sales[j].price),
                            sales[j].shares, sales[j].price)
      BY <1>4, <2>2 DEF ExecuteSale
    <3>4. sales'[j].buyer = buyer /\ Terms(sales'[j]) = Terms(sales[j])
      BY <1>1, <3>1 DEF Sale, Terms
    <3>5. \A u \in User : bal'[u] = bal[u] + sales[j].shares[u]
                                    - Credit(u, buyer, sales[j].price)
      BY <1>1, <3>2, <3>3, PurchaseMoves
    <3> QED BY <3>4, <3>5 DEF AsListed
  <2> QED BY <2>1, <2>2
<1>5. ASSUME NEW i \in DOMAIN sales, NEW u \in User, CancelSale(i, u)
      PROVE  AsListed(sales[j], sales'[j])
  <2>1. CASE j # i
    BY <1>1, <1>2, <1>5, <2>1 DEF CancelSale
  <2>2. CASE j = i
    <3>1. sales'[j] = [sales[j] EXCEPT !.state = "Cancelled"]
      BY <1>1, <1>5, <2>2 DEF CancelSale
    <3>2. sales'[j].state = "Cancelled" /\ Terms(sales'[j]) = Terms(sales[j])
      BY <1>1, <3>1 DEF Sale, Terms
    <3> QED BY <3>2 DEF AsListed
  <2> QED BY <2>1, <2>2
<1>6. CASE SaleNext
  BY <1>2, <1>3, <1>4, <1>5, <1>6 DEF SaleNext, EmergencyWithdraw, dealVars
<1>7. CASE TradeNext
  BY <1>2, <1>7 DEF TradeNext, CreateTrade, AcceptTrade, ExecuteTrade, CancelTrade
<1>8. CASE BundleNext
  BY <1>2, <1>8 DEF BundleNext, CreateBundle, ExecuteBundle, CancelBundle
<1>9. CASE AdminNext \/ Around
  BY <1>2, <1>9 DEF AdminNext, Around, SetEmergencyWithdrawal, dealVars
<1> QED BY <1>6, <1>7, <1>8, <1>9 DEF Next

(* A sale settles on the terms it was listed with, however royalties, fees *)
(* and the fee recipient have changed since.                               *)
THEOREM SettlementTerms == Spec => SettledAsListed
<1> DEFINE Listed == \A j \in DOMAIN sales : AsListed(sales[j], sales'[j])
<1>1. TypeOK /\ [Next]_vars => [Listed]_vars
  BY SalesAsListed
<1>2. Listed => \A i \in DOMAIN sales :
          /\ Terms(sales'[i]) = Terms(sales[i])
          /\ sales[i].state = "Pending" /\ sales'[i].state = "Executed" =>
                \A u \in User :
                    bal'[u] = bal[u] + sales[i].shares[u]
                              - Credit(u, sales'[i].buyer, sales[i].price)
  BY DEF AsListed
<1> HIDE DEF Listed
<1> QED BY <1>1, <1>2, SettlementTypes, PTL DEF Spec, SettledAsListed

-----------------------------------------------------------------------------
(* Trades by mutual consent.  What a trade's record leans on: a funded one *)
(* was accepted by an account other than the one that offered it.          *)

AcceptedByOther ==
    \A i \in DOMAIN trades :
        trades[i].state = "Funded" =>
            trades[i].counterparty \in User \ {trades[i].initiator}

Mutual(old, new) ==
    /\ <<new.initiator, new.give, new.want>> =
          <<old.initiator, old.give, old.want>>
    /\ old.counterparty # None => new.counterparty = old.counterparty
    /\ new.state = "Executed" /\ old.state # "Executed" =>
          /\ new.counterparty \in User \ {new.initiator}
          /\ OwnsAll(owner', new.counterparty, new.give)
          /\ OwnsAll(owner', new.initiator, new.want)

(* What a step may do to the table of trades.                              *)
TradesMove ==
    \/ UNCHANGED trades
    \/ \E trade : trade.state = "Pending" /\ trades' = Append(trades, trade)
    \/ \E i \in DOMAIN trades, u \in User :
          AcceptTrade(i, u) \/ ExecuteTrade(i, u) \/ CancelTrade(i, u)

LEMMA NextMovesTrades ==
    ASSUME TypeOK, Next
    PROVE  TradesMove
<1>1. ASSUME NEW u \in User, NEW c \in SomeUser, NEW give \in SUBSET NFT,
             NEW want \in SUBSET NFT, NEW d \in 1..MaxDuration,
             CreateTrade(u, c, give, want, d)
      PROVE  \E trade : trade.state = "Pending" /\ trades' = Append(trades, trade)
  <2> DEFINE trade == [initiator |-> u, counterparty |-> c, give |-> give,
                 want |-> want, expires_at |-> now + d, state |-> "Pending"]
  <2>1. trades' = Append(trades, trade)
    BY <1>1 DEF CreateTrade
  <2>2. trade.state = "Pending"
    OBVIOUS
  <2> HIDE DEF trade
  <2> QED BY <2>1, <2>2
<1>2. CASE TradeNext
  BY <1>1, <1>2 DEF TradeNext, TradesMove
<1>3. CASE SaleNext
  BY <1>3 DEF SaleNext, CreateSale, ExecuteSale, CancelSale, EmergencyWithdraw,
     dealVars, TradesMove
<1>4. CASE BundleNext
  BY <1>4 DEF BundleNext, CreateBundle, ExecuteBundle, CancelBundle, TradesMove
<1>5. CASE AdminNext \/ Around
  BY <1>5 DEF AdminNext, Around, SetEmergencyWithdrawal, dealVars, TradesMove
<1> QED BY <1>2, <1>3, <1>4, <1>5 DEF Next

(* One accepted or closed trade, every other one as it was.                *)
LEMMA AcceptedRecord ==
    ASSUME TypeOK, NEW i \in DOMAIN trades, NEW u \in User, AcceptTrade(i, u)
    PROVE  /\ trades'[i] = [trades[i] EXCEPT !.counterparty = u, !.state = "Funded"]
           /\ DOMAIN trades' = DOMAIN trades
           /\ \A j \in DOMAIN trades \ {i} : trades'[j] = trades[j]
BY DEF TypeOK, AcceptTrade

LEMMA ClosedRecord ==
    ASSUME TypeOK, NEW i \in DOMAIN trades, NEW u \in User,
           ExecuteTrade(i, u) \/ CancelTrade(i, u)
    PROVE  /\ \E s \in Closed : trades'[i] = [trades[i] EXCEPT !.state = s]
           /\ DOMAIN trades' = DOMAIN trades
           /\ \A j \in DOMAIN trades \ {i} : trades'[j] = trades[j]
BY DEF TypeOK, ExecuteTrade, CancelTrade, Closed

LEMMA AcceptedStep ==
    ASSUME TypeOK, AcceptedByOther, [Next]_vars
    PROVE  AcceptedByOther'
<1>1. trades \in Seq(Trade)
  BY DEF TypeOK
<1>2. CASE UNCHANGED trades
  BY <1>2 DEF AcceptedByOther
<1>3. ASSUME NEW trade, trade.state = "Pending", trades' = Append(trades, trade)
      PROVE  AcceptedByOther'
  <2>1. DOMAIN trades' = 1..(Len(trades) + 1)
    BY <1>1, <1>3
  <2>2. \A j \in DOMAIN trades' \ DOMAIN trades : trades'[j] = trade
    BY <1>1, <1>3, <2>1
  <2>3. \A j \in DOMAIN trades : trades'[j] = trades[j]
    BY <1>1, <1>3
  <2> QED BY <1>3, <2>2, <2>3 DEF AcceptedByOther
<1>4. ASSUME NEW i \in DOMAIN trades, NEW u \in User, AcceptTrade(i, u)
      PROVE  AcceptedByOther'
  <2>1. trades[i] \in Trade /\ trades[i].initiator # u
    BY <1>1, <1>4 DEF AcceptTrade
  <2>2. /\ trades'[i] = [trades[i] EXCEPT !.counterparty = u, !.state = "Funded"]
        /\ DOMAIN trades' = DOMAIN trades
        /\ \A j \in DOMAIN trades \ {i} : trades'[j] = trades[j]
    BY <1>4, AcceptedRecord
  <2>3. trades'[i].counterparty = u /\ trades'[i].initiator = trades[i].initiator
    BY <2>1, <2>2 DEF Trade
  <2> QED BY <2>1, <2>2, <2>3 DEF AcceptedByOther
<1>5. ASSUME NEW i \in DOMAIN trades, NEW u \in User,
             ExecuteTrade(i, u) \/ CancelTrade(i, u)
      PROVE  AcceptedByOther'
  <2>1. PICK s \in Closed : trades'[i] = [trades[i] EXCEPT !.state = s]
    BY <1>5, ClosedRecord
  <2>2. /\ DOMAIN trades' = DOMAIN trades
        /\ \A j \in DOMAIN trades \ {i} : trades'[j] = trades[j]
    BY <1>5, ClosedRecord
  <2>3. trades[i] \in Trade
    BY <1>1
  <2>4. trades'[i].state # "Funded"
    BY <2>1, <2>3 DEF Trade, Closed
  <2> QED BY <2>2, <2>4 DEF AcceptedByOther
<1>6. CASE Next
  BY <1>2, <1>3, <1>4, <1>5, <1>6, NextMovesTrades DEF TradesMove
<1> QED BY <1>2, <1>6 DEF vars, dealVars

LEMMA TradesMutual ==
    ASSUME TypeOK, AcceptedByOther, Next, NEW j \in DOMAIN trades
    PROVE  Mutual(trades[j], trades'[j])
<1>1. trades \in Seq(Trade) /\ trades[j] \in Trade
  BY DEF TypeOK
<1>2. ASSUME trades'[j] = trades[j] PROVE Mutual(trades[j], trades'[j])
  BY <1>2 DEF Mutual
<1>3. ASSUME NEW trade, trades' = Append(trades, trade)
      PROVE  trades'[j] = trades[j]
  BY <1>1, <1>3
<1>4. ASSUME NEW u \in User, AcceptTrade(j, u)
      PROVE  Mutual(trades[j], trades'[j])
  <2>1. trades[j].counterparty \in {None, u}
    BY <1>4 DEF AcceptTrade
  <2>2. trades'[j] = [trades[j] EXCEPT !.counterparty = u, !.state = "Funded"]
    BY <1>4, AcceptedRecord
  <2> QED BY <1>1, <2>1, <2>2 DEF Trade, Mutual
<1>5. ASSUME NEW u \in User, CancelTrade(j, u)
      PROVE  Mutual(trades[j], trades'[j])
  <2>1. trades'[j] = [trades[j] EXCEPT !.state = "Cancelled"]
    BY <1>1, <1>5 DEF CancelTrade
  <2> QED BY <1>1, <2>1 DEF Trade, Mutual
<1>6. ASSUME NEW u \in User, ExecuteTrade(j, u)
      PROVE  Mutual(trades[j], trades'[j])
  <2> DEFINE old == trades[j]
             taken == Give(owner, old.counterparty, old.give)
  <2>1. trades'[j] = [old EXCEPT !.state = "Executed"]
    BY <1>1, <1>6 DEF ExecuteTrade
  <2>2. old.counterparty \in User \ {old.initiator}
    BY <1>6 DEF AcceptedByOther, ExecuteTrade
  <2>3. /\ OwnsAll(taken, Market, old.want)
        /\ owner' = Give(taken, old.initiator, old.want)
    BY <1>6 DEF ExecuteTrade, ReleaseBoth
  <2>4. old.give \subseteq NFT /\ old.want \subseteq NFT
    BY <1>1 DEF Trade
  <2>5. old.give \cap old.want = {}
    BY <2>2, <2>3, <2>4, LedgerAssumption DEF OwnsAll, Give
  <2>6. /\ OwnsAll(owner', old.counterparty, old.give)
        /\ OwnsAll(owner', old.initiator, old.want)
    BY <2>3, <2>4, <2>5 DEF OwnsAll, Give
  <2> QED BY <1>1, <2>1, <2>2, <2>6 DEF Trade, Mutual
<1>7. ASSUME NEW i \in DOMAIN trades, NEW u \in User, i # j,
             AcceptTrade(i, u) \/ ExecuteTrade(i, u) \/ CancelTrade(i, u)
      PROVE  trades'[j] = trades[j]
  BY <1>7, AcceptedRecord, ClosedRecord
<1> QED BY <1>2, <1>3, <1>4, <1>5, <1>6, <1>7, NextMovesTrades DEF TradesMove

(* A trade that executes was accepted by another account, the addressee if *)
(* there was one, and gives each side exactly what the other put in.       *)
THEOREM SettlementConsent == Spec => TradeIsMutual
<1> DEFINE AllMutual == \A j \in DOMAIN trades : Mutual(trades[j], trades'[j])
<1>1. Init => AcceptedByOther
  BY DEF Init, AcceptedByOther
<1>2. TypeOK /\ AcceptedByOther /\ [Next]_vars => AcceptedByOther'
  BY AcceptedStep
<1>3. TypeOK /\ AcceptedByOther /\ [Next]_vars => [AllMutual]_vars
  BY TradesMutual
<1>4. AllMutual => \A i \in DOMAIN trades :
          LET old == trades[i]
              new == trades'[i]
          IN  /\ <<new.initiator, new.give, new.want>> =
                    <<old.initiator, old.give, old.want>>
              /\ old.counterparty # None => new.counterparty = old.counterparty
              /\ new.state = "Executed" /\ old.state # "Executed" =>
                    /\ new.counterparty \in User \ {new.initiator}
                    /\ OwnsAll(owner', new.counterparty, new.give)
                    /\ OwnsAll(owner', new.initiator, new.want)
  BY DEF Mutual
<1> HIDE DEF AllMutual
<1> QED BY <1>1, <1>2, <1>3, <1>4, SettlementTypes, PTL DEF Spec, TradeIsMutual

-----------------------------------------------------------------------------
(* A paused module's deals stand still, cancellations included: the two    *)
(* kinds of gate, by module and for any pause, agree on that.              *)
THEOREM SettlementPause == Spec => PausedIsStill
<1> DEFINE Still == /\ IsModulePaused("sales") => UNCHANGED <<sales, swaps>>
                    /\ IsModulePaused("trades") => UNCHANGED trades
                    /\ IsModulePaused("bundles") => UNCHANGED bundles
<1>1. ASSUME Next PROVE Still
  <2> USE DEF IsModulePaused, Admitted, NotPaused
  <2>1. CASE SaleNext
    BY <2>1 DEF SaleNext, CreateSale, ExecuteSale, CancelSale, EmergencyWithdraw,
       dealVars
  <2>2. CASE TradeNext
    BY <2>2 DEF TradeNext, CreateTrade, AcceptTrade, ExecuteTrade, CancelTrade
  <2>3. CASE BundleNext
    BY <2>3 DEF BundleNext, CreateBundle, ExecuteBundle, CancelBundle
  <2>4. CASE AdminNext \/ Around
    BY <2>4 DEF AdminNext, Around, SetEmergencyWithdrawal, dealVars
  <2> QED BY <1>1, <2>1, <2>2, <2>3, <2>4 DEF Next
<1>2. [Next]_vars => [Still]_vars
  BY <1>1
<1> QED BY <1>2, PTL DEF Spec, PausedIsStill

-----------------------------------------------------------------------------
(* Money: between calls none stays in the contract.                        *)

Conserved == bal[Market] = 0 /\ Total(bal) = Cardinality(User) * Funds

LEMMA SameTotal ==
    ASSUME Conserved, bal'[Market] = bal[Market], Total(bal') = Total(bal)
    PROVE  Conserved'
BY DEF Conserved, Total

(* With the contract's balance at zero a refund of a payment goes through  *)
(* only for a price of zero: a sale already paid out is not paid back.     *)
LEMMA RefundKeepsMoney ==
    ASSUME TypeOK, Conserved, NEW i \in DOMAIN sales, RefundHoldings(i)
    PROVE  bal' = bal
<1>1. sales[i] \in Sale /\ swaps[i] \in Swap /\ bal \in [Account -> Nat]
  BY DEF TypeOK, LedgerTypeOK
<1>2. CASE swaps[i].buyer = None
  BY <1>2 DEF RefundHoldings
<1>3. CASE swaps[i].buyer # None
  <2>1. sales[i].price \in Nat /\ 0 >= sales[i].price
    BY <1>1, <1>3 DEF RefundHoldings, CanPay, Conserved, Sale
  <2>2. sales[i].price = 0 /\ bal' = Pay(bal, Market, swaps[i].buyer, 0)
    BY <1>3, <2>1 DEF RefundHoldings
  <2>3. Pay(bal, Market, swaps[i].buyer, 0) = bal
    BY <1>1 DEF Pay
  <2> QED BY <2>2, <2>3
<1> QED BY <1>2, <1>3

LEMMA MoneyInit == Init => Conserved
<1> SUFFICES ASSUME Init PROVE Conserved
  OBVIOUS
<1>1. bal = [a \in Account |-> IF a = Market THEN 0 ELSE Funds] /\ Funds \in Nat
  BY LedgerAssumption DEF Init, LedgerInit
<1>2. bal[Market] = 0 /\ \A u \in User : bal[u] = Funds
  BY <1>1, FiniteAccounts, LedgerAssumption
<1>3. \A a \in Account : bal[a] \in Int
  BY <1>1
<1>4. SumFunctionOnSet(bal, Account) = bal[Market] + SumFunctionOnSet(bal, User)
  BY <1>3, FiniteAccounts, SumRemove
<1>5. SumFunctionOnSet(bal, User) = Cardinality(User) * Funds
  <2>1. Funds \in Int
    BY <1>1
  <2> QED BY <1>2, <2>1, FiniteAccounts, SumConstant
<1>6. Cardinality(User) * Funds \in Int
  BY <1>1, FiniteAccounts, FS_CardinalityType
<1> QED BY <1>2, <1>4, <1>5, <1>6 DEF Conserved, Total

(* Of all calls only refunds and purchases touch balances; a purchase      *)
(* gives out what it takes in.                                             *)
LEMMA MoneyMoves ==
    ASSUME TypeOK, Next
    PROVE  \/ \E i \in DOMAIN sales :
                 /\ RefundHoldings(i)
                 /\ EmergencyWithdraw(i) \/ \E u \in User : CancelSale(i, u)
           \/ bal'[Market] = bal[Market] /\ Total(bal') = Total(bal)
<1> SUFFICES ASSUME \A i \in DOMAIN sales :
                        EmergencyWithdraw(i) \/ (\E u \in User : CancelSale(i, u))
                            => ~RefundHoldings(i)
             PROVE  bal'[Market] = bal[Market] /\ Total(bal') = Total(bal)
  OBVIOUS
<1>1. bal \in [Account -> Nat]
  BY DEF TypeOK, LedgerTypeOK
<1>2. ASSUME bal' = bal PROVE bal'[Market] = bal[Market] /\ Total(bal') = Total(bal)
  BY <1>2
<1>3. ASSUME NEW i \in DOMAIN sales, NEW u \in User, ExecuteSale(i, u)
      PROVE  bal'[Market] = bal[Market] /\ Total(bal') = Total(bal)
  <2>1. sales[i] \in Sale
    BY DEF TypeOK
  <2>2. sales[i].price \in Nat
    BY <2>1 DEF Sale
  <2>3. PICK c : c = Distribute(Pay(bal, u, Market, sales[i].price),
                                sales[i].shares, sales[i].price)
    OBVIOUS
  <2> QED BY <1>1, <1>3, <2>2, <2>3, PurchaseTotal DEF ExecuteSale
<1>4. ASSUME NEW i \in DOMAIN bundles, NEW u \in User, ExecuteBundle(i, u)
      PROVE  bal'[Market] = bal[Market] /\ Total(bal') = Total(bal)
  <2> DEFINE shares == BundleShares(bundles[i].items, bundles[i].price,
                                   bundles[i].seller, bundles[i].fee)
  <2>1. bundles[i] \in Bundle
    BY DEF TypeOK
  <2>2. bundles[i].price \in Nat
    BY <2>1 DEF Bundle
  <2>3. PICK c : c = Distribute(Pay(bal, u, Market, bundles[i].price),
                                shares, bundles[i].price)
    OBVIOUS
  <2>4. /\ CanPay(bal, u, bundles[i].price) /\ bal' = c
        /\ CanDistribute(Pay(bal, u, Market, bundles[i].price), shares,
                         bundles[i].price)
    BY <1>4, <2>3 DEF ExecuteBundle
  <2> HIDE DEF shares
  <2> QED BY <1>1, <2>2, <2>3, <2>4, PurchaseTotal
<1>5. CASE SaleNext
  <2>1. \A i \in DOMAIN sales : ~EmergencyWithdraw(i) /\ \A u \in User : ~CancelSale(i, u)
    BY DEF EmergencyWithdraw, CancelSale
  <2> QED BY <1>2, <1>3, <1>5, <2>1 DEF SaleNext, CreateSale
<1>6. CASE TradeNext
  BY <1>2, <1>6 DEF TradeNext, CreateTrade, AcceptTrade, ExecuteTrade, CancelTrade
<1>7. CASE BundleNext
  BY <1>2, <1>4, <1>7 DEF BundleNext, CreateBundle, CancelBundle
<1>8. CASE AdminNext
  BY <1>2, <1>8 DEF AdminNext, TermsNext, SetRoyaltyInfo, SetFeeRecipient,
     SetEmergencyWithdrawal, ledgerVars
<1>9. CASE Around
  BY <1>2, <1>9 DEF Around, Surroundings, Tick, TransferOutside, SetPause, SetBlocked
<1> QED BY <1>5, <1>6, <1>7, <1>8, <1>9 DEF Next

LEMMA MoneyStep ==
    ASSUME TypeOK, Conserved, Next
    PROVE  Conserved'
<1>1. \A i \in DOMAIN sales : RefundHoldings(i) => bal' = bal
  BY RefundKeepsMoney
<1> QED BY <1>1, MoneyMoves, SameTotal

(* Between calls the contract holds no payment and the users' balances add *)
(* up to what they started with, emergency withdrawals included.           *)
THEOREM SettlementMoney == Spec => []MoneyConserved
<1>1. TypeOK /\ Conserved => MoneyConserved
  BY TotalIsSum DEF TypeOK, LedgerTypeOK, Conserved, MoneyConserved
<1>2. TypeOK /\ Conserved /\ [Next]_vars => Conserved'
  <2>1. Conserved /\ UNCHANGED vars => Conserved'
    BY DEF Conserved, vars, ledgerVars
  <2> QED BY <2>1, MoneyStep
<1> QED BY <1>1, <1>2, MoneyInit, SettlementTypes, PTL DEF Spec

-----------------------------------------------------------------------------
(* What keeps open deals payable and refundable: the shares fixed when a   *)
(* sale was listed add up to its price, an open sale has no payment in its *)
(* swap, and a bundle is not empty.                                        *)

SharesAddUp(sale) ==
    sale.shares \in Shares /\ SumFunctionOnSet(sale.shares, User) = sale.price

SalesSound ==
    \A i \in DOMAIN sales :
        /\ SharesAddUp(sales[i])
        /\ sales[i].state = "Pending" => swaps[i].buyer = None

BundlesSound == \A i \in DOMAIN bundles : bundles[i].items # {}

LEMMA SalesSoundStep ==
    ASSUME TypeOK, SalesSound, Next
    PROVE  SalesSound'
<1>1. /\ sales \in Seq(Sale) /\ swaps \in Seq(Swap) /\ Len(swaps) = Len(sales)
      /\ DOMAIN swaps = DOMAIN sales
  BY DEF TypeOK
<1>2. ASSUME UNCHANGED <<sales, swaps>> PROVE SalesSound'
  BY <1>2 DEF SalesSound
<1>3. ASSUME NEW u \in User, NEW n \in NFT, NEW price \in Prices, NEW fee \in Fees,
             NEW d \in 1..MaxDuration, CreateSale(u, n, price, fee, d)
      PROVE  SalesSound'
  <2> DEFINE shares == SaleShares(n, price, u, fee)
             sale == [seller |-> u, buyer |-> None, nft |-> n, price |-> price,
                      fee |-> fee, shares |-> shares,
                      expires_at |-> now + d, state |-> "Pending"]
             swap == [buyer |-> None, state |-> "SellerFunded"]
  <2>1. sales' = Append(sales, sale) /\ swaps' = Append(swaps, swap)
    BY <1>3 DEF CreateSale
  <2>2. price \in Nat /\ fee \in Int /\ PayoutTypeOK
    BY SettlementAssumption, PayoutAssumption DEF TypeOK
  <2>3. shares \in Shares /\ SumFunctionOnSet(shares, User) = price
    BY <2>2, SaleSharesAddUp
  <2> HIDE DEF shares
  <2>4. SharesAddUp(sale) /\ swap.buyer = None
    BY <2>3 DEF SharesAddUp
  <2> HIDE DEF sale, swap
  <2>5. /\ DOMAIN sales' = 1..(Len(sales) + 1) /\ DOMAIN sales = 1..Len(sales)
        /\ \A j \in DOMAIN sales : sales'[j] = sales[j] /\ swaps'[j] = swaps[j]
        /\ sales'[Len(sales) + 1] = sale /\ swaps'[Len(sales) + 1] = swap
    BY <1>1, <2>1
  <2>6. \A j \in DOMAIN sales' : j \in DOMAIN sales \/ j = Len(sales) + 1
    BY <1>1, <2>5
  <2> QED BY <2>4, <2>5, <2>6 DEF SalesSound
<1>4. ASSUME NEW i \in DOMAIN sales, NEW u \in User, ExecuteSale(i, u) \/ CancelSale(i, u)
      PROVE  SalesSound'
  <2>1. sales[i] \in Sale
    BY <1>1
  <2>2. /\ DOMAIN sales' = DOMAIN sales
        /\ \A j \in DOMAIN sales \ {i} : sales'[j] = sales[j] /\ swaps'[j] = swaps[j]
    BY <1>1, <1>4 DEF ExecuteSale, CancelSale
  <2>3. /\ sales'[i].shares = sales[i].shares /\ sales'[i].price = sales[i].price
        /\ sales'[i].state # "Pending"
    <3>1. CASE ExecuteSale(i, u)
      <4>1. sales'[i] = [sales[i] EXCEPT !.buyer = u, !.state = "Executed"]
        BY <1>1, <3>1 DEF ExecuteSale
      <4> QED BY <2>1, <4>1 DEF Sale
    <3>2. CASE CancelSale(i, u)
      <4>1. sales'[i] = [sales[i] EXCEPT !.state = "Cancelled"]
        BY <1>1, <3>2 DEF CancelSale
      <4> QED BY <2>1, <4>1 DEF Sale
    <3> QED BY <1>4, <3>1, <3>2
  <2> QED BY <2>2, <2>3 DEF SalesSound, SharesAddUp
<1>5. CASE SaleNext
  BY <1>2, <1>3, <1>4, <1>5 DEF SaleNext, EmergencyWithdraw, dealVars
<1>6. CASE TradeNext
  BY <1>2, <1>6 DEF TradeNext, CreateTrade, AcceptTrade, ExecuteTrade, CancelTrade
<1>7. CASE BundleNext
  BY <1>2, <1>7 DEF BundleNext, CreateBundle, ExecuteBundle, CancelBundle
<1>8. CASE AdminNext \/ Around
  BY <1>2, <1>8 DEF AdminNext, Around, SetEmergencyWithdrawal, dealVars
<1> QED BY <1>5, <1>6, <1>7, <1>8 DEF Next

(* Whatever else is in the purse: while the hatch is shut nothing that is  *)
(* refunded is money, as an open sale has none.                            *)
LEMMA PurseAlone ==
    ASSUME TypeOK, SalesSound, HatchShut, Next
    PROVE  bal'[Market] = bal[Market] /\ Total(bal') = Total(bal)
<1>1. ASSUME NEW i \in DOMAIN sales, RefundHoldings(i),
             EmergencyWithdraw(i) \/ (\E u \in User : CancelSale(i, u))
      PROVE  bal' = bal
  <2>1. ~EmergencyWithdraw(i)
    BY DEF EmergencyWithdraw, HatchShut
  <2>2. sales[i].state = "Pending"
    BY <1>1, <2>1 DEF CancelSale
  <2> QED BY <1>1, <2>2 DEF SalesSound, RefundHoldings
<1> QED BY <1>1, MoneyMoves

(* A refund moves money too, hatch or no hatch; none is made or lost.      *)
LEMMA TotalStays ==
    ASSUME TypeOK, Next
    PROVE  Total(bal') = Total(bal)
<1>1. ASSUME NEW i \in DOMAIN sales, RefundHoldings(i)
      PROVE  Total(bal') = Total(bal)
  <2>1. sales[i] \in Sale /\ swaps[i] \in Swap /\ bal \in [Account -> Nat]
    BY DEF TypeOK, LedgerTypeOK
  <2>2. CASE swaps[i].buyer = None
    BY <1>1, <2>2 DEF RefundHoldings
  <2>3. CASE swaps[i].buyer # None
    <3>1. bal' = Pay(bal, Market, swaps[i].buyer, sales[i].price)
      BY <1>1, <2>3 DEF RefundHoldings
    <3>2. swaps[i].buyer \in Account /\ sales[i].price \in Nat /\ Market \in Account
      BY <2>1, <2>3 DEF Swap, Sale, SomeUser, Account
    <3> QED BY <2>1, <3>1, <3>2, PayTotal
  <2> QED BY <2>2, <2>3
<1> QED BY <1>1, MoneyMoves

LEMMA BundlesSoundStep ==
    ASSUME TypeOK, BundlesSound, Next
    PROVE  BundlesSound'
<1>1. bundles \in Seq(Bundle)
  BY DEF TypeOK
<1>2. ASSUME UNCHANGED bundles PROVE BundlesSound'
  BY <1>2 DEF BundlesSound
<1>3. ASSUME NEW u \in User, NEW items \in SUBSET NFT, NEW price \in Prices,
             NEW fee \in Fees, NEW d \in 1..MaxDuration,
             CreateBundle(u, items, price, fee, d)
      PROVE  BundlesSound'
  <2>1. /\ DOMAIN bundles' = 1..(Len(bundles) + 1) /\ DOMAIN bundles = 1..Len(bundles)
        /\ \A j \in DOMAIN bundles : bundles'[j] = bundles[j]
        /\ bundles'[Len(bundles) + 1].items = items /\ items # {}
    BY <1>1, <1>3 DEF CreateBundle
  <2>2. \A j \in DOMAIN bundles' : j \in DOMAIN bundles \/ j = Len(bundles) + 1
    BY <1>1, <2>1
  <2> QED BY <2>1, <2>2 DEF BundlesSound
<1>4. ASSUME NEW i \in DOMAIN bundles, NEW u \in User,
             ExecuteBundle(i, u) \/ CancelBundle(i, u)
      PROVE  BundlesSound'
  <2>1. bundles[i] \in Bundle
    BY <1>1
  <2>2. /\ DOMAIN bundles' = DOMAIN bundles
        /\ \A j \in DOMAIN bundles \ {i} : bundles'[j] = bundles[j]
    BY <1>1, <1>4 DEF ExecuteBundle, CancelBundle
  <2>3. bundles'[i].items = bundles[i].items
    BY <1>1, <1>4, <2>1 DEF ExecuteBundle, CancelBundle, Bundle
  <2> QED BY <2>2, <2>3 DEF BundlesSound
<1>5. CASE SaleNext
  BY <1>2, <1>5 DEF SaleNext, CreateSale, ExecuteSale, CancelSale, EmergencyWithdraw,
     dealVars
<1>6. CASE TradeNext
  BY <1>2, <1>6 DEF TradeNext, CreateTrade, AcceptTrade, ExecuteTrade, CancelTrade
<1>7. CASE BundleNext
  BY <1>3, <1>4, <1>7 DEF BundleNext
<1>8. CASE AdminNext \/ Around
  BY <1>2, <1>8 DEF AdminNext, Around, SetEmergencyWithdrawal, dealVars
<1> QED BY <1>5, <1>6, <1>7, <1>8 DEF Next

-----------------------------------------------------------------------------
(* What is escrowed for the open deals is there to be handed over.         *)

(* What of custody they need, whoever else the contract keeps items for,   *)
(* except for the items that are lost to the promise.                      *)
Held(lost) ==
    /\ \A h \in escrow : h.item \notin lost => owner[h.item] = Market
    /\ \A g, h \in escrow : g.item = h.item /\ h.item \notin lost => g = h

LEMMA OpenSaleHeld ==
    ASSUME NEW lost, TypeOK, Held(lost), NEW i \in DOMAIN sales,
           sales[i].state = "Pending", sales[i].nft \notin lost
    PROVE  owner[sales[i].nft] = Market
<1>1. i \in 1..MaxSales
  BY SettlementAssumption DEF TypeOK
<1>2. <<"sale", i>> \in Deals /\ Holds(<<"sale", i>>) = SaleHolds(i)
  BY <1>1 DEF Deals, Holds
<1> DEFINE h == [deal |-> <<"sale", i>>, item |-> sales[i].nft, from |-> sales[i].seller]
<1>3. h \in SaleHolds(i)
  BY DEF SaleHolds, Hold
<1>4. h \in escrow
  BY <1>2, <1>3 DEF escrow
<1> QED BY <1>4 DEF Held

LEMMA OpenBundleHeld ==
    ASSUME NEW lost, TypeOK, Held(lost), NEW i \in DOMAIN bundles,
           bundles[i].state = "Pending", bundles[i].items \cap lost = {}
    PROVE  OwnsAll(owner, Market, bundles[i].items)
<1>1. i \in 1..MaxBundles
  BY SettlementAssumption DEF TypeOK
<1>2. <<"bundle", i>> \in Deals /\ Holds(<<"bundle", i>>) = BundleHolds(i)
  BY <1>1 DEF Deals, Holds
<1> SUFFICES ASSUME NEW n \in bundles[i].items PROVE owner[n] = Market
  BY DEF OwnsAll
<1> DEFINE h == [deal |-> <<"bundle", i>>, item |-> n, from |-> bundles[i].seller]
<1>3. h \in BundleHolds(i)
  BY DEF BundleHolds, Hold
<1>4. h \in escrow
  BY <1>2, <1>3 DEF escrow
<1> QED BY <1>4 DEF Held

LEMMA TradeHeld ==
    ASSUME NEW lost, TypeOK, Held(lost), AcceptedByOther, NEW i \in DOMAIN trades
    PROVE  LET trade == trades[i]
           IN  /\ /\ trade.state \in {"Pending", "Funded"}
                  /\ trade.give \cap lost = {}
                  => OwnsAll(owner, Market, trade.give)
               /\ trade.state = "Funded" /\ (trade.give \cup trade.want) \cap lost = {}
                  => /\ OwnsAll(owner, Market, trade.want)
                     /\ trade.give \cap trade.want = {}
<1> DEFINE trade == trades[i]
           d == <<"trade", i>>
           gives(n) == [deal |-> d, item |-> n, from |-> trade.initiator]
           wants(n) == [deal |-> d, item |-> n, from |-> trade.counterparty]
<1>1. i \in 1..MaxTrades
  BY SettlementAssumption DEF TypeOK
<1>2. d \in Deals /\ Holds(d) = TradeHolds(i)
  BY <1>1 DEF Deals, Holds
<1>3. trade.state \in {"Pending", "Funded"} => \A n \in trade.give : gives(n) \in escrow
  <2> SUFFICES ASSUME trade.state \in {"Pending", "Funded"}, NEW n \in trade.give
               PROVE  gives(n) \in TradeHolds(i)
    BY <1>2 DEF escrow
  <2> QED BY DEF TradeHolds, Hold
<1>4. trade.state = "Funded" => \A n \in trade.want : wants(n) \in escrow
  <2> SUFFICES ASSUME trade.state = "Funded", NEW n \in trade.want
               PROVE  wants(n) \in TradeHolds(i)
    BY <1>2 DEF escrow
  <2> QED BY DEF TradeHolds, Hold
<1>5. trade.state \in {"Pending", "Funded"} /\ trade.give \cap lost = {}
      => OwnsAll(owner, Market, trade.give)
  BY <1>3 DEF Held, OwnsAll
<1>6. trade.state = "Funded" /\ trade.want \cap lost = {} => OwnsAll(owner, Market, trade.want)
  BY <1>4 DEF Held, OwnsAll
<1>7. ASSUME trade.state = "Funded", (trade.give \cup trade.want) \cap lost = {},
             NEW n \in trade.give \cap trade.want
      PROVE  FALSE
  <2>1. gives(n) = wants(n)
    BY <1>3, <1>4, <1>7 DEF Held
  <2>2. trade.initiator = trade.counterparty
    BY <2>1
  <2> QED BY <1>7, <2>2 DEF AcceptedByOther
<1> QED BY <1>5, <1>6, <1>7

(* What the calls that settle an open deal, or return its items, ask of    *)
(* the contract's records and holdings, beyond the pause, the deadline,    *)
(* the caller's identity and the caller's funds.  A deal one of whose      *)
(* items is lost gets no promise about its items; its money stays sound.   *)
ServedBut(lost) ==
    /\ \A i \in DOMAIN sales : sales[i].state = "Pending" =>
          /\ swaps[i].buyer = None
          /\ sales[i].nft \notin lost => OwnsAll(owner, Market, {sales[i].nft})
          /\ \A u \in User : bal[u] >= sales[i].price =>
                CanDistribute(Pay(bal, u, Market, sales[i].price),
                              sales[i].shares, sales[i].price)
    /\ \A i \in DOMAIN bundles : bundles[i].state = "Pending" =>
          LET bundle == bundles[i]
          IN  /\ bundle.items \cap lost = {} => OwnsAll(owner, Market, bundle.items)
              /\ \A u \in User : bal[u] >= bundle.price =>
                    CanDistribute(Pay(bal, u, Market, bundle.price),
                        BundleShares(bundle.items, bundle.price, bundle.seller,
                                     bundle.fee), bundle.price)
    /\ \A i \in DOMAIN trades :
          /\ trades[i].state \in {"Pending", "Funded"} /\ trades[i].give \cap lost = {}
             => OwnsAll(owner, Market, trades[i].give)
          /\ /\ trades[i].state = "Funded"
             /\ (trades[i].give \cup trades[i].want) \cap lost = {}
             => \A to \in User : OwnsAll(Give(owner, to, trades[i].give), Market,
                                         trades[i].want)

OpenDealsServed == ServedBut({})

LEMMA DealsServed ==
    ASSUME NEW lost, IsFiniteSet(NFT), TypeOK, Held(lost), AcceptedByOther, SalesSound,
           BundlesSound
    PROVE  ServedBut(lost)
<1>1. ASSUME NEW i \in DOMAIN sales, sales[i].state = "Pending"
      PROVE  /\ swaps[i].buyer = None
             /\ sales[i].nft \notin lost => OwnsAll(owner, Market, {sales[i].nft})
             /\ \A u \in User : bal[u] >= sales[i].price =>
                   CanDistribute(Pay(bal, u, Market, sales[i].price),
                                 sales[i].shares, sales[i].price)
  <2>1. sales[i] \in Sale
    BY DEF TypeOK
  <2>2. sales[i].price \in Nat
    BY <2>1 DEF Sale
  <2>3. /\ swaps[i].buyer = None /\ sales[i].shares \in Shares
        /\ SumFunctionOnSet(sales[i].shares, User) = sales[i].price
    BY <1>1 DEF SalesSound, SharesAddUp
  <2>4. sales[i].nft \notin lost => OwnsAll(owner, Market, {sales[i].nft})
    BY <1>1, OpenSaleHeld DEF OwnsAll
  <2> QED BY <2>2, <2>3, <2>4, PaymentDistributes DEF TypeOK
<1>2. ASSUME NEW i \in DOMAIN bundles, bundles[i].state = "Pending"
      PROVE  LET bundle == bundles[i]
             IN  /\ bundle.items \cap lost = {} => OwnsAll(owner, Market, bundle.items)
                 /\ \A u \in User : bal[u] >= bundle.price =>
                       CanDistribute(Pay(bal, u, Market, bundle.price),
                           BundleShares(bundle.items, bundle.price, bundle.seller,
                                        bundle.fee), bundle.price)
  <2> DEFINE bundle == bundles[i]
             shares == BundleShares(bundle.items, bundle.price, bundle.seller, bundle.fee)
  <2>1. bundle \in Bundle
    BY DEF TypeOK
  <2>2. /\ bundle.price \in Nat /\ bundle.items \in SUBSET NFT /\ bundle.seller \in User
        /\ bundle.fee \in Int /\ bundle.items # {} /\ IsFiniteSet(bundle.items)
    BY <2>1, FS_Subset DEF Bundle, BundlesSound
  <2>3. PayoutTypeOK
    BY DEF TypeOK
  <2>4. shares \in Shares /\ SumFunctionOnSet(shares, User) = bundle.price
    BY <2>2, <2>3, BundleSharesAddUp
  <2>5. bundle.items \cap lost = {} => OwnsAll(owner, Market, bundle.items)
    BY <1>2, OpenBundleHeld
  <2> HIDE DEF shares
  <2>6. \A u \in User : bal[u] >= bundle.price =>
            CanDistribute(Pay(bal, u, Market, bundle.price), shares, bundle.price)
    BY <2>2, <2>4, PaymentDistributes DEF TypeOK
  <2> QED BY <2>5, <2>6 DEF shares
<1>3. ASSUME NEW i \in DOMAIN trades
      PROVE  /\ trades[i].state \in {"Pending", "Funded"} /\ trades[i].give \cap lost = {}
                => OwnsAll(owner, Market, trades[i].give)
             /\ /\ trades[i].state = "Funded"
                /\ (trades[i].give \cup trades[i].want) \cap lost = {}
                => \A to \in User : OwnsAll(Give(owner, to, trades[i].give), Market,
                                            trades[i].want)
  <2>1. trades[i] \in Trade
    BY DEF TypeOK
  <2>2. trades[i].want \subseteq NFT
    BY <2>1 DEF Trade
  <2> QED BY <2>2, TradeHeld DEF OwnsAll, Give
<1> QED BY <1>1, <1>2, <1>3 DEF ServedBut

(* While the emergency hatch stays shut, whatever royalties, fees and fee  *)
(* recipients have become, whoever plays which role and whatever else was  *)
(* listed: an open sale or bundle pays out in full to whoever brings the   *)
(* price, an accepted trade hands over both sides, and what an open deal   *)
(* took in can be returned.                                                *)
THEOREM SettlementServes ==
    ASSUME AllowRescue = FALSE, IsFiniteSet(NFT)
    PROVE  Spec => []OpenDealsServed
<1>1. Init => AcceptedByOther /\ SalesSound /\ BundlesSound
  BY DEF Init, AcceptedByOther, SalesSound, BundlesSound
<1>2. TypeOK /\ SalesSound /\ BundlesSound /\ [Next]_vars
          => SalesSound' /\ BundlesSound'
  <2>1. SalesSound /\ BundlesSound /\ UNCHANGED vars => SalesSound' /\ BundlesSound'
    BY DEF SalesSound, BundlesSound, vars, dealVars
  <2> QED BY <2>1, SalesSoundStep, BundlesSoundStep
<1>3. TypeOK /\ AcceptedByOther /\ [Next]_vars => AcceptedByOther'
  BY AcceptedStep
<1>4. TypeOK /\ InCustody /\ AcceptedByOther /\ SalesSound /\ BundlesSound
          => OpenDealsServed
  <2> SUFFICES ASSUME TypeOK, InCustody, AcceptedByOther, SalesSound, BundlesSound
               PROVE  ServedBut({})
    BY DEF OpenDealsServed
  <2>1. Held({})
    BY DEF Held, InCustody, Accounted
  <2> QED BY <2>1, DealsServed
<1>5. Spec => []InCustody
  BY AlwaysInCustody
<1> QED BY <1>1, <1>2, <1>3, <1>4, <1>5, SettlementTypes, PTL DEF Spec
=============================================================================
