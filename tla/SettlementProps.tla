--------------------------- MODULE SettlementProps ---------------------------
(***************************************************************************)
(* What sales, trades and bundles must guarantee, and the mapping under    *)
(* which they implement Escrow.                                            *)
(***************************************************************************)
EXTENDS Settlement

-----------------------------------------------------------------------------
(* The refinement mapping: what each open deal holds, and for whom.        *)

Deals == ({"sale"} \X (1..MaxSales)) \cup ({"trade"} \X (1..MaxTrades))
         \cup ({"bundle"} \X (1..MaxBundles))

Hold(kind, i, S, u) ==
    {[deal |-> <<kind, i>>, item |-> n, from |-> u] : n \in S}

SaleHolds(i) ==
    IF i \in DOMAIN sales /\ sales[i].state = "Pending"
    THEN Hold("sale", i, {sales[i].nft}, sales[i].seller) ELSE {}

TradeHolds(i) ==
    (IF i \in DOMAIN trades /\ trades[i].state \in {"Pending", "Funded"}
     THEN Hold("trade", i, trades[i].give, trades[i].initiator) ELSE {})
    \cup
    (IF i \in DOMAIN trades /\ trades[i].state = "Funded"
     THEN Hold("trade", i, trades[i].want, trades[i].counterparty) ELSE {})

BundleHolds(i) ==
    IF i \in DOMAIN bundles /\ bundles[i].state = "Pending"
    THEN Hold("bundle", i, bundles[i].items, bundles[i].seller) ELSE {}

Holds(d) ==
    CASE d[1] = "sale"   -> SaleHolds(d[2])
      [] d[1] = "trade"  -> TradeHolds(d[2])
      [] d[1] = "bundle" -> BundleHolds(d[2])

escrow == UNION {Holds(d) : d \in Deals}

Closed == {"Executed", "Cancelled"}

IsClosed(deals, i) == i \in DOMAIN deals /\ deals[i].state \in Closed

Over(d) ==
    CASE d[1] = "sale"   -> IsClosed(sales, d[2])
      [] d[1] = "trade"  -> IsClosed(trades, d[2])
      [] d[1] = "bundle" -> IsClosed(bundles, d[2])

ended == {d \in Deals : Over(d)}

E == INSTANCE Escrow WITH Party <- User, Item <- NFT, Deal <- Deals,
                          claims <- {}, strayed <- {}

(* Sales, trades and bundles implement the escrow as long as the emergency *)
(* hatch stays shut: an item enters from its owner, and leaves, with its   *)
(* whole deal, once.                                                       *)
ImplementsEscrow == E!Spec

-----------------------------------------------------------------------------
(* The contract holds exactly the items of the open deals, and no item is  *)
(* promised by two of them.                                                *)
Custody == E!Custody

(* No payment stays behind in the contract and none is made up: between    *)
(* calls the contract's balance is zero and the users' add up to what they *)
(* started with, whatever shares were paid out or refunded.                *)
MoneyConserved ==
    /\ bal[Market] = 0
    /\ SumFunction(bal) = Cardinality(User) * Funds

(* A listing that is open, unexpired and not paused can be bought by any   *)
(* admitted account that has the price, whatever the roles of the accounts *)
(* and whatever happened to royalties and fees since it was listed.        *)
ListingsCanBeBought ==
    \A u \in User :
        /\ \A i \in DOMAIN sales :
              (/\ sales[i].state = "Pending"
               /\ ~IsExpired(sales[i].expires_at)
               /\ Admitted(u, "sales")
               /\ bal[u] >= sales[i].price) => ENABLED ExecuteSale(i, u)
        /\ \A i \in DOMAIN bundles :
              (/\ bundles[i].state = "Pending"
               /\ ~IsExpired(bundles[i].expires_at)
               /\ Admitted(u, "bundles")
               /\ bal[u] >= bundles[i].price) => ENABLED ExecuteBundle(i, u)

(* Nothing is ever stuck: while the contract is not paused, a party to an  *)
(* open deal, expired or not, blocked or not, can have the items returned. *)
OwnersCanWithdraw ==
    NotPaused =>
        /\ \A i \in DOMAIN sales : sales[i].state = "Pending" =>
              ENABLED CancelSale(i, sales[i].seller)
        /\ \A i \in DOMAIN bundles : bundles[i].state = "Pending" =>
              ENABLED CancelBundle(i, bundles[i].seller)
        /\ \A i \in DOMAIN trades :
              /\ trades[i].state = "Pending" =>
                    ENABLED CancelTrade(i, trades[i].initiator)
              /\ trades[i].state = "Funded" =>
                    /\ ENABLED CancelTrade(i, trades[i].initiator)
                    /\ ENABLED CancelTrade(i, trades[i].counterparty)

(* A sale settles on the terms it was listed with: the buyer is out the    *)
(* listed price, everyone else is up by the share fixed at listing time,   *)
(* and a change of royalty or fee recipient in between has no effect.      *)
Terms(s) == <<s.seller, s.nft, s.price, s.fee, s.shares, s.expires_at>>
SettledAsListed ==
    [][\A i \in DOMAIN sales :
          /\ Terms(sales'[i]) = Terms(sales[i])
          /\ sales[i].state = "Pending" /\ sales'[i].state = "Executed" =>
                \A u \in User :
                    bal'[u] = bal[u] + sales[i].shares[u]
                              - Credit(u, sales'[i].buyer, sales[i].price)]_vars

(* A deal that was executed or cancelled stays exactly as it was, and      *)
(* deals are never forgotten.                                              *)
Frozen(old, new) ==
    /\ Len(old) <= Len(new)
    /\ \A i \in DOMAIN old : old[i].state \in Closed => new[i] = old[i]
ClosedIsFinal ==
    [][/\ Frozen(sales, sales')
       /\ Frozen(trades, trades')
       /\ Frozen(bundles, bundles')]_vars

(* A trade that executes has both parties' consent to the very items that  *)
(* move: it was accepted by the account it was addressed to, if any, and   *)
(* each side ends up holding what the other put in.                        *)
TradeIsMutual ==
    [][\A i \in DOMAIN trades :
          LET old == trades[i]
              new == trades'[i]
          IN  /\ <<new.initiator, new.give, new.want>> =
                    <<old.initiator, old.give, old.want>>
              /\ old.counterparty # None => new.counterparty = old.counterparty
              /\ new.state = "Executed" /\ old.state # "Executed" =>
                    /\ new.counterparty \in User \ {new.initiator}
                    /\ OwnsAll(owner', new.counterparty, new.give)
                    /\ OwnsAll(owner', new.initiator, new.want)]_vars

(* A pause of a module leaves its deals and their items where they are.    *)
PausedIsStill ==
    [][/\ IsModulePaused("sales") => UNCHANGED <<sales, swaps>>
       /\ IsModulePaused("trades") => UNCHANGED trades
       /\ IsModulePaused("bundles") => UNCHANGED bundles]_vars

-----------------------------------------------------------------------------
(* Statements of the repository that the code does not keep.               *)

(* "A cancellation is always allowed: refusing it while paused would       *)
(* strand escrowed tokens" (cancel_trade).                                 *)
CancellationAlwaysAllowed ==
    \A i \in DOMAIN trades, u \in User :
        trades[i].state = "Funded" /\ u \in {trades[i].initiator, trades[i].counterparty}
            => ENABLED CancelTrade(i, u)

(* "Escrow the NFT for the lifetime of the listing" (create_sale).         *)
EscrowedWhileListed ==
    \A i \in DOMAIN sales :
        sales[i].state = "Pending" => owner[sales[i].nft] = Market
=============================================================================
