------------------------------- MODULE Escrow -------------------------------
(***************************************************************************)
(* What the marketplace promises about the items it takes custody of,      *)
(* whatever the kind of deal they are in:                                  *)
(*   - an item enters escrow only from the party that owns it;             *)
(*   - it leaves only when its whole deal ends, in one step, either back   *)
(*     to the party it came from or over to that party's counterpart;      *)
(*   - a deal ends once.                                                   *)
(* Fixed-price sales, trades, bundles and auctions each implement it.      *)
(* There is one way around it: whoever put an item into a deal may be left *)
(* with a claim on it when that deal has ended.  Calling the claim takes   *)
(* the item out of whatever deal it is in by then: it has strayed, and     *)
(* nothing is promised about that item any more.                           *)
(***************************************************************************)
CONSTANTS Party, Market, Item, Deal

VARIABLES
    owner,    \* who holds each item
    escrow,   \* the items in custody: which deal each is in, and from whom
    ended,    \* the deals that have been settled or called off
    claims,   \* what was held in deals now ended, and is still claimed
    strayed   \* the items ever taken out of custody on such a claim

vars == <<owner, escrow, ended, claims, strayed>>

Holding == [deal : Deal, item : Item, from : Party]

TypeOK ==
    /\ owner \in [Item -> Party \cup {Market}]
    /\ escrow \subseteq Holding
    /\ ended \subseteq Deal
    /\ claims \subseteq Holding
    /\ strayed \subseteq Item

Init ==
    /\ owner \in [Item -> Party]
    /\ escrow = {}
    /\ ended = {}
    /\ claims = {}
    /\ strayed = {}

Of(d)        == {h \in escrow : h.deal = d}
ItemsOf(hs)  == {h.item : h \in hs}

(* Party p puts the items S into deal d.                                   *)
Deposit(d, p, S) ==
    /\ d \notin ended
    /\ \A n \in S : owner[n] = p
    /\ owner' = [n \in Item |-> IF n \in S THEN Market ELSE owner[n]]
    /\ escrow' = escrow \cup {[deal |-> d, item |-> n, from |-> p] : n \in S}
    /\ UNCHANGED <<ended, claims, strayed>>

(* Deal d ends: whatever a party p had put in goes to to[p], with or       *)
(* without a claim that outlives the deal.                                 *)
End(d, to) ==
    /\ d \notin ended
    /\ owner' \in [Item -> Party \cup {Market}]
    /\ \A h \in Of(d) : owner'[h.item] = to[h.from]
    /\ \A n \in Item \ ItemsOf(Of(d)) : owner'[n] = owner[n]
    /\ escrow' = escrow \ Of(d)
    /\ ended' = ended \cup {d}
    /\ claims' \in {claims, claims \cup Of(d)}
    /\ UNCHANGED strayed

(* An item outside custody changes hands elsewhere.                        *)
Elsewhere(n, p) ==
    /\ owner[n] # Market
    /\ owner' = [owner EXCEPT ![n] = p]
    /\ UNCHANGED <<escrow, ended, claims, strayed>>

(* The party of h calls its claim while the item is in custody again.      *)
Stray(h) ==
    /\ h \in claims
    /\ owner[h.item] = Market
    /\ owner' = [owner EXCEPT ![h.item] = h.from]
    /\ strayed' = strayed \cup {h.item}
    /\ UNCHANGED <<escrow, ended, claims>>

Next ==
    \/ \E d \in Deal, p \in Party, S \in SUBSET Item : Deposit(d, p, S)
    \/ \E d \in Deal, to \in [Party -> Party] : End(d, to)
    \/ \E n \in Item, p \in Party : Elsewhere(n, p)
    \/ \E h \in Holding : Stray(h)

Spec == Init /\ [][Next]_vars

-----------------------------------------------------------------------------
(* Of the items that never strayed the market holds exactly those that     *)
(* some open deal accounts for, and none of them is promised by two deals. *)
Custody ==
    \A n \in Item \ strayed :
        /\ owner[n] = Market <=> \E h \in escrow : h.item = n
        /\ \A g, h \in escrow : g.item = n /\ h.item = n => g = h

(* A deal that has ended holds nothing.                                    *)
EndedHoldsNothing == \A h \in escrow : h.deal \notin ended

=============================================================================
