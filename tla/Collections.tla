---------------------------- MODULE Collections -----------------------------
(* The collection factory and the collections it deploys.  The factory     *)
(* counts collections per creator and charges for more than the limit;     *)
(* each collection keeps owners, balances, metadata and supply as separate *)
(* entries.  Names, URIs and royalties are left out.                       *)
EXTENDS Naturals, Sequences, FiniteSets

CONSTANTS Account, None, Token,
          Limits,     \* the per-creator limits an administrator may set
          Fees,       \* the fees it may ask for collections above the limit
          Supplies,   \* the maximal supplies asked for; None for no maximum
          MaxCollections, Funds  \* bounds: collections made, an account's money

CollectionConstants ==
    /\ None \notin Account /\ IsFiniteSet(Token)
    /\ Limits \subseteq Nat /\ Fees \subseteq Nat /\ Supplies \subseteq Nat \cup {None}
    /\ None \notin Nat /\ MaxCollections \in Nat /\ Funds \in Nat

VARIABLES admin, limit, fee, \* the factory's settings
          purse,             \* fees the factory has taken and not paid out
          made,              \* collections counted against each creator
          money,             \* each account's balance of the fee asset
          colls              \* the deployed collections

fvars == <<admin, limit, fee, purse, made, money>>
vars  == <<admin, limit, fee, purse, made, money, colls>>

Collection == [admin : Account, max : Supplies, supply : Nat,
               owner : [Token -> Account \cup {None}],
               balance : [Account \X Token -> Nat],
               metadata : SUBSET Token, minters : SUBSET Account, paused : BOOLEAN]

TypeOK ==
    /\ admin \in Account /\ limit \in Nat /\ fee \in Nat /\ purse \in Nat
    /\ made \in [Account -> Nat] /\ money \in [Account -> Nat]
    /\ colls \in Seq(Collection)

Init ==
    /\ admin \in Account /\ limit \in Limits /\ fee = 0 /\ purse = 0
    /\ made = [a \in Account |-> 0] /\ money = [a \in Account |-> Funds]
    /\ colls = <<>>

(* init: the administrator of the factory, not the creator, may mint.      *)
Deployed(max) ==
    [admin |-> admin, max |-> max, supply |-> 0, owner |-> [t \in Token |-> None],
     balance |-> [p \in Account \X Token |-> 0], metadata |-> {},
     minters |-> {admin}, paused |-> FALSE]

CreateCollection(creator, max) ==
    /\ Len(colls) < MaxCollections /\ max # 0
    /\ made' = [made EXCEPT ![creator] = @ + 1]
    /\ colls' = Append(colls, Deployed(max))
    /\ \/ made[creator] < limit /\ UNCHANGED <<purse, money>>
       \/ /\ made[creator] >= limit /\ fee > 0 /\ money[creator] >= fee
          /\ money' = [money EXCEPT ![creator] = @ - fee]
          /\ purse' = purse + fee
    /\ UNCHANGED <<admin, limit, fee>>

UpdateCreatorLimit(l) == limit' = l /\ UNCHANGED <<admin, fee, purse, made, money, colls>>
SetOverflowFee(f)     == fee' = f /\ UNCHANGED <<admin, limit, purse, made, money, colls>>
SetAdmin(a)           == admin' = a /\ UNCHANGED <<limit, fee, purse, made, money, colls>>
ResetCreatorCollectionCount(c) ==
    made' = [made EXCEPT ![c] = 0] /\ UNCHANGED <<admin, limit, fee, purse, money, colls>>
WithdrawFees ==
    /\ purse' = 0 /\ money' = [money EXCEPT ![admin] = @ + purse]
    /\ UNCHANGED <<admin, limit, fee, made, colls>>

-----------------------------------------------------------------------------
(* One collection's entry points; the authorised caller is a parameter.    *)
Save(k, coll) == colls' = [colls EXCEPT ![k] = coll] /\ UNCHANGED fvars

Mint(k, minter, to, t) ==
    LET c == colls[k] IN
    /\ minter \in c.minters /\ t \notin c.metadata
    /\ c.max # None => c.supply < c.max
    /\ Save(k, [c EXCEPT !.metadata = @ \cup {t}, !.owner[t] = to,
                         !.balance[<<to, t>>] = @ + 1, !.supply = @ + 1])

(* Mutant: the recipient's entry is read before the sender's is written.   *)
TransferStale(k, from, to, t) ==
    LET c == colls[k] IN
    /\ ~c.paused /\ c.owner[t] = from /\ c.balance[<<from, t>>] > 0
    /\ Save(k, [c EXCEPT !.owner[t] = to,
                         !.balance = [c.balance EXCEPT ![<<from, t>>] = @ - 1,
                                          ![<<to, t>>] = c.balance[<<to, t>>] + 1]])

(* The second entry is read after the first is written: a transfer to      *)
(* oneself changes nothing.                                                *)
Transfer(k, from, to, t) ==
    LET c == colls[k]
        taken == [c.balance EXCEPT ![<<from, t>>] = @ - 1] IN
    /\ ~c.paused /\ c.owner[t] = from /\ c.balance[<<from, t>>] > 0
    /\ Save(k, [c EXCEPT !.owner[t] = to,
                         !.balance = [taken EXCEPT ![<<to, t>>] = @ + 1]])

Burn(k, from, t) ==
    LET c == colls[k] IN
    /\ c.owner[t] = from /\ c.balance[<<from, t>>] > 0 /\ c.supply > 0
    /\ Save(k, [c EXCEPT !.owner[t] = None, !.metadata = @ \ {t},
                         !.balance[<<from, t>>] = @ - 1, !.supply = @ - 1])

SetPause(k, b)     == Save(k, [colls[k] EXCEPT !.paused = b])
SetMinter(k, a, b) == Save(k, [colls[k] EXCEPT !.minters = IF b THEN @ \cup {a} ELSE @ \ {a}])

Next ==
    \/ \E c \in Account, max \in Supplies : CreateCollection(c, max)
    \/ \E l \in Limits : UpdateCreatorLimit(l)
    \/ \E f \in Fees : SetOverflowFee(f)
    \/ \E a \in Account : SetAdmin(a) \/ ResetCreatorCollectionCount(a)
    \/ WithdrawFees
    \/ \E k \in DOMAIN colls, a, b \in Account, t \in Token :
          Mint(k, a, b, t) \/ Transfer(k, a, b, t)
    \/ \E k \in DOMAIN colls, a \in Account, t \in Token : Burn(k, a, t)
    \/ \E k \in DOMAIN colls, b \in BOOLEAN : SetPause(k, b)
    \/ \E k \in DOMAIN colls, a \in Account, b \in BOOLEAN : SetMinter(k, a, b)

Spec == Init /\ [][Next]_vars

-----------------------------------------------------------------------------
(* The four tables of a collection tell one story, through any sequence of *)
(* mints, transfers (to oneself too), burns and mints of a burned id: who  *)
(* owns a token has one of it and nobody else any, it has metadata, and    *)
(* the supply counts the owned tokens and keeps the maximum.               *)
Agree(c) ==
    LET Owned == {t \in Token : c.owner[t] # None} IN
    /\ c.metadata = Owned /\ c.supply = Cardinality(Owned)
    /\ c.max # None => c.supply <= c.max
    /\ \A a \in Account, t \in Token :
          c.balance[<<a, t>>] = IF c.owner[t] = a THEN 1 ELSE 0
TablesAgree == \A k \in DOMAIN colls : Agree(colls[k])
=============================================================================
