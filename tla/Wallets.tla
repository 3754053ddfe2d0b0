------------------------------ MODULE Wallets -------------------------------
(* The wallets that sign in to an account: signing in with one, linking    *)
(* one more, unlinking one.  Each request is a sequence of statements over *)
(* two tables, outside a transaction, and ends at the first that fails.    *)
(* A challenge is asked for before each call; a call refused for its       *)
(* challenge or its signature does nothing and is left out.                *)
EXTENDS Naturals, FiniteSets

CONSTANTS User, WithEmail, \* accounts, those that can sign in by e-mail too
          Wallet, Nobody, WalletRequest,
          MaxCalls         \* bound: requests made

VARIABLES address, current, \* columns of users: address, walletAddress
          link,             \* user_wallets, by wallet (unique); ids tell rows apart
          req,              \* the request each process is in
          overlapped,       \* history: accounts two unlinks of which overlapped
          calls             \* requests made so far

walletVars == <<address, current, link, req, overlapped, calls>>

WalletConstants ==
    /\ WithEmail \subseteq User /\ Nobody \notin User \cup Wallet
    /\ IsFiniteSet(Wallet) /\ IsFiniteSet(WalletRequest) /\ MaxCalls \in Nat

NoLink == [user |-> Nobody, primary |-> FALSE, id |-> 0]
NoReq  == [pc |-> "idle", user |-> Nobody, wallet |-> Nobody, primary |-> FALSE,
           copy |-> NoLink]

Init ==
    /\ address = [u \in User |-> Nobody] /\ current = [u \in User |-> Nobody]
    /\ link = [w \in Wallet |-> NoLink]
    /\ req = [q \in WalletRequest |-> NoReq]
    /\ overlapped = {} /\ calls = 0

Linked(u)    == {w \in Wallet : link[w].user = u}
Exists(u)    == u \in WithEmail \/ address[u] # Nobody
EndReq(q)    == req' = [req EXCEPT ![q] = NoReq]
GoOn(q, pc)  == req' = [req EXCEPT ![q].pc = pc]
For(q, u, pc) == req' = [req EXCEPT ![q].user = u, ![q].pc = pc]

Begins(q)    == req[q].pc = "idle" /\ calls < MaxCalls /\ calls' = calls + 1

-----------------------------------------------------------------------------
(* verifyWalletChallenge: resolveUserByWallet by the linked wallet, by the *)
(* columns of users, or as a new account.                                  *)
Verify(q, w) ==
    /\ Begins(q)
    /\ req' = [req EXCEPT ![q] =
                 [NoReq EXCEPT !.wallet = w, !.primary = TRUE, !.user = link[w].user,
                               !.pc = IF link[w].user = Nobody THEN "find" ELSE "upsert"]]
    /\ UNCHANGED <<address, current, link, overlapped>>

Claims(w) == {u \in User : w \in {address[u], current[u]}}

FindUser(q) ==
    /\ req[q].pc = "find"
    /\ \/ \E u \in Claims(req[q].wallet) : For(q, u, "upsert")
       \/ Claims(req[q].wallet) = {} /\ GoOn(q, "create")
    /\ UNCHANGED <<address, current, link, overlapped, calls>>

(* Both columns are unique.                                                *)
Takes(u, a, w) == \A v \in User \ {u} : address[v] # a /\ current[v] # w

CreateUser(q) ==
    /\ req[q].pc = "create"
    /\ \E u \in User : LET w == req[q].wallet IN
         /\ ~Exists(u) /\ Takes(u, w, w) /\ For(q, u, "upsert")
         /\ address' = [address EXCEPT ![u] = w] /\ current' = [current EXCEPT ![u] = w]
    /\ UNCHANGED <<link, overlapped, calls>>

(* linkWallet: refused when the wallet is another account's.               *)
Link(q, u, w) ==
    /\ Begins(q) /\ Exists(u) /\ link[w].user \in {u, Nobody}
    /\ req' = [req EXCEPT ![q] = [NoReq EXCEPT !.user = u, !.wallet = w, !.pc = "upsert"]]
    /\ UNCHANGED <<address, current, link, overlapped>>

(* upsertLinkedWallet: an existing row is saved, a new one made.           *)
Upsert(q) ==
    /\ req[q].pc = "upsert"
    /\ LET row == link[req[q].wallet] IN
         \/ /\ row.user = req[q].user
            /\ req' = [req EXCEPT ![q].pc = "save",
                         ![q].copy = [row EXCEPT !.primary = @ \/ req[q].primary]]
         \/ /\ row.user # req[q].user
            /\ GoOn(q, IF req[q].primary THEN "demote" ELSE "insert")
    /\ UNCHANGED <<address, current, link, overlapped, calls>>

Demote(q) ==
    /\ req[q].pc = "demote" /\ GoOn(q, "insert")
    /\ link' = [w \in Wallet |-> IF link[w].user = req[q].user
                                 THEN [link[w] EXCEPT !.primary = FALSE] ELSE link[w]]
    /\ UNCHANGED <<address, current, overlapped, calls>>

(* A new row has an id that no row and no copy of one has.                 *)
Ids == {link[w].id : w \in Wallet} \cup {req[p].copy.id : p \in WalletRequest}
Fresh == CHOOSE i \in 1..(Cardinality(Ids) + 1) : i \notin Ids

Insert(q) ==
    /\ req[q].pc = "insert" /\ link[req[q].wallet] = NoLink /\ GoOn(q, "sync")
    /\ link' = [link EXCEPT ![req[q].wallet] =
                  [user |-> req[q].user, primary |-> req[q].primary, id |-> Fresh]]
    /\ UNCHANGED <<address, current, overlapped, calls>>

(* A save goes by the id of the copy: a row deleted meanwhile is made anew.*)
SaveCopy(q) ==
    LET w == req[q].wallet IN
    /\ link[w].id \in {0, req[q].copy.id}
    /\ link' = [link EXCEPT ![w] = req[q].copy]

Saved(q, pc) == req' = [req EXCEPT ![q].pc = pc, ![q].copy = NoLink]

SaveRow(q) ==
    /\ req[q].pc = "save" /\ SaveCopy(q) /\ Saved(q, "sync")
    /\ UNCHANGED <<address, current, overlapped, calls>>

(* syncPrimaryWallet: both columns; the address is set once, and its       *)
(* reading just before is part of the step.                                *)
Sync(q) ==
    LET u == req[q].user  w == req[q].wallet
        a == IF address[u] = Nobody THEN w ELSE address[u] IN
    /\ req[q].pc = "sync" /\ Takes(u, a, w) /\ EndReq(q)
    /\ address' = [address EXCEPT ![u] = a] /\ current' = [current EXCEPT ![u] = w]
    /\ UNCHANGED <<link, overlapped, calls>>

-----------------------------------------------------------------------------
(* unlinkWallet.                                                           *)
Unlink(q, w) ==
    /\ Begins(q) /\ link[w].user # Nobody
    /\ req' = [req EXCEPT ![q] = [NoReq EXCEPT !.user = link[w].user, !.wallet = w,
                                               !.copy = link[w], !.pc = "count"]]
    /\ UNCHANGED <<address, current, link, overlapped>>

(* Mutant: a wallet is always let go.                                      *)
MayUnlinkAny(u) == TRUE

(* "Cannot unlink the only wallet from a wallet-only account."             *)
MayUnlink(u) == u \in WithEmail \/ Cardinality(Linked(u)) > 1

Deleting(u) == {q \in WalletRequest : req[q].pc = "delete" /\ req[q].user = u}

Count(q) ==
    /\ req[q].pc = "count" /\ MayUnlink(req[q].user) /\ GoOn(q, "delete")
    /\ overlapped' = IF Deleting(req[q].user) = {} THEN overlapped
                     ELSE overlapped \cup {req[q].user}
    /\ UNCHANGED <<address, current, link, calls>>

Delete(q) ==
    LET w == req[q].wallet IN
    /\ req[q].pc = "delete"
    /\ link' = IF link[w].id = req[q].copy.id THEN [link EXCEPT ![w] = NoLink] ELSE link
    /\ IF req[q].copy.primary THEN GoOn(q, "next") ELSE EndReq(q)
    /\ UNCHANGED <<address, current, overlapped, calls>>

(* The oldest wallet left becomes the primary one; here any of them.       *)
NextPrimary(q) ==
    LET left == Linked(req[q].user) IN
    /\ req[q].pc = "next"
    /\ \/ left = {} /\ GoOn(q, "clear")
       \/ \E w \in left :
            req' = [req EXCEPT ![q].pc = "promote", ![q].wallet = w,
                               ![q].copy = [link[w] EXCEPT !.primary = TRUE]]
    /\ UNCHANGED <<address, current, link, overlapped, calls>>

Promote(q) ==
    /\ req[q].pc = "promote" /\ SaveCopy(q) /\ Saved(q, "show")
    /\ UNCHANGED <<address, current, overlapped, calls>>

Show(q) ==
    LET u == req[q].user  w == IF req[q].pc = "clear" THEN Nobody ELSE req[q].wallet IN
    /\ req[q].pc \in {"show", "clear"}
    /\ w # Nobody => \A v \in User \ {u} : current[v] # w
    /\ EndReq(q) /\ current' = [current EXCEPT ![u] = w]
    /\ UNCHANGED <<address, link, overlapped, calls>>

-----------------------------------------------------------------------------
(* A statement that violates a unique column, or the check before an       *)
(* unlink, ends the request where it is.                                   *)
Advances(q) == CreateUser(q) \/ Insert(q) \/ SaveRow(q) \/ Sync(q) \/ Count(q)
               \/ Promote(q) \/ Show(q)
Fails(q) ==
    /\ req[q].pc \in {"create", "insert", "save", "sync", "count", "promote", "show"}
    /\ ~ENABLED Advances(q) /\ EndReq(q)
    /\ UNCHANGED <<address, current, link, overlapped, calls>>

CutOff(q) ==
    /\ req[q].pc # "idle" /\ EndReq(q)
    /\ UNCHANGED <<address, current, link, overlapped, calls>>

Next ==
    \E q \in WalletRequest :
       \/ \E w \in Wallet : Verify(q, w) \/ Unlink(q, w)
       \/ \E u \in User, w \in Wallet : Link(q, u, w)
       \/ FindUser(q) \/ Upsert(q) \/ Demote(q) \/ Advances(q)
       \/ Delete(q) \/ NextPrimary(q) \/ Fails(q) \/ CutOff(q)

Spec == Init /\ [][Next]_walletVars

-----------------------------------------------------------------------------
(* A wallet-only account that once had a wallet keeps one: unlinking takes *)
(* the last one only if two unlinks of that account overlapped, whatever   *)
(* other requests do to the same rows and wherever one is cut off.         *)
OneWalletStays ==
    [][\A u \in User \ (WithEmail \cup overlapped') :
          Linked(u) # {} => Linked(u)' # {}]_walletVars

(* A wallet that is linked to an account signs in to it.                   *)
SignsIn(w, u) ==
    \A v \in User \ {u} : current[v] # w /\ (address[u] = Nobody => address[v] # w)
LinkedSignsIn ==
    (\A q \in WalletRequest : req[q].pc = "idle") =>
        \A w \in Wallet : link[w].user # Nobody => SignsIn(w, link[w].user)

(* A wallet that was unlinked no longer signs in to the account.           *)
UnlinkedIsOut ==
    (\A q \in WalletRequest : req[q].pc = "idle") =>
        \A w \in Wallet, u \in User :
            current[u] = w => link[w].user = u
=============================================================================
