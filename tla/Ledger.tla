------------------------------- MODULE Ledger -------------------------------
(***************************************************************************)
(* What every market component of the marketplace_settlement contract      *)
(* stands on: ledger time, the NFT and token contracts it calls, and the   *)
(* two admission gates (pause, blocklist) its entry points open with.      *)
(*                                                                         *)
(* A Soroban invocation is atomic: an error or a trap at any point undoes  *)
(* the whole call.  One entry point is therefore one action; its early     *)
(* returns and the refusals of the contracts it calls are conjuncts.       *)
(***************************************************************************)
EXTENDS Integers, FiniteSets

CONSTANTS
    User,       \* accounts that sign calls
    Market,     \* the settlement contract's own address
    NFT,        \* the tokens in play, each a (contract, token id) pair
    MaxTime,    \* bound: last ledger timestamp explored
    Funds,      \* payment tokens each user starts with
    PauseInfos, \* the pause records an admin may install
    BlockSets   \* the blocklists an admin may leave in force

ModuleName == {"all", "sales", "auctions", "trades", "bundles", "disputes",
               "withdrawals"}
PauseInfo  == [paused : BOOLEAN, modules : SUBSET ModuleName]
Unpaused   == [paused |-> FALSE, modules |-> {}]

ASSUME LedgerAssumption ==
    /\ Market \notin User
    /\ IsFiniteSet(User)
    /\ MaxTime \in Nat
    /\ Funds \in Nat
    /\ PauseInfos \subseteq PauseInfo
    /\ BlockSets \subseteq SUBSET User

VARIABLES
    now,      \* env.ledger().timestamp()
    owner,    \* owner_of, per NFT, as the NFT contracts report it
    bal,      \* balance of the payment token, per account
    pause,    \* PauseManager's PauseInfo
    blocked   \* the addresses BlocklistStore::is_blocked answers true for

ledgerVars == <<now, owner, bal, pause, blocked>>
gateVars   == <<now, pause, blocked>>

Account == User \cup {Market}

LedgerTypeOK ==
    /\ now \in Nat
    /\ owner \in [NFT -> Account]
    /\ bal \in [Account -> Nat]
    /\ pause \in PauseInfo
    /\ blocked \subseteq User

LedgerInit ==
    /\ now = 0
    /\ owner \in [NFT -> User]
    /\ bal = [a \in Account |-> IF a = Market THEN 0 ELSE Funds]
    /\ pause = Unpaused
    /\ blocked = {}

-----------------------------------------------------------------------------
(* The gates at the top of the entry points.                               *)

IsModulePaused(m) == pause.paused /\ pause.modules \cap {"all", m} # {}
NotPaused         == ~pause.paused
IsExpired(t)      == now >= t
Admitted(u, m)    == ~IsModulePaused(m) /\ u \notin blocked

(* validate_transaction_timing: a deal must expire after it is created.    *)
ValidDuration(d, max) == 0 < d /\ d <= max

-----------------------------------------------------------------------------
(* Calls into the NFT and token contracts, as guards and results over a    *)
(* value of owner or bal, so that one handler can chain several of them.   *)

OwnsAll(own, u, S) == \A n \in S : own[n] = u
Give(own, u, S)    == [n \in NFT |-> IF n \in S THEN u ELSE own[n]]

CanPay(b, a, amount) == b[a] >= amount
Pay(b, from, to, amount) ==
    [a \in Account |-> b[a] + (IF a = to THEN amount ELSE 0)
                            - (IF a = from THEN amount ELSE 0)]

-----------------------------------------------------------------------------
(* Steps of the surroundings.                                              *)

(* Ledgers close: time never goes back and several calls share a time.     *)
Tick ==
    /\ now < MaxTime
    /\ now' = now + 1
    /\ UNCHANGED <<owner, bal, pause, blocked>>

(* A holder moves a token of theirs without the marketplace.               *)
TransferOutside(n, u) ==
    /\ owner[n] # Market
    /\ owner' = [owner EXCEPT ![n] = u]
    /\ UNCHANGED <<bal, gateVars>>

(* The administrator replaces the pause record (pause, unpause, a          *)
(* scheduled pause coming due); pausing overwrites the earlier module set. *)
SetPause(p) ==
    /\ pause # p
    /\ pause' = p
    /\ UNCHANGED <<now, owner, bal, blocked>>

(* The administrator blocks or unblocks, or a block runs out.              *)
SetBlocked(B) ==
    /\ blocked # B
    /\ blocked' = B
    /\ UNCHANGED <<now, owner, bal, pause>>

Surroundings ==
    \/ Tick
    \/ \E n \in NFT, u \in User : TransferOutside(n, u)
    \/ \E p \in PauseInfos : SetPause(p)
    \/ \E B \in BlockSets : SetBlocked(B)
=============================================================================
