---------------------------- MODULE NftContract -----------------------------
(* One NFT collection contract: minting, moving and burning, one token or a*)
(* batch, approvals, roles, the pause, and the migration of the storage    *)
(* layout from version 1 to 2.  A call that fails changes nothing.  URIs,  *)
(* royalties and attributes are left out.  A batch is a set of tokens.     *)
EXTENDS Naturals, Sequences, FiniteSets

CONSTANTS Account, None,
          Deployer,     \* the account that initialised the contract
          Role, Supplies,  \* roles in use; maximal supplies, None for no maximum
          HardCap,      \* MAX_SUPPLY_HARD_CAP
          MaxBatch,     \* MAX_BATCH_SIZE
          MaxId, MaxOld \* bounds: tokens ever minted, and minted under version 1

Id      == 1..MaxId
Current == 2            \* CURRENT_STORAGE_VERSION

NftConstants ==
    /\ None \notin Account /\ None \notin Nat /\ Deployer \in Account
    /\ Supplies \subseteq Nat \cup {None}
    /\ HardCap \in Nat /\ MaxBatch \in Nat /\ MaxId \in Nat /\ MaxOld \in Nat
    /\ MaxOld <= MaxId

VARIABLES tokenOwner,            \* TokenOwner entries
          dataOwner, layout,     \* TokenData entries: their owner and their layout
          tokenApproved, operators,
          balance, totalSupply, nextTokenId, maxSupply,
          roles, isPaused, upgradeAdmin, storageVersion,
          migrated,              \* TokenMigratedToV2 markers
          approver               \* history: who gave each token's approval

tokens   == <<tokenOwner, dataOwner, layout, tokenApproved, balance, totalSupply, approver>>
supplies == <<nextTokenId, maxSupply>>
settings == <<operators, roles, isPaused, upgradeAdmin>>
versions == <<storageVersion, migrated>>
nftVars  == <<tokens, supplies, settings, versions>>

Of(a)  == {t \in Id : tokenOwner[t] = a}
Minted == {t \in Id : tokenOwner[t] # None}

TypeOK ==
    /\ tokenOwner \in [Id -> Account \cup {None}] /\ dataOwner \in [Id -> Account \cup {None}]
    /\ layout \in [Id -> 1..Current] /\ tokenApproved \in [Id -> Account \cup {None}]
    /\ approver \in [Id -> Account \cup {None}]
    /\ operators \subseteq Account \X Account /\ balance \in [Account -> Nat]
    /\ totalSupply \in Nat /\ nextTokenId \in Nat \ {0} /\ maxSupply \in Supplies
    /\ roles \subseteq Account \X Role /\ isPaused \in BOOLEAN
    /\ upgradeAdmin \in Account \cup {None}
    /\ storageVersion \in 1..Current /\ migrated \subseteq Id

(* A new contract, or one of layout 1 whose code was replaced by this one, *)
(* with its tokens in some hands and some of them burned.                  *)
Init ==
    /\ maxSupply \in Supplies /\ storageVersion \in 1..Current
    /\ \E n \in 0..MaxOld :
          /\ storageVersion = Current => n = 0
          /\ maxSupply # None => n <= maxSupply
          /\ nextTokenId = n + 1
          /\ tokenOwner \in [Id -> Account \cup {None}]
          /\ \A t \in Id : t > n => tokenOwner[t] = None
    /\ dataOwner = tokenOwner /\ layout = [t \in Id |-> storageVersion]
    /\ balance = [a \in Account |-> Cardinality(Of(a))]
    /\ totalSupply = Cardinality(Minted)
    /\ tokenApproved = [t \in Id |-> None] /\ approver = [t \in Id |-> None]
    /\ operators = {} /\ isPaused = FALSE /\ upgradeAdmin = None /\ migrated = {}
    /\ roles = {Deployer} \X Role

-----------------------------------------------------------------------------
(* Tokens.  SetOn(f, S, x) writes one value under each key of S.           *)
SetOn(f, S, x) == [t \in Id |-> IF t \in S THEN x ELSE f[t]]
Less(n, k)     == IF n >= k THEN n - k ELSE 0   \* saturating_sub
Has(a, role)   == <<a, role>> \in roles

(* mint and batch_mint: the hard cap is asked of batches only.             *)
Mint(caller, tos) ==
    LET first == nextTokenId
        new   == first .. (first + Len(tos) - 1)
        To(t) == tos[t - first + 1]
        Recorded(f) == [t \in Id |-> IF t \in new THEN To(t) ELSE f[t]] IN
    /\ Has(caller, "OWNER") \/ Has(caller, "ADMIN") \/ Has(caller, "MINTER")
    /\ ~isPaused
    /\ maxSupply # None => totalSupply + Len(tos) <= maxSupply
    /\ Len(tos) > 1 => Len(tos) <= MaxBatch /\ totalSupply + Len(tos) <= HardCap
    /\ new # {} /\ new \subseteq Id
    /\ tokenOwner' = Recorded(tokenOwner) /\ dataOwner' = Recorded(dataOwner)
    /\ layout' = SetOn(layout, new, Current)
    /\ balance' = [a \in Account |-> balance[a] + Cardinality({t \in new : To(t) = a})]
    /\ totalSupply' = totalSupply + Len(tos)
    /\ nextTokenId' = first + Len(tos)
    /\ UNCHANGED <<tokenApproved, approver, maxSupply, settings, versions>>

(* A TokenData entry can be read if it is there and has the new layout: the*)
(* host panics on the old one.                                             *)
Readable(t) == dataOwner[t] # None /\ layout[t] = Current

MayMove(caller, t) ==
    \/ caller = tokenOwner[t] \/ caller = tokenApproved[t]
    \/ <<tokenOwner[t], caller>> \in operators

(* do_transfer_effects for each token of the batch; from's balance is      *)
(* written before to's is read.                                            *)
Moved(from, to, S) ==
    LET taken == [balance EXCEPT ![from] = Less(@, Cardinality(S))] IN
    /\ tokenOwner' = SetOn(tokenOwner, S, to) /\ dataOwner' = SetOn(dataOwner, S, to)
    /\ balance' = [taken EXCEPT ![to] = @ + Cardinality(S)]
    /\ UNCHANGED <<layout, totalSupply, supplies, settings, versions>>

(* Mutant: the approval outlives the transfer.                             *)
StillApproved(S) == UNCHANGED <<tokenApproved, approver>>

Unapproved(S) ==
    tokenApproved' = SetOn(tokenApproved, S, None) /\ approver' = SetOn(approver, S, None)

(* transfer, safe_transfer_from, batch_transfer                            *)
Transfer(caller, from, to, S) ==
    /\ \A t \in S : tokenOwner[t] = from /\ MayMove(caller, t) /\ Readable(t)
    /\ ~isPaused
    /\ Moved(from, to, S) /\ Unapproved(S)

(* burn, batch_burn: not asked whether the contract is paused; the marker  *)
(* of the migration stays.                                                 *)
Burn(caller, S) ==
    /\ \A t \in S : tokenOwner[t] # None /\ Readable(t)
    /\ Has(caller, "BURNER") \/ \A t \in S : tokenOwner[t] = caller
    /\ tokenOwner' = SetOn(tokenOwner, S, None) /\ dataOwner' = SetOn(dataOwner, S, None)
    /\ balance' = [a \in Account |-> Less(balance[a], Cardinality(S \cap Of(a)))]
    /\ totalSupply' = Less(totalSupply, Cardinality(S))
    /\ Unapproved(S)
    /\ UNCHANGED <<layout, supplies, settings, versions>>

Approve(owner, approved, t) ==
    /\ tokenOwner[t] = owner
    /\ tokenApproved' = [tokenApproved EXCEPT ![t] = approved]
    /\ approver' = [approver EXCEPT ![t] = owner]
    /\ UNCHANGED <<tokenOwner, dataOwner, layout, balance, totalSupply, supplies,
                   settings, versions>>

SetApprovalForAll(owner, operator, approved) ==
    /\ operators' = IF approved THEN operators \cup {<<owner, operator>>}
                                ELSE operators \ {<<owner, operator>>}
    /\ UNCHANGED <<tokens, supplies, roles, isPaused, upgradeAdmin, versions>>

-----------------------------------------------------------------------------
(* Roles, the pause and the upgrade.                                       *)
GrantRole(caller, target, role) ==
    /\ Has(caller, "OWNER") /\ ~Has(target, role)
    /\ roles' = roles \cup {<<target, role>>}
    /\ UNCHANGED <<tokens, supplies, operators, isPaused, upgradeAdmin, versions>>

RevokeRole(caller, target, role) ==
    /\ Has(caller, "OWNER") /\ Has(target, role)
    /\ roles' = roles \ {<<target, role>>}
    /\ UNCHANGED <<tokens, supplies, operators, isPaused, upgradeAdmin, versions>>

SetPaused(caller, paused) ==
    /\ Has(caller, "OWNER") \/ Has(caller, "ADMIN")
    /\ isPaused' = paused
    /\ UNCHANGED <<tokens, supplies, operators, roles, upgradeAdmin, versions>>

MayUpgrade(caller) == caller \in {upgradeAdmin, Deployer}

SetUpgradeAdmin(caller, new) ==
    /\ MayUpgrade(caller)
    /\ upgradeAdmin' = new
    /\ UNCHANGED <<tokens, supplies, operators, roles, isPaused, versions>>

(* migrate_v1_to_v2: the ids from 1 to the supply that carry no marker; one*)
(* that is burned, or has the new layout already, fails the call.          *)
Scanned  == 1..totalSupply
ToRead   == Scanned \ migrated
OldData(t) == dataOwner[t] # None /\ layout[t] = 1

(* Mutant: an id without data is passed over.                              *)
OldOrNone(t) == dataOwner[t] = None \/ layout[t] = 1

Migrates(t) == OldData(t)

PerformUpgrade(caller, target) ==
    /\ MayUpgrade(caller) /\ isPaused
    /\ storageVersion < target /\ target <= Current
    /\ \A t \in ToRead : Migrates(t)
    /\ layout' = SetOn(layout, ToRead, Current)
    /\ migrated' = migrated \cup Scanned
    /\ storageVersion' = target
    /\ UNCHANGED <<tokenOwner, dataOwner, tokenApproved, balance, totalSupply, approver,
                   supplies, settings>>

-----------------------------------------------------------------------------
(* Settings are called to change something: to set them again does nothing.*)
Batches == {S \in SUBSET Id : Cardinality(S) \in 1..MaxBatch}

TokenNext(caller) ==
    \/ \E n \in 1..MaxBatch : \E tos \in [1..n -> Account] : Mint(caller, tos)
    \/ \E from, to \in Account, S \in Batches : Transfer(caller, from, to, S)
    \/ \E S \in Batches : Burn(caller, S)
    \/ \E a \in Account, t \in Id : Approve(caller, a, t)
    \/ \E a \in Account \ {caller} :
          SetApprovalForAll(caller, a, <<caller, a>> \notin operators)

AdminNext(caller) ==
    \/ \E a \in Account, r \in Role : GrantRole(caller, a, r) \/ RevokeRole(caller, a, r)
    \/ SetPaused(caller, ~isPaused)
    \/ \E a \in Account \ {upgradeAdmin} : SetUpgradeAdmin(caller, a)
    \/ \E v \in 1..Current : PerformUpgrade(caller, v)

Next == \E caller \in Account : TokenNext(caller) \/ AdminNext(caller)

-----------------------------------------------------------------------------
(* Through any batches, transfers to oneself, burns and migrations: the    *)
(* two entries of a token name one owner, an account's balance and the     *)
(* supply count the tokens, no id is used again, the maximum holds.        *)
NftTablesAgree ==
    /\ dataOwner = tokenOwner
    /\ \A a \in Account : balance[a] = Cardinality(Of(a))
    /\ totalSupply = Cardinality(Minted)
    /\ \A t \in Minted : t < nextTokenId
    /\ maxSupply # None => totalSupply <= maxSupply

(* A token that somebody may take by approval was approved by its owner:   *)
(* no approval passes to the next owner or outlives a burn.                *)
ApprovalIsOwners ==
    \A t \in Id : tokenApproved[t] # None =>
        tokenOwner[t] # None /\ approver[t] = tokenOwner[t]

(* Once the contract says it has the new layout every token can be read,   *)
(* though the migration looks only at the ids up to the supply.            *)
UpgradeLeavesNone == storageVersion = Current => \A t \in Minted : layout[t] = Current

(* Not kept: a contract of the old layout can be upgraded once it is paused*)
(* ("every existing token", says the comment of migrate_v1_to_v2).         *)
UpgradeGoesThrough == storageVersion < Current => \A t \in ToRead : Migrates(t)
=============================================================================
