----------------------------- MODULE PartsProofs -----------------------------
(* For any accounts, tokens, limits and fees the tables of a collection and*)
(* of the NFT contract agree, beside the other parts as alone, approvals   *)
(* are the owner's and a migration is complete; for any accounts and any   *)
(* number of calls the browser holds the tokens of whoever signed in last; *)
(* all who stored the same bytes were told of the same copy; a quiet index *)
(* shows the row or there is a reason why not; a wallet-only account keeps *)
(* a wallet; whoever trades more is not charged more; a transaction runs   *)
(* once, its operations in order.                                          *)
EXTENDS MCParts, FiniteSetTheorems, WellFoundedInduction, TLAPS

Coll     == C!Collection
Owned(c) == {t \in Token : c.owner[t] # None}

TablesInv ==
    /\ admin \in Account /\ colls \in Seq(Coll)
    /\ CollectionsAgree

LEMMA TokensFinite == IsFiniteSet(Token) /\ None \notin Account /\ None \notin Nat
                      /\ Supplies \subseteq Nat \cup {None}
BY Zenon, Constants DEF C!CollectionConstants, C!IsFiniteSet, IsFiniteSet

LEMMA SameCardinality == \A V : C!Cardinality(V) = Cardinality(V)
BY Zenon DEF C!Cardinality, Cardinality, C!IsFiniteSet, IsFiniteSet

(* The tables agree, said with the operator above.                         *)
Agrees(c) ==
    /\ c.metadata = Owned(c) /\ c.supply = Cardinality(Owned(c))
    /\ c.max # None => c.supply <= c.max
    /\ \A a \in Account, t \in Token :
          c.balance[<<a, t>>] = IF c.owner[t] = a THEN 1 ELSE 0

LEMMA SameAgree == \A c : C!Agree(c) <=> Agrees(c)
BY SameCardinality, Zenon DEF C!Agree, Agrees, Owned

-----------------------------------------------------------------------------
LEMMA NewCollection ==
    ASSUME admin \in Account, NEW max \in Supplies
    PROVE  C!Deployed(max) \in Coll /\ Agrees(C!Deployed(max))
<1> DEFINE c == C!Deployed(max)
<1>1. c \in Coll
  BY DEF C!Deployed, Coll, C!Collection
<1>2. Owned(c) = {}
  BY DEF Owned, C!Deployed
<1>3. c.max # None => 0 <= c.max
  BY TokensFinite DEF C!Deployed
<1>4. \A a \in Account, t \in Token : c.owner[t] # a /\ c.balance[<<a, t>>] = 0
  BY TokensFinite DEF C!Deployed
<1>5. c.metadata = {} /\ c.supply = 0
  BY DEF C!Deployed
<1> QED BY <1>1, <1>2, <1>3, <1>4, <1>5, FS_EmptySet DEF Agrees

Owners   == [Token -> Account \cup {None}]
Balances == [Account \X Token -> Nat]

(* A collection after its tables were written.                             *)
Written(c, metadata, owner, held, supply) ==
    [c EXCEPT !.metadata = metadata, !.owner = owner, !.balance = held,
              !.supply = supply]

LEMMA WrittenType ==
    ASSUME NEW c \in Coll, NEW metadata \in SUBSET Token, NEW owner \in Owners,
           NEW held \in Balances, NEW supply \in Nat
    PROVE  Written(c, metadata, owner, held, supply) \in Coll
BY DEF Written, Owners, Balances, Coll, C!Collection

LEMMA Minted ==
    ASSUME NEW c \in Coll, Agrees(c), NEW to \in Account, NEW t \in Token,
           t \notin c.metadata, c.max # None => c.supply < c.max,
           NEW d, d = [c EXCEPT !.metadata = @ \cup {t}, !.owner[t] = to,
                         !.balance[<<to, t>>] = @ + 1, !.supply = @ + 1]
    PROVE  d \in Coll /\ Agrees(d)
<1> DEFINE owner == [c.owner EXCEPT ![t] = to]
           held == [c.balance EXCEPT ![<<to, t>>] = @ + 1]
<1>1. d \in Coll
  <2>1. owner \in Owners /\ held \in Balances
    BY DEF Coll, C!Collection, Owners, Balances
  <2>2. c.metadata \cup {t} \in SUBSET Token /\ c.supply + 1 \in Nat
    BY DEF Coll, C!Collection
  <2>3. d = Written(c, c.metadata \cup {t}, owner, held, c.supply + 1)
    BY DEF Written
  <2> HIDE DEF owner, held
  <2> QED BY <2>1, <2>2, <2>3, WrittenType
<1>2. /\ d.owner = owner /\ d.supply = c.supply + 1
      /\ d.metadata = c.metadata \cup {t} /\ d.max = c.max
      /\ d.balance = held
  BY DEF Coll, C!Collection
<1>3. Owned(d) = Owned(c) \cup {t} /\ t \notin Owned(c) /\ IsFiniteSet(Owned(c))
  BY <1>2, TokensFinite, FS_Subset DEF Owned, Coll, C!Collection, Agrees
<1>4. Cardinality(Owned(d)) = Cardinality(Owned(c)) + 1
  BY <1>3, FS_AddElement
<1>5. d.max # None => d.supply <= d.max
  BY <1>2, TokensFinite DEF Coll, C!Collection
<1>6. ASSUME NEW a \in Account, NEW u \in Token
      PROVE  d.balance[<<a, u>>] = IF d.owner[u] = a THEN 1 ELSE 0
  BY <1>2, <1>3, TokensFinite DEF Agrees, Owned, Coll, C!Collection
<1> QED BY <1>1, <1>2, <1>3, <1>4, <1>5, <1>6 DEF Agrees

LEMMA Transferred ==
    ASSUME NEW c \in Coll, Agrees(c), NEW from \in Account, NEW to \in Account,
           NEW t \in Token, c.owner[t] = from, c.balance[<<from, t>>] > 0,
           NEW taken, taken = [c.balance EXCEPT ![<<from, t>>] = @ - 1],
           NEW d, d = [c EXCEPT !.owner[t] = to,
                         !.balance = [taken EXCEPT ![<<to, t>>] = @ + 1]]
    PROVE  d \in Coll /\ Agrees(d)
<1> DEFINE owner == [c.owner EXCEPT ![t] = to]
           held == [taken EXCEPT ![<<to, t>>] = @ + 1]
<1>1. taken \in Balances /\ held \in Balances /\ owner \in Owners
  BY DEF Coll, C!Collection, Owners, Balances
<1>2. d \in Coll
  <2>1. d = Written(c, c.metadata, owner, held, c.supply)
    BY DEF Written, Coll, C!Collection
  <2>2. c.metadata \in SUBSET Token /\ c.supply \in Nat
    BY DEF Coll, C!Collection
  <2> HIDE DEF owner, held
  <2> QED BY <1>1, <2>1, <2>2, WrittenType
<1>3. /\ d.owner = owner /\ d.supply = c.supply
      /\ d.metadata = c.metadata /\ d.max = c.max /\ d.balance = held
  BY DEF Coll, C!Collection
<1>4. Owned(d) = Owned(c)
  BY <1>3, TokensFinite DEF Owned, Coll, C!Collection
<1>5. ASSUME NEW a \in Account, NEW u \in Token
      PROVE  d.balance[<<a, u>>] = IF d.owner[u] = a THEN 1 ELSE 0
  <2>1. /\ c.balance \in Balances /\ c.owner \in Owners
        /\ c.balance[<<a, u>>] = IF c.owner[u] = a THEN 1 ELSE 0
        /\ c.balance[<<to, t>>] = IF from = to THEN 1 ELSE 0
        /\ c.balance[<<from, t>>] = 1
    BY DEF Agrees, Coll, C!Collection, Balances, Owners
  <2>2. /\ taken[<<a, u>>] = IF u = t THEN 0 ELSE c.balance[<<a, u>>]
        /\ taken[<<to, t>>] = 0
    BY <2>1 DEF Balances
  <2>3. held[<<a, u>>] = IF <<a, u>> = <<to, t>> THEN 1 ELSE taken[<<a, u>>]
    BY <1>1, <2>2 DEF Balances
  <2>4. owner[u] = IF u = t THEN to ELSE c.owner[u]
    BY <2>1 DEF Owners
  <2> HIDE DEF owner, held
  <2> QED BY <1>3, <2>1, <2>2, <2>3, <2>4
<1> QED BY <1>2, <1>3, <1>4, <1>5 DEF Agrees

LEMMA Burned ==
    ASSUME NEW c \in Coll, Agrees(c), NEW from \in Account, NEW t \in Token,
           c.owner[t] = from, c.balance[<<from, t>>] > 0, c.supply > 0,
           NEW d, d = [c EXCEPT !.owner[t] = None, !.metadata = @ \ {t},
                         !.balance[<<from, t>>] = @ - 1, !.supply = @ - 1]
    PROVE  d \in Coll /\ Agrees(d)
<1> DEFINE owner == [c.owner EXCEPT ![t] = None]
           held == [c.balance EXCEPT ![<<from, t>>] = @ - 1]
<1>1. d \in Coll
  <2>1. owner \in Owners /\ held \in Balances
    BY DEF Coll, C!Collection, Owners, Balances
  <2>2. c.metadata \ {t} \in SUBSET Token /\ c.supply - 1 \in Nat
    BY DEF Coll, C!Collection
  <2>3. d = Written(c, c.metadata \ {t}, owner, held, c.supply - 1)
    BY DEF Written
  <2> HIDE DEF owner, held
  <2> QED BY <2>1, <2>2, <2>3, WrittenType
<1>2. /\ d.owner = owner /\ d.supply = c.supply - 1
      /\ d.metadata = c.metadata \ {t} /\ d.max = c.max
      /\ d.balance = held
  BY DEF Coll, C!Collection
<1>3. Owned(d) = Owned(c) \ {t} /\ t \in Owned(c) /\ IsFiniteSet(Owned(c))
  BY <1>2, TokensFinite, FS_Subset DEF Owned, Coll, C!Collection
<1>4. Cardinality(Owned(d)) = Cardinality(Owned(c)) - 1
  BY <1>3, FS_RemoveElement
<1>5. d.max # None => d.supply <= d.max
  BY <1>2, TokensFinite DEF Coll, C!Collection, Agrees
<1>6. ASSUME NEW a \in Account, NEW u \in Token
      PROVE  d.balance[<<a, u>>] = IF d.owner[u] = a THEN 1 ELSE 0
  BY <1>2, TokensFinite DEF Agrees, Coll, C!Collection
<1> QED BY <1>1, <1>2, <1>3, <1>4, <1>5, <1>6 DEF Agrees

-----------------------------------------------------------------------------
LEMMA InvInit == Init => TablesInv
BY DEF Init, C!Init, TablesInv, CollectionsAgree, C!TablesAgree

(* Writing back one collection that agrees keeps the invariant.            *)
LEMMA SavedKeeps ==
    ASSUME TablesInv, NEW k \in DOMAIN colls, NEW d \in Coll, Agrees(d), C!Save(k, d)
    PROVE  TablesInv'
<1>1. admin' = admin /\ colls' = [colls EXCEPT ![k] = d]
  BY DEF C!Save, C!fvars
<1>2. colls' \in Seq(Coll) /\ DOMAIN colls' = DOMAIN colls
  BY <1>1 DEF TablesInv
<1>3. \A i \in DOMAIN colls : Agrees(colls[i])
  BY SameAgree DEF TablesInv, CollectionsAgree, C!TablesAgree
<1>4. \A i \in DOMAIN colls' : Agrees(colls'[i])
  BY <1>1, <1>2, <1>3 DEF TablesInv
<1>5. CollectionsAgree'
  BY <1>4, SameAgree DEF CollectionsAgree, C!TablesAgree
<1> QED BY <1>1, <1>2, <1>5 DEF TablesInv

(* Settings that say nothing about tokens.                                 *)
LEMMA SettingKeeps ==
    ASSUME TablesInv, NEW k \in DOMAIN colls, NEW minters \in SUBSET Account,
           NEW paused \in BOOLEAN,
           C!Save(k, [colls[k] EXCEPT !.minters = minters, !.paused = paused])
    PROVE  TablesInv'
<1> DEFINE c == colls[k]
           d == [c EXCEPT !.minters = minters, !.paused = paused]
<1>1. c \in Coll /\ Agrees(c)
  BY SameAgree DEF TablesInv, CollectionsAgree, C!TablesAgree
<1>2. /\ d \in Coll /\ d.metadata = c.metadata /\ d.owner = c.owner
      /\ d.supply = c.supply /\ d.max = c.max /\ d.balance = c.balance
  BY <1>1 DEF Coll, C!Collection
<1>3. Agrees(d)
  BY <1>1, <1>2 DEF Agrees, Owned
<1> QED BY <1>2, <1>3, SavedKeeps

-----------------------------------------------------------------------------
LEMMA TablesStep == TablesInv /\ [Next]_vars => TablesInv'
<1> SUFFICES ASSUME TablesInv, [Next]_vars PROVE TablesInv'
  OBVIOUS
<1>1. CASE UNCHANGED ofCollections
  BY <1>1 DEF ofCollections, TablesInv, CollectionsAgree, C!TablesAgree
<1>2. CASE C!Next
  <2>0. \A k \in DOMAIN colls : colls[k] \in Coll /\ Agrees(colls[k])
    BY SameAgree DEF TablesInv, CollectionsAgree, C!TablesAgree
  <2>1. ASSUME NEW c \in Account, NEW max \in Supplies, C!CreateCollection(c, max)
        PROVE  TablesInv'
    <3>1. C!Deployed(max) \in Coll /\ C!Agree(C!Deployed(max))
      BY NewCollection, SameAgree DEF TablesInv
    <3>2. admin' = admin /\ colls' = Append(colls, C!Deployed(max))
      BY <2>1 DEF C!CreateCollection
    <3> HIDE DEF C!Deployed
    <3> QED BY <3>1, <3>2 DEF TablesInv, CollectionsAgree, C!TablesAgree
  <2>2. ASSUME admin' \in Account, colls' = colls
        PROVE  TablesInv'
    BY <2>2 DEF TablesInv, CollectionsAgree, C!TablesAgree
  <2>3. ASSUME NEW k \in DOMAIN colls, NEW a \in Account, NEW b \in Account,
               NEW t \in Token, C!Mint(k, a, b, t)
        PROVE  TablesInv'
    <3> DEFINE d == [colls[k] EXCEPT !.metadata = @ \cup {t}, !.owner[t] = b,
                         !.balance[<<b, t>>] = @ + 1, !.supply = @ + 1]
    <3>1. d \in Coll /\ Agrees(d)
      BY <2>0, <2>3, Minted DEF C!Mint
    <3>2. C!Save(k, d)
      BY <2>3 DEF C!Mint
    <3> QED BY <3>1, <3>2, SavedKeeps
  <2>4. ASSUME NEW k \in DOMAIN colls, NEW a \in Account, NEW b \in Account,
               NEW t \in Token, C!Transfer(k, a, b, t)
        PROVE  TablesInv'
    <3> DEFINE taken == [colls[k].balance EXCEPT ![<<a, t>>] = @ - 1]
               d == [colls[k] EXCEPT !.owner[t] = b,
                         !.balance = [taken EXCEPT ![<<b, t>>] = @ + 1]]
    <3>1. d \in Coll /\ Agrees(d)
      BY <2>0, <2>4, Transferred DEF C!Transfer
    <3>2. C!Save(k, d)
      BY <2>4 DEF C!Transfer
    <3> QED BY <3>1, <3>2, SavedKeeps
  <2>5. ASSUME NEW k \in DOMAIN colls, NEW a \in Account, NEW t \in Token,
               C!Burn(k, a, t)
        PROVE  TablesInv'
    <3> DEFINE d == [colls[k] EXCEPT !.owner[t] = None, !.metadata = @ \ {t},
                         !.balance[<<a, t>>] = @ - 1, !.supply = @ - 1]
    <3>1. d \in Coll /\ Agrees(d)
      BY <2>0, <2>5, Burned DEF C!Burn
    <3>2. C!Save(k, d)
      BY <2>5 DEF C!Burn
    <3> QED BY <3>1, <3>2, SavedKeeps
  <2>6. ASSUME NEW k \in DOMAIN colls, NEW b \in BOOLEAN, C!SetPause(k, b)
        PROVE  TablesInv'
    <3>1. [colls[k] EXCEPT !.paused = b] =
              [colls[k] EXCEPT !.minters = colls[k].minters, !.paused = b]
      BY <2>0 DEF Coll, C!Collection
    <3>2. colls[k].minters \in SUBSET Account
      BY <2>0 DEF Coll, C!Collection
    <3> QED BY <2>6, <3>1, <3>2, SettingKeeps DEF C!SetPause
  <2>7. ASSUME NEW k \in DOMAIN colls, NEW a \in Account, NEW b \in BOOLEAN,
               C!SetMinter(k, a, b)
        PROVE  TablesInv'
    <3> DEFINE minters == IF b THEN colls[k].minters \cup {a}
                          ELSE colls[k].minters \ {a}
    <3>1. [colls[k] EXCEPT !.minters = minters] =
              [colls[k] EXCEPT !.minters = minters, !.paused = colls[k].paused]
      BY <2>0 DEF Coll, C!Collection
    <3>2. minters \in SUBSET Account /\ colls[k].paused \in BOOLEAN
      BY <2>0 DEF Coll, C!Collection
    <3>3. C!Save(k, [colls[k] EXCEPT !.minters = minters, !.paused = colls[k].paused])
      BY <2>7, <3>1 DEF C!SetMinter
    <3> HIDE DEF minters
    <3> QED BY <3>2, <3>3, SettingKeeps
  <2>8. CASE \/ \E l \in Limits : C!UpdateCreatorLimit(l)
             \/ \E f \in Fees : C!SetOverflowFee(f)
             \/ \E a \in Account : C!SetAdmin(a) \/ C!ResetCreatorCollectionCount(a)
             \/ C!WithdrawFees
    BY <2>2, <2>8 DEF C!UpdateCreatorLimit, C!SetOverflowFee, C!SetAdmin,
         C!ResetCreatorCollectionCount, C!WithdrawFees, TablesInv
  <2> QED BY <1>2, <2>1, <2>3, <2>4, <2>5, <2>6, <2>7, <2>8 DEF C!Next
<1> QED BY <1>1, <1>2 DEF Next, vars

-----------------------------------------------------------------------------
(* The NFT contract.  Id is a finite set, and so is what is kept of it.    *)
Id         == K!Id
Held(o, a) == {t \in Id : o[t] = a}
Alive(o)   == {t \in Id : o[t] # None}
Deeds      == [Id -> Account \cup {None}]

(* Balances and supply count the tokens of an assignment of owners.        *)
Counts(o, b, n) == /\ \A a \in Account : b[a] = Cardinality(Held(o, a))
                   /\ n = Cardinality(Alive(o))

NftTypes ==
    /\ tokenOwner \in Deeds /\ tokenApproved \in Deeds /\ approver \in Deeds
    /\ layout \in [Id -> 1..2] /\ balance \in [Account -> Nat]
    /\ totalSupply \in Nat /\ nextTokenId \in Nat \ {0} /\ maxSupply \in Supplies
    /\ storageVersion \in 1..2

NftInv ==
    /\ NftTypes
    /\ dataOwner = tokenOwner
    /\ Counts(tokenOwner, balance, totalSupply)
    /\ \A t \in Alive(tokenOwner) : t < nextTokenId
    /\ maxSupply # None => totalSupply <= maxSupply
    /\ ApprovalIsOwners
    /\ UpgradeLeavesNone
    /\ storageVersion = 1 => migrated = {}

LEMMA NftCardinality == \A V : K!Cardinality(V) = Cardinality(V)
BY Zenon DEF K!Cardinality, Cardinality, K!IsFiniteSet, IsFiniteSet

LEMMA NftFacts == /\ IsFiniteSet(Id) /\ Id \subseteq Nat \ {0} /\ None \notin Account
                  /\ None \notin Nat /\ Supplies \subseteq Nat \cup {None}
                  /\ K!Current = 2 /\ MaxId \in Nat /\ Id = 1..MaxId
<1>1. MaxId \in Nat
  BY Constants DEF K!NftConstants
<1> QED BY <1>1, FS_Interval, TokensFinite DEF Id, K!Id, K!Current

LEMMA HeldFinite ==
    ASSUME NEW o PROVE IsFiniteSet(Alive(o)) /\ \A a : IsFiniteSet(Held(o, a))
BY NftFacts, FS_Subset DEF Alive, Held

(* What the contract's properties say, in these terms.                     *)
LEMMA NftMeaning ==
    ASSUME NftInv PROVE NftsAgree /\ ApprovalIsOwners /\ UpgradeLeavesNone
BY NftCardinality DEF NftInv, NftsAgree, K!NftTablesAgree, Counts, Held, Alive, Id,
     K!Of, K!Minted

LEMMA NftInit == Init => NftInv
<1> SUFFICES ASSUME K!Init PROVE NftInv
  BY DEF Init
<1> USE NftFacts
<1>1. PICK n \in 0..MaxOld :
         /\ storageVersion = K!Current => n = 0
         /\ maxSupply # None => n <= maxSupply
         /\ nextTokenId = n + 1
         /\ tokenOwner \in Deeds
         /\ \A t \in Id : t > n => tokenOwner[t] = None
  BY DEF K!Init, Deeds, Id
<1>2. n \in Nat /\ maxSupply \in Supplies /\ storageVersion \in 1..2
  BY <1>1, Constants DEF K!Init, K!NftConstants
<1>3. Counts(tokenOwner, balance, totalSupply)
  BY NftCardinality DEF K!Init, Counts, Held, Alive, K!Of, K!Minted, Id
<1>4. balance \in [Account -> Nat] /\ totalSupply \in Nat
  <2>1. \A a \in Account : balance[a] \in Nat
    BY <1>3, HeldFinite, FS_CardinalityType DEF Counts
  <2>2. totalSupply \in Nat
    BY <1>3, HeldFinite, FS_CardinalityType DEF Counts
  <2> QED BY <2>1, <2>2 DEF K!Init
<1>5. Alive(tokenOwner) \subseteq 1..n
  BY <1>1, <1>2 DEF Alive
<1>6. totalSupply <= n
  <2>1. IsFiniteSet(1..n) /\ Cardinality(1..n) = n
    BY <1>2, FS_Interval
  <2> QED BY <1>3, <1>5, <2>1, FS_Subset DEF Counts
<1>7. NftTypes
  BY <1>1, <1>2, <1>4 DEF NftTypes, K!Init, Deeds, Id
<1>8. dataOwner = tokenOwner /\ (storageVersion = 1 => migrated = {})
  BY DEF K!Init
<1>9. \A t \in Alive(tokenOwner) : t < nextTokenId
  BY <1>1, <1>2, <1>5
<1>10. maxSupply # None => totalSupply <= maxSupply
  BY <1>1, <1>2, <1>4, <1>6
<1>11. ApprovalIsOwners
  BY DEF K!Init, ApprovalIsOwners, K!ApprovalIsOwners
<1>12. UpgradeLeavesNone
  BY DEF K!Init, UpgradeLeavesNone, K!UpgradeLeavesNone, K!Minted
<1> QED BY <1>3, <1>7, <1>8, <1>9, <1>10, <1>11, <1>12 DEF NftInv

LEMMA DisjointUnion ==
    ASSUME NEW X, NEW Y, IsFiniteSet(X), IsFiniteSet(Y), X \cap Y = {}
    PROVE  Cardinality(X \cup Y) = Cardinality(X) + Cardinality(Y)
<1>1. Cardinality(X \cup Y) = Cardinality(X) + Cardinality(Y) - Cardinality(X \cap Y)
  BY FS_Union
<1>2. Cardinality(X \cap Y) = 0
  BY FS_EmptySet
<1>3. Cardinality(X) \in Nat /\ Cardinality(Y) \in Nat
  BY FS_CardinalityType
<1> QED BY <1>1, <1>2, <1>3

(* Ids that are not held add up when they are given out.                   *)
LEMMA MintCounts ==
    ASSUME NEW o \in Deeds, NEW b, NEW n, Counts(o, b, n),
           NEW new \in SUBSET Id, Alive(o) \cap new = {},
           NEW p, p \in Deeds,
           \A t \in Id : IF t \in new THEN p[t] # None ELSE p[t] = o[t],
           NEW d, \A a \in Account : d[a] = b[a] + Cardinality(new \cap Held(p, a))
    PROVE  Counts(p, d, n + Cardinality(new))
<1>1. IsFiniteSet(new)
  BY NftFacts, FS_Subset
<1>2. Alive(p) = Alive(o) \cup new
  BY NftFacts DEF Alive
<1>3. Cardinality(Alive(p)) = n + Cardinality(new)
  BY <1>1, <1>2, HeldFinite, DisjointUnion DEF Counts
<1>4. ASSUME NEW a \in Account PROVE d[a] = Cardinality(Held(p, a))
  <2> DEFINE got == new \cap Held(p, a)
  <2>1. Held(p, a) = Held(o, a) \cup got /\ Held(o, a) \cap got = {}
    BY NftFacts DEF Held, Alive
  <2>2. IsFiniteSet(got) /\ IsFiniteSet(Held(o, a))
    BY <1>1, HeldFinite, FS_Subset
  <2>3. d[a] = Cardinality(Held(o, a)) + Cardinality(got)
    BY DEF Counts
  <2> HIDE DEF got
  <2> QED BY <2>1, <2>2, <2>3, DisjointUnion
<1> QED BY <1>3, <1>4 DEF Counts

LEMMA Taken ==
    ASSUME NEW X, NEW Y, IsFiniteSet(X), Y \subseteq X
    PROVE  /\ Cardinality(X \ Y) = Cardinality(X) - Cardinality(Y)
           /\ Cardinality(Y) <= Cardinality(X)
           /\ Cardinality(X) \in Nat /\ Cardinality(Y) \in Nat
<1>1. X \cap Y = Y /\ IsFiniteSet(Y)
  BY FS_Subset
<1>2. Cardinality(X \ Y) = Cardinality(X) - Cardinality(X \cap Y)
  BY FS_Difference
<1> QED BY <1>1, <1>2, FS_Subset, FS_CardinalityType

(* A batch that goes to another account, or to its owner.                  *)
LEMMA TransferCounts ==
    ASSUME NEW o \in Deeds, NEW b \in [Account -> Nat], NEW n, Counts(o, b, n),
           NEW from \in Account, NEW to \in Account, NEW B \in SUBSET Id,
           \A t \in B : o[t] = from,
           NEW taken, taken = [b EXCEPT ![from] = K!Less(@, Cardinality(B))],
           NEW d, d = [taken EXCEPT ![to] = @ + Cardinality(B)]
    PROVE  /\ K!SetOn(o, B, to) \in Deeds /\ d \in [Account -> Nat]
           /\ Counts(K!SetOn(o, B, to), d, n)
<1> DEFINE p == K!SetOn(o, B, to)
<1>1. p \in Deeds /\ \A t \in Id : p[t] = IF t \in B THEN to ELSE o[t]
  BY DEF K!SetOn, Deeds, Id
<1> HIDE DEF p
<1>2. B \subseteq Held(o, from) /\ IsFiniteSet(Held(o, from)) /\ IsFiniteSet(B)
  <2>1. B \subseteq Held(o, from)
    BY DEF Held
  <2> QED BY <2>1, HeldFinite, FS_Subset
<1>3. /\ Cardinality(Held(o, from) \ B) = Cardinality(Held(o, from)) - Cardinality(B)
      /\ Cardinality(B) <= b[from] /\ Cardinality(B) \in Nat
      /\ b[from] = Cardinality(Held(o, from))
  BY <1>2, Taken DEF Counts
<1>4. d \in [Account -> Nat]
  BY <1>3 DEF K!Less
<1>5. \A a \in Account :
         d[a] = IF from = to THEN b[a]
                ELSE IF a = from THEN b[a] - Cardinality(B)
                ELSE IF a = to THEN b[a] + Cardinality(B) ELSE b[a]
  BY <1>3 DEF K!Less
<1>6. Alive(p) = Alive(o)
  BY <1>1, NftFacts DEF Alive
<1>7. ASSUME NEW a \in Account PROVE d[a] = Cardinality(Held(p, a))
  <2>1. CASE from = to \/ a \notin {from, to}
    <3>1. Held(p, a) = Held(o, a)
      BY <1>1, <2>1 DEF Held
    <3> QED BY <1>5, <2>1, <3>1 DEF Counts
  <2>2. CASE from # to /\ a = from
    <3>1. Held(p, a) = Held(o, from) \ B
      BY <1>1, <2>2 DEF Held
    <3> QED BY <1>3, <1>5, <2>2, <3>1
  <2>3. CASE from # to /\ a = to
    <3>1. Held(p, a) = Held(o, to) \cup B /\ Held(o, to) \cap B = {}
      BY <1>1, <2>3 DEF Held
    <3>2. Cardinality(Held(o, to) \cup B) = Cardinality(Held(o, to)) + Cardinality(B)
      BY <1>2, <3>1, HeldFinite, DisjointUnion
    <3>3. b[to] = Cardinality(Held(o, to))
      BY DEF Counts
    <3> QED BY <1>5, <2>3, <3>1, <3>2, <3>3
  <2> QED BY <2>1, <2>2, <2>3
<1>8. Counts(p, d, n)
  BY <1>6, <1>7 DEF Counts
<1> QED BY <1>1, <1>4, <1>8 DEF p

(* A batch that burns, whoever held its tokens.                            *)
LEMMA BurnCounts ==
    ASSUME NEW o \in Deeds, NEW b \in [Account -> Nat], NEW n, Counts(o, b, n),
           NEW B \in SUBSET Id, \A t \in B : o[t] # None,
           NEW d, d = [a \in Account |-> K!Less(b[a], Cardinality(B \cap Held(o, a)))]
    PROVE  /\ K!SetOn(o, B, None) \in Deeds /\ d \in [Account -> Nat]
           /\ Counts(K!SetOn(o, B, None), d, K!Less(n, Cardinality(B)))
           /\ K!Less(n, Cardinality(B)) \in Nat /\ K!Less(n, Cardinality(B)) <= n
<1> DEFINE p == K!SetOn(o, B, None)
<1>1. p \in Deeds /\ \A t \in Id : p[t] = IF t \in B THEN None ELSE o[t]
  BY DEF K!SetOn, Deeds, Id
<1> HIDE DEF p
<1>2. /\ Alive(p) = Alive(o) \ B /\ B \subseteq Alive(o)
  BY <1>1, NftFacts DEF Alive
<1>3. /\ Cardinality(Alive(p)) = n - Cardinality(B) /\ Cardinality(B) <= n
      /\ n \in Nat /\ Cardinality(B) \in Nat
  BY <1>2, HeldFinite, Taken DEF Counts
<1>4. K!Less(n, Cardinality(B)) = n - Cardinality(B)
  BY <1>3 DEF K!Less
<1>5. ASSUME NEW a \in Account
      PROVE  d[a] \in Nat /\ d[a] = Cardinality(Held(p, a))
  <2>1. Held(p, a) = Held(o, a) \ (B \cap Held(o, a)) /\ B \cap Held(o, a) \subseteq Held(o, a)
    BY <1>1, NftFacts DEF Held
  <2>2. /\ Cardinality(Held(p, a)) = b[a] - Cardinality(B \cap Held(o, a))
        /\ Cardinality(B \cap Held(o, a)) <= b[a]
        /\ b[a] \in Nat /\ Cardinality(B \cap Held(o, a)) \in Nat
    BY <2>1, HeldFinite, Taken DEF Counts
  <2> QED BY <2>2 DEF K!Less
<1>6. d \in [Account -> Nat]
  BY <1>5
<1>7. Counts(p, d, n - Cardinality(B))
  BY <1>3, <1>5 DEF Counts
<1> QED BY <1>1, <1>3, <1>4, <1>6, <1>7 DEF p

LEMMA MintKeeps ==
    ASSUME NftInv, NEW caller, NEW k \in Nat, NEW tos \in [1..k -> Account],
           K!Mint(caller, tos)
    PROVE  NftInv'
<1> USE NftFacts
<1> DEFINE new == nextTokenId .. (nextTokenId + k - 1)
           To(t) == tos[t - nextTokenId + 1]
<1>1. Len(tos) = k /\ \A t \in new : To(t) \in Account
  BY DEF NftInv, NftTypes
<1>2. /\ new \subseteq Id
      /\ maxSupply # None => totalSupply + k <= maxSupply
      /\ tokenOwner' = [t \in Id |-> IF t \in new THEN To(t) ELSE tokenOwner[t]]
      /\ dataOwner' = [t \in Id |-> IF t \in new THEN To(t) ELSE dataOwner[t]]
      /\ layout' = [t \in Id |-> IF t \in new THEN 2 ELSE layout[t]]
      /\ balance' = [a \in Account |->
                        balance[a] + K!Cardinality({t \in new : To(t) = a})]
      /\ totalSupply' = totalSupply + k /\ nextTokenId' = nextTokenId + k
      /\ UNCHANGED <<tokenApproved, approver, maxSupply, storageVersion, migrated>>
  BY <1>1 DEF K!Mint, K!SetOn, K!settings, K!versions, Id
<1>3. \A t \in Alive(tokenOwner) : t \notin new
  <2>1. \A t \in Alive(tokenOwner) : t \in Nat /\ t < nextTokenId
    BY DEF NftInv, Alive
  <2>2. nextTokenId \in Nat
    BY DEF NftInv, NftTypes
  <2> QED BY <2>1, <2>2
<1> HIDE DEF new, To
<1>4. /\ tokenOwner' \in Deeds /\ dataOwner' = tokenOwner' /\ layout' \in [Id -> 1..2]
      /\ \A t \in Id : IF t \in new THEN tokenOwner'[t] = To(t) /\ tokenOwner'[t] # None
                       ELSE tokenOwner'[t] = tokenOwner[t]
  BY <1>1, <1>2 DEF NftInv, NftTypes, Deeds
<1>5. ASSUME NEW a \in Account
      PROVE  /\ balance'[a] = balance[a] + Cardinality(new \cap Held(tokenOwner', a))
             /\ balance'[a] \in Nat
  <2> DEFINE got == new \cap Held(tokenOwner', a)
  <2>1. {t \in new : To(t) = a} = got
    BY <1>2, <1>4 DEF Held
  <2>2. balance'[a] = balance[a] + Cardinality(got)
    BY <1>2, <2>1, NftCardinality
  <2>3. IsFiniteSet(got)
    BY <1>2, FS_Subset
  <2>4. Cardinality(got) \in Nat
    BY <2>3, FS_CardinalityType
  <2> QED BY <2>2, <2>4 DEF NftInv, NftTypes
<1>6. balance' \in [Account -> Nat]
  BY <1>2, <1>5
<1>7. Counts(tokenOwner', balance', totalSupply')
  <2>1. Cardinality(new) = k
    <3>1. nextTokenId \in Int /\ nextTokenId + k - 1 \in Int /\ k \in Nat
      BY DEF NftInv, NftTypes
    <3> QED BY <3>1, FS_Interval DEF new
  <2>2. Alive(tokenOwner) \cap new = {}
    BY <1>3 DEF new
  <2>3. tokenOwner \in Deeds /\ Counts(tokenOwner, balance, totalSupply)
    BY DEF NftInv, NftTypes
  <2>4. \A t \in Id : IF t \in new THEN tokenOwner'[t] # None
                      ELSE tokenOwner'[t] = tokenOwner[t]
    BY <1>4
  <2>5. Counts(tokenOwner', balance', totalSupply + Cardinality(new))
    <3>1. /\ new \in SUBSET Id /\ tokenOwner' \in Deeds
          /\ \A a \in Account :
                balance'[a] = balance[a] + Cardinality(new \cap Held(tokenOwner', a))
      BY <1>2, <1>4, <1>5
    <3> QED BY <2>2, <2>3, <2>4, <3>1, MintCounts
  <2> QED BY <1>2, <2>1, <2>5
<1>8. ASSUME NEW t \in Alive(tokenOwner') PROVE t < nextTokenId'
  <2>1. t \in Id /\ (t \in Alive(tokenOwner) \/ t \in new)
    BY <1>4 DEF Alive
  <2>2. nextTokenId \in Nat /\ (t \in Alive(tokenOwner) => t < nextTokenId)
    BY DEF NftInv, NftTypes
  <2>3. t \in Nat /\ (t \in new => t < nextTokenId + k)
    BY <2>1, <2>2 DEF new
  <2> QED BY <1>2, <2>1, <2>2, <2>3
<1>9. ApprovalIsOwners'
  BY <1>2, <1>4, <1>3 DEF NftInv, ApprovalIsOwners, K!ApprovalIsOwners, Alive, Id
<1>10. UpgradeLeavesNone'
  BY <1>2, <1>4 DEF NftInv, UpgradeLeavesNone, K!UpgradeLeavesNone, K!Minted, Id
<1>11. NftTypes'
  BY <1>2, <1>4, <1>6 DEF NftInv, NftTypes
<1>12. maxSupply' # None => totalSupply' <= maxSupply'
  BY <1>2
<1>13. storageVersion' = 1 => migrated' = {}
  BY <1>2 DEF NftInv
<1> QED BY <1>4, <1>7, <1>8, <1>9, <1>10, <1>11, <1>12, <1>13 DEF NftInv

(* A step that writes S's owners and clears its approvals.                 *)
LEMMA MoveKeeps ==
    ASSUME NftInv, NEW B \in SUBSET Id, NEW to \in Account \cup {None},
           \A t \in B : tokenOwner[t] # None,
           tokenOwner' = K!SetOn(tokenOwner, B, to), dataOwner' = tokenOwner',
           K!Unapproved(B), tokenOwner' \in Deeds,
           balance' \in [Account -> Nat], totalSupply' \in Nat, totalSupply' <= totalSupply,
           Counts(tokenOwner', balance', totalSupply'),
           UNCHANGED <<layout, nextTokenId, maxSupply, storageVersion, migrated>>
    PROVE  NftInv'
<1> USE NftFacts
<1>1. \A t \in Id : /\ tokenOwner'[t] = IF t \in B THEN to ELSE tokenOwner[t]
                    /\ tokenApproved'[t] = IF t \in B THEN None ELSE tokenApproved[t]
                    /\ approver'[t] = IF t \in B THEN None ELSE approver[t]
  BY DEF K!SetOn, K!Unapproved, Id
<1>2. tokenApproved' \in Deeds /\ approver' \in Deeds
  BY DEF NftInv, NftTypes, Deeds, K!SetOn, K!Unapproved, Id
<1>3. Alive(tokenOwner') \subseteq Alive(tokenOwner)
  BY <1>1 DEF Alive
<1>4. NftTypes'
  BY <1>2 DEF NftInv, NftTypes
<1>5. ApprovalIsOwners'
  BY <1>1 DEF NftInv, ApprovalIsOwners, K!ApprovalIsOwners, Id
<1>6. UpgradeLeavesNone'
  BY <1>3 DEF NftInv, UpgradeLeavesNone, K!UpgradeLeavesNone, K!Minted, Alive, Id
<1>7. maxSupply # None => totalSupply' <= maxSupply
  BY DEF NftInv, NftTypes
<1> QED BY <1>3, <1>4, <1>5, <1>6, <1>7 DEF NftInv

(* Approving and settings: the tables stay.                                *)
LEMMA SettingsKeep ==
    ASSUME NftInv,
           UNCHANGED <<tokenOwner, dataOwner, layout, balance, totalSupply, nextTokenId,
                       maxSupply, storageVersion, migrated>>,
           tokenApproved' \in Deeds, approver' \in Deeds, ApprovalIsOwners'
    PROVE  NftInv'
BY DEF NftInv, NftTypes, UpgradeLeavesNone, K!UpgradeLeavesNone, K!Minted

(* When the migration goes through, the ids up to the supply are as many as*)
(* the tokens and each holds one: there is no token beyond them.           *)
LEMMA UpgradeKeeps ==
    ASSUME NftInv, NEW caller, NEW target \in 1..2, K!PerformUpgrade(caller, target)
    PROVE  NftInv'
<1> USE NftFacts
<1>1. /\ storageVersion = 1 /\ migrated = {}
      /\ \A t \in 1..totalSupply : dataOwner[t] # None
      /\ storageVersion' = 2
      /\ layout' = [t \in Id |-> IF t \in 1..totalSupply THEN 2 ELSE layout[t]]
  <2>1. storageVersion = 1 /\ migrated = {} /\ target = 2
    BY DEF K!PerformUpgrade, NftInv, NftTypes
  <2>2. K!ToRead = 1..totalSupply
    BY <2>1 DEF K!ToRead, K!Scanned
  <2> QED BY <2>1, <2>2 DEF K!PerformUpgrade, K!Migrates, K!OldData, K!SetOn, Id
<1>2. /\ UNCHANGED <<tokenOwner, dataOwner, tokenApproved, balance, totalSupply, approver,
                     nextTokenId, maxSupply>>
  BY DEF K!PerformUpgrade, K!supplies
<1>3. totalSupply \in Nat /\ totalSupply = Cardinality(Alive(tokenOwner))
  BY DEF NftInv, NftTypes, Counts
<1>4. Cardinality(1..totalSupply) = totalSupply /\ IsFiniteSet(1..totalSupply)
  BY <1>3, FS_Interval
<1>5. totalSupply <= MaxId
  <2>1. Cardinality(1..MaxId) = MaxId
    BY FS_Interval
  <2>2. Alive(tokenOwner) \in SUBSET Id
    BY DEF Alive
  <2>3. Cardinality(Alive(tokenOwner)) <= Cardinality(Id)
    BY <2>2, FS_Subset
  <2> QED BY <1>3, <2>1, <2>3
<1>6. 1..totalSupply \subseteq Alive(tokenOwner)
  BY <1>1, <1>3, <1>5 DEF Alive, NftInv
<1>7. 1..totalSupply = Alive(tokenOwner)
  BY <1>3, <1>4, <1>6, HeldFinite, FS_Subset
<1>8. UpgradeLeavesNone'
  BY <1>1, <1>2, <1>7 DEF UpgradeLeavesNone, K!UpgradeLeavesNone, K!Minted, Alive, Id
<1>9. ApprovalIsOwners'
  BY <1>2 DEF NftInv, ApprovalIsOwners, K!ApprovalIsOwners
<1>10. NftTypes'
  BY <1>1, <1>2 DEF NftInv, NftTypes
<1> QED BY <1>1, <1>2, <1>8, <1>9, <1>10 DEF NftInv

LEMMA NftStep == NftInv /\ [Next]_vars => NftInv'
<1> SUFFICES ASSUME NftInv, [Next]_vars PROVE NftInv'
  OBVIOUS
<1> USE NftFacts
<1>1. /\ tokenOwner \in Deeds /\ balance \in [Account -> Nat] /\ dataOwner = tokenOwner
      /\ Counts(tokenOwner, balance, totalSupply) /\ totalSupply \in Nat
      /\ ApprovalIsOwners /\ tokenApproved \in Deeds /\ approver \in Deeds
  BY DEF NftInv, NftTypes
<1>2. ASSUME UNCHANGED <<tokenOwner, dataOwner, layout, balance, totalSupply, nextTokenId,
                         maxSupply, storageVersion, migrated, tokenApproved, approver>>
      PROVE  NftInv'
  BY <1>1, <1>2, SettingsKeep DEF ApprovalIsOwners, K!ApprovalIsOwners
<1>3. CASE UNCHANGED ofNfts
  BY <1>2, <1>3 DEF ofNfts
<1>4. ASSUME NEW caller \in Account, K!TokenNext(caller) PROVE NftInv'
  <2>1. ASSUME NEW n \in 1..MaxBatch, NEW tos \in [1..n -> Account], K!Mint(caller, tos)
        PROVE  NftInv'
    BY <2>1, MintKeeps
  <2>2. ASSUME NEW from \in Account, NEW to \in Account, NEW B \in K!Batches,
               K!Transfer(caller, from, to, B)
        PROVE  NftInv'
    <3> DEFINE taken == [balance EXCEPT ![from] = K!Less(@, Cardinality(B))]
    <3>1. B \in SUBSET Id /\ \A t \in B : tokenOwner[t] = from
      BY <2>2 DEF K!Transfer, K!Batches, Id
    <3>2. /\ tokenOwner' = K!SetOn(tokenOwner, B, to) /\ dataOwner' = tokenOwner'
          /\ balance' = [taken EXCEPT ![to] = @ + Cardinality(B)]
          /\ totalSupply' = totalSupply /\ K!Unapproved(B)
          /\ UNCHANGED <<layout, nextTokenId, maxSupply, storageVersion, migrated>>
      BY <1>1, <2>2, NftCardinality DEF K!Transfer, K!Moved, K!supplies, K!versions
    <3>3. /\ K!SetOn(tokenOwner, B, to) \in Deeds /\ balance' \in [Account -> Nat]
          /\ Counts(K!SetOn(tokenOwner, B, to), balance', totalSupply)
      <4>1. taken = [balance EXCEPT ![from] = K!Less(@, Cardinality(B))]
        OBVIOUS
      <4> HIDE DEF taken
      <4> QED BY <1>1, <3>1, <3>2, <4>1, TransferCounts
    <3>4. /\ \A t \in B : tokenOwner[t] # None
          /\ totalSupply' \in Nat /\ totalSupply' <= totalSupply
          /\ to \in Account \cup {None}
      BY <1>1, <3>1, <3>2
    <3> QED BY <3>1, <3>2, <3>3, <3>4, MoveKeeps
  <2>3. ASSUME NEW B \in K!Batches, K!Burn(caller, B) PROVE NftInv'
    <3>1. B \in SUBSET Id /\ \A t \in B : tokenOwner[t] # None
      BY <2>3 DEF K!Burn, K!Batches, Id
    <3>2. /\ tokenOwner' = K!SetOn(tokenOwner, B, None) /\ dataOwner' = tokenOwner'
          /\ balance' = [a \in Account |->
                            K!Less(balance[a], Cardinality(B \cap Held(tokenOwner, a)))]
          /\ totalSupply' = K!Less(totalSupply, Cardinality(B)) /\ K!Unapproved(B)
          /\ UNCHANGED <<layout, nextTokenId, maxSupply, storageVersion, migrated>>
      BY <1>1, <2>3, NftCardinality DEF K!Burn, K!supplies, K!versions, K!Of, Held, Id
    <3>3. /\ K!SetOn(tokenOwner, B, None) \in Deeds /\ balance' \in [Account -> Nat]
          /\ Counts(K!SetOn(tokenOwner, B, None), balance', totalSupply')
          /\ totalSupply' \in Nat /\ totalSupply' <= totalSupply
      BY <1>1, <3>1, <3>2, BurnCounts
    <3> QED BY <1>1, <3>1, <3>2, <3>3, MoveKeeps
  <2>4. ASSUME NEW a \in Account, NEW t \in K!Id, K!Approve(caller, a, t)
        PROVE  NftInv'
    <3>1. /\ UNCHANGED <<tokenOwner, dataOwner, layout, balance, totalSupply, nextTokenId,
                         maxSupply, storageVersion, migrated>>
          /\ tokenApproved' = [tokenApproved EXCEPT ![t] = a]
          /\ approver' = [approver EXCEPT ![t] = caller] /\ tokenOwner[t] = caller
      BY <2>4 DEF K!Approve, K!supplies, K!versions
    <3>2. tokenApproved' \in Deeds /\ approver' \in Deeds
      BY <1>1, <1>4, <2>4, <3>1 DEF Deeds, Id
    <3>3. ApprovalIsOwners'
      BY <1>1, <1>4, <3>1 DEF ApprovalIsOwners, K!ApprovalIsOwners, Deeds, Id
    <3> QED BY <3>1, <3>2, <3>3, SettingsKeep
  <2>5. ASSUME NEW a \in Account, NEW b \in BOOLEAN, K!SetApprovalForAll(caller, a, b)
        PROVE  NftInv'
    BY <1>2, <2>5 DEF K!SetApprovalForAll, K!tokens, K!supplies, K!versions
  <2> QED BY <1>4, <2>1, <2>2, <2>3, <2>4, <2>5 DEF K!TokenNext
<1>5. ASSUME NEW caller \in Account, K!AdminNext(caller) PROVE NftInv'
  <2>1. ASSUME NEW v \in 1..K!Current, K!PerformUpgrade(caller, v) PROVE NftInv'
    BY <2>1, UpgradeKeeps
  <2>2. ASSUME NEW a \in Account, NEW r \in Role,
               \/ K!GrantRole(caller, a, r) \/ K!RevokeRole(caller, a, r)
               \/ K!SetPaused(caller, ~isPaused) \/ K!SetUpgradeAdmin(caller, a)
        PROVE  NftInv'
    BY <1>2, <2>2 DEF K!GrantRole, K!RevokeRole, K!SetPaused, K!SetUpgradeAdmin, K!tokens,
         K!supplies, K!versions
  <2>3. CASE K!SetPaused(caller, ~isPaused)
    BY <1>2, <2>3 DEF K!SetPaused, K!tokens, K!supplies, K!versions
  <2>4. ASSUME NEW a \in Account, K!SetUpgradeAdmin(caller, a) PROVE NftInv'
    BY <1>2, <2>4 DEF K!SetUpgradeAdmin, K!tokens, K!supplies, K!versions
  <2> QED BY <1>5, <2>1, <2>2, <2>3, <2>4 DEF K!AdminNext
<1>6. CASE K!Next
  BY <1>4, <1>5, <1>6 DEF K!Next
<1> QED BY <1>3, <1>6 DEF Next, vars

(* token.rs, transfer.rs: through any batches, transfers to oneself, burns *)
(* and migrations the owner entries, balances, supply and ids of the NFT   *)
(* contract agree, as do the tables of every collection of the factory.    *)
THEOREM TokenTables == Spec => []TablesAgree
<1>1. NftInv => NftsAgree
  BY NftMeaning
<1>2. TablesInv => CollectionsAgree
  BY DEF TablesInv
<1> QED BY <1>1, <1>2, InvInit, TablesStep, NftInit, NftStep, PTL DEF Spec, TablesAgree

(* transfer.rs: whoever may take a token by approval was approved by the   *)
(* one who owns it now, for any accounts, operators, batches and roles.    *)
THEOREM NftApprovals == Spec => []ApprovalIsOwners
<1>1. NftInv => ApprovalIsOwners
  BY NftMeaning
<1> QED BY <1>1, NftInit, NftStep, PTL DEF Spec

(* upgrade.rs: the migration looks at the ids up to the supply, and yet it *)
(* never says it is done while a token has the old layout.                 *)
THEOREM UpgradeIsComplete == Spec => []UpgradeLeavesNone
<1>1. NftInv => UpgradeLeavesNone
  BY NftMeaning
<1> QED BY <1>1, NftInit, NftStep, PTL DEF Spec

(* What no step does to a token: give an id out again that was given out   *)
(* and burned, or, while the contract is paused, mint or move one.         *)
BurnedForGood(t) == t < nextTokenId /\ tokenOwner[t] = None => tokenOwner'[t] = None
HeldInPause(t)   == isPaused /\ tokenOwner'[t] # None => tokenOwner'[t] = tokenOwner[t]
TokensKeep == [][\A t \in K!Id : BurnedForGood(t) /\ HeldInPause(t)]_ofNfts

LEMMA TokenSteps ==
    ASSUME NftInv, [Next]_vars, NEW t \in K!Id
    PROVE  BurnedForGood(t) /\ HeldInPause(t)
<1> USE DEF BurnedForGood, HeldInPause
<1>1. nextTokenId \in Nat /\ t \in Nat
  BY DEF NftInv, NftTypes, K!Id
<1>2. ASSUME tokenOwner' = tokenOwner PROVE BurnedForGood(t) /\ HeldInPause(t)
  BY <1>2
<1>3. ASSUME NEW caller \in Account, K!TokenNext(caller)
      PROVE  BurnedForGood(t) /\ HeldInPause(t)
  <2>1. ASSUME NEW n \in 1..MaxBatch, NEW tos \in [1..n -> Account], K!Mint(caller, tos)
        PROVE  BurnedForGood(t) /\ HeldInPause(t)
    <3>1. ~isPaused /\ (t < nextTokenId => tokenOwner'[t] = tokenOwner[t])
      BY <1>1, <2>1 DEF K!Mint, K!Id
    <3> QED BY <3>1
  <2>2. ASSUME NEW from \in Account, NEW to \in Account, NEW B \in K!Batches,
               K!Transfer(caller, from, to, B)
        PROVE  BurnedForGood(t) /\ HeldInPause(t)
    <3>1. ~isPaused /\ (\A i \in B : tokenOwner[i] = from) /\ from # None
      BY <2>2, Constants DEF K!Transfer, K!NftConstants
    <3>2. t \notin B => tokenOwner'[t] = tokenOwner[t]
      BY <2>2 DEF K!Transfer, K!Moved, K!SetOn
    <3> QED BY <3>1, <3>2
  <2>3. ASSUME NEW B \in K!Batches, K!Burn(caller, B)
        PROVE  BurnedForGood(t) /\ HeldInPause(t)
    <3>1. tokenOwner'[t] \in {None, tokenOwner[t]}
      BY <2>3 DEF K!Burn, K!SetOn
    <3> QED BY <3>1
  <2>4. ASSUME NEW a \in Account, NEW i \in K!Id, K!Approve(caller, a, i)
        PROVE  tokenOwner' = tokenOwner
    BY <2>4 DEF K!Approve
  <2>5. ASSUME NEW a \in Account, NEW b \in BOOLEAN, K!SetApprovalForAll(caller, a, b)
        PROVE  tokenOwner' = tokenOwner
    BY <2>5 DEF K!SetApprovalForAll, K!tokens
  <2> QED BY <1>2, <1>3, <2>1, <2>2, <2>3, <2>4, <2>5 DEF K!TokenNext
<1>4. ASSUME NEW caller \in Account, K!AdminNext(caller) PROVE tokenOwner' = tokenOwner
  BY <1>4 DEF K!AdminNext, K!PerformUpgrade, K!GrantRole, K!RevokeRole, K!SetPaused,
     K!SetUpgradeAdmin, K!tokens
<1>5. CASE K!Next
  BY <1>2, <1>3, <1>4, <1>5 DEF K!Next
<1>6. CASE ~K!Next
  BY <1>2, <1>6 DEF Next, vars, ofNfts
<1> QED BY <1>5, <1>6

(* CONTRACT_INVARIANTS.md N4, N6, and of N11 what the code keeps: an id is *)
(* given out once, by mint or by a batch, and a burned token stays burned; *)
(* a paused contract mints and moves nothing, though it still burns.       *)
THEOREM TokensAreKept == Spec => TokensKeep
<1>1. NftInv /\ [Next]_vars => [\A t \in K!Id : BurnedForGood(t) /\ HeldInPause(t)]_ofNfts
  BY TokenSteps
<1> QED BY <1>1, NftInit, NftStep, PTL DEF Spec, TokensKeep

-----------------------------------------------------------------------------
(* The refresh under way is for the account that signed in last, unless it *)
(* began before that or the tokens were already behind when it began.      *)
SessionInv ==
    /\ TokensAreTheMembers
    /\ refresh \in {None, signed} \/ crossing \/ late

LEMMA SessionStep == SessionInv /\ [Next]_vars => SessionInv'
<1> SUFFICES ASSUME SessionInv, [Next]_vars PROVE SessionInv'
  OBVIOUS
<1> USE DEF SessionInv, TokensAreTheMembers, S!TokensAreTheMembers
<1>1. CASE UNCHANGED ofSession
  BY <1>1 DEF ofSession
<1>2. CASE S!Next
  <2>1. ASSUME NEW c \in WebCall, NEW as \in Account \cup {None}, S!Send(c, as)
        PROVE  SessionInv'
    BY <2>1 DEF S!Send
  <2>2. ASSUME NEW c \in WebCall, S!Succeeds(c) PROVE SessionInv'
    BY <2>2 DEF S!Succeeds, S!Becomes
  <2>3. ASSUME NEW c \in WebCall, S!Errs(c) PROVE SessionInv'
    BY <2>3 DEF S!Errs
  <2>4. ASSUME NEW c \in WebCall, S!Unauthorized(c) PROVE SessionInv'
    BY <2>4 DEF S!Unauthorized
  <2>5. ASSUME NEW calls_ \in SUBSET WebCall, S!SignOut(calls_) PROVE SessionInv'
    BY <2>5 DEF S!SignOut
  <2>6. ASSUME NEW c \in WebCall, S!SignOut({c}) PROVE SessionInv'
    BY <2>5, <2>6
  <2>7. ASSUME NEW c \in WebCall,
               S!NothingToRefresh(c) \/ S!RetryFails(c) \/ S!Logout(c)
        PROVE  SessionInv'
    BY <2>6, <2>7 DEF S!NothingToRefresh, S!RetryFails, S!Logout
  <2>8. ASSUME NEW c \in WebCall, S!Leave(c) PROVE SessionInv'
    BY <2>8 DEF S!Leave
  <2>9. CASE S!Refreshed
    BY <2>9 DEF S!Refreshed
  <2>10. CASE S!RefreshRefused
    BY <2>5, <2>10 DEF S!RefreshRefused, S!In
  <2> QED BY <1>2, <2>1, <2>2, <2>3, <2>4, <2>7, <2>8, <2>9, <2>10 DEF S!Next
<1> QED BY <1>1, <1>2 DEF Next, vars

(* fetchWithAuth and the auth store: the tokens in the browser's storage   *)
(* are those of the account that signed in last and not signed out, unless *)
(* a refresh begun before that was answered after it.                      *)
THEOREM SessionTokens == Spec => []TokensAreTheMembers
<1>1. Init => SessionInv
  BY DEF Init, S!Init, SessionInv, TokensAreTheMembers, S!TokensAreTheMembers
<1>2. SessionInv => TokensAreTheMembers
  BY DEF SessionInv
<1> QED BY <1>1, <1>2, SessionStep, PTL DEF Spec

-----------------------------------------------------------------------------
(* What callers were told of a content is what its row names, and a call   *)
(* that has its copy from the row still has the row's copy.                *)
CallOf == [pc : {"idle", "looking", "ipfs", "arweave", "saving", "referring"},
           file : File, who : Uploader, try : Nat, copy : Nat]

UploadTypes ==
    /\ asset \in [File -> Nat] /\ arweave \in [File -> Nat]
    /\ given \in [File -> SUBSET Nat] /\ upload \in [Request -> CallOf]

UploadInv ==
    /\ UploadTypes
    /\ \A f \in File : given[f] \subseteq {asset[f]} \ {0}
    /\ \A r \in Request :
          /\ upload[r].pc = "saving" => upload[r].copy # 0
          /\ upload[r].pc = "referring" => /\ upload[r].copy # 0
                                          /\ upload[r].copy = asset[upload[r].file]

LEMMA UploadFacts == U!NoCall \in CallOf /\ U!NoCall.pc = "idle"
                     /\ Attempts \in Nat \ {0}
BY Constants DEF U!UploadConstants, U!NoCall, U!NoCopy, CallOf

LEMMA UploadInit == Init => UploadInv
BY UploadFacts DEF Init, U!Init, UploadInv, UploadTypes, U!NoCopy

LEMMA UploadStep == UploadInv /\ [Next]_vars => UploadInv'
<1> SUFFICES ASSUME UploadInv, [Next]_vars PROVE UploadInv'
  OBVIOUS
<1> USE UploadFacts DEF UploadInv, UploadTypes, CallOf, U!NoCopy, U!Cid
<1>1. CASE UNCHANGED ofUploads
  BY <1>1 DEF ofUploads
<1>2. CASE U!Next
  <2>1. ASSUME NEW r \in Request, NEW f \in File, NEW u \in Uploader, U!Store(r, f, u)
        PROVE  UploadInv'
    BY <2>1 DEF U!Store
  <2>2. ASSUME NEW r \in Request, U!Look(r) PROVE UploadInv'
    <3>1. upload[r] \in CallOf /\ UNCHANGED <<asset, arweave, given>>
      BY <2>2 DEF U!Look
    <3>2. upload' \in [Request -> CallOf]
      BY <2>2, <3>1 DEF U!Look, U!Bytes
    <3>3. \A q \in Request :
            \/ upload'[q] = upload[q]
            \/ upload'[q].pc \in {"ipfs", "arweave"}
            \/ /\ upload'[q].pc = "referring" /\ upload'[q].copy # 0
               /\ upload'[q].copy = asset[upload'[q].file]
      BY <2>2, <3>1 DEF U!Look, U!Bytes, U!Known
    <3> QED BY <3>1, <3>2, <3>3
  <2>3. ASSUME NEW r \in Request, U!Upload(r) PROVE UploadInv'
    <3>1. PICK copy \in U!Copy :
            /\ U!Provided(r, copy)
            /\ upload' = [upload EXCEPT ![r].pc = "saving", ![r].copy = copy]
      BY <2>3 DEF U!Upload
    <3>2. UNCHANGED <<asset, given>>
      BY <2>3 DEF U!Upload
    <3>3. upload[r] \in CallOf
      OBVIOUS
    <3>4. copy \in Nat \ {0} /\ arweave' \in [File -> Nat]
      BY <3>1, <3>3 DEF U!Provided, U!Bytes
    <3>5. upload' \in [Request -> CallOf]
      BY <3>1, <3>3, <3>4
    <3>6. \A q \in Request :
            \/ upload'[q] = upload[q]
            \/ upload'[q].pc = "saving" /\ upload'[q].copy # 0
      BY <3>1, <3>3, <3>4
    <3> QED BY <3>2, <3>4, <3>5, <3>6
  <2>4. ASSUME NEW r \in Request, U!TryFails(r), UNCHANGED <<asset, given>>,
               arweave' \in [File -> Nat], upload[r].pc \in {"ipfs", "arweave"}
        PROVE  UploadInv'
    <3>1. upload[r] \in CallOf
      OBVIOUS
    <3>2. upload' \in [Request -> CallOf]
      BY <2>4, <3>1 DEF U!TryFails, U!Step, U!EndUpload
    <3>3. \A q \in Request :
            \/ upload'[q] = upload[q]
            \/ upload'[q].pc \notin {"saving", "referring"}
      BY <2>4, <3>1 DEF U!TryFails, U!Step, U!EndUpload
    <3> QED BY <2>4, <3>2, <3>3
  <2>5. ASSUME NEW r \in Request, U!ProviderFails(r) PROVE UploadInv'
    BY <2>4, <2>5 DEF U!ProviderFails
  <2>6. ASSUME NEW r \in Request, U!AnswerLost(r) PROVE UploadInv'
    <3>1. arweave' \in [File -> Nat] /\ upload[r].pc \in {"ipfs", "arweave"}
      BY <2>6 DEF U!AnswerLost, U!Provided, U!Bytes
    <3> QED BY <2>4, <2>6, <3>1 DEF U!AnswerLost
  <2>7. ASSUME NEW r \in Request, U!Save(r) PROVE UploadInv'
    <3>1. CASE /\ asset[upload[r].file] = 0
               /\ asset' = [asset EXCEPT ![upload[r].file] = upload[r].copy]
               /\ U!Step(r, "referring")
      <4>1. upload[r] \in CallOf /\ upload[r].copy # 0 /\ UNCHANGED <<given, arweave>>
        BY <2>7 DEF U!Save
      <4>2. upload' \in [Request -> CallOf] /\ asset' \in [File -> Nat]
        BY <3>1, <4>1 DEF U!Step
      <4>3. \A q \in Request : upload[q].pc = "referring" => upload[q].file # upload[r].file
        BY <3>1
      <4>4. \A q \in Request \ {r} : upload'[q] = upload[q]
        BY <3>1 DEF U!Step
      <4>5. /\ upload'[r].pc = "referring" /\ upload'[r].copy = upload[r].copy
            /\ upload'[r].file = upload[r].file
        BY <3>1, <4>1 DEF U!Step
      <4>6. given[upload[r].file] = {}
        BY <3>1, <4>1
      <4> QED BY <3>1, <4>1, <4>2, <4>3, <4>4, <4>5, <4>6
    <3>2. CASE U!EndUpload(r) /\ UNCHANGED asset
      BY <2>7, <3>2 DEF U!Save, U!EndUpload
    <3> QED BY <2>7, <3>1, <3>2 DEF U!Save, U!Bytes
  <2>8. ASSUME NEW r \in Request, U!Refer(r) PROVE UploadInv'
    BY <2>8 DEF U!Refer, U!EndUpload, U!Bytes
  <2>9. ASSUME NEW r \in Request, U!StatementRefused(r) PROVE UploadInv'
    BY <2>9 DEF U!StatementRefused, U!EndUpload
  <2>10. CASE U!UploadCrash
    BY <2>10 DEF U!UploadCrash
  <2> QED BY <1>2, <2>1, <2>2, <2>3, <2>5, <2>6, <2>7, <2>8, <2>9, <2>10 DEF U!Next
<1> QED BY <1>1, <1>2 DEF Next, vars

(* storage.service.ts: whoever stored the same bytes was told of the same  *)
(* copy, for any contents, any number of requests, retries and faults.     *)
THEOREM OneCopyTold == Spec => []AnswersAgree
<1>1. UploadInv => AnswersAgree
  <2> SUFFICES ASSUME UploadInv, NEW f \in File PROVE U!Cardinality(given[f]) <= 1
    BY DEF AnswersAgree, U!AnswersAgree
  <2>1. given[f] \subseteq {asset[f]}
    BY DEF UploadInv
  <2>2. given[f] = {} \/ given[f] = {asset[f]}
    BY <2>1
  <2>3. Cardinality(given[f]) <= 1
    <3>1. CASE given[f] = {}
      BY <3>1, FS_EmptySet
    <3>2. CASE given[f] = {asset[f]}
      <4>1. Cardinality({asset[f]}) = 1
        BY Zenon, FS_Singleton
      <4> QED BY <3>2, <4>1
    <3> QED BY <2>2, <3>1, <3>2
  <2>4. U!Cardinality(given[f]) = Cardinality(given[f])
    BY Zenon DEF U!Cardinality, Cardinality, U!IsFiniteSet, IsFiniteSet
  <2> QED BY <2>3, <2>4
<1> QED BY <1>1, UploadInit, UploadStep, PTL DEF Spec

-----------------------------------------------------------------------------
(* A listener that no other one met will send the row as it is, unless the *)
(* request under way that changed the row has yet to send its event, or a  *)
(* burned row was revived; the same is true of all while nothing failed.   *)
RowOf  == [ver : Nat, burned : BOOLEAN]
SyncOf == [pc : N!Syncing \cup {"idle", "saving", "clearing", "filling", "emitting",
                                "done"},
           kind : {"none", "mint", "update", "transfer", "burn"},
           copy : RowOf, shared : BOOLEAN]

Listens(w) == write[w].pc \in N!Syncing
Unsent     == \E w \in N!Write : write[w].pc \in {"clearing", "filling", "emitting"}
Alone(w)   == \A v \in N!Write \ {w} : ~Listens(v)

SendsRow(w) ==
    \/ write[w].pc = "reading"
    \/ IF write[w].kind = "burn" THEN nft.burned ELSE write[w].copy = nft

SyncTypes ==
    /\ nft \in RowOf /\ document \in RowOf /\ write \in [N!Write -> SyncOf]
    /\ tainted \in BOOLEAN /\ revived \in BOOLEAN

Fresh(w) ==
    Listens(w) /\ (~tainted \/ ~write[w].shared) =>
        Alone(w) /\ (revived \/ SendsRow(w) \/ Unsent)

Burns(w) ==
    write[w].kind = "burn" =>
        /\ write[w].pc = "saving" => write[w].copy.burned
        /\ write[w].pc \in {"clearing", "filling", "emitting"} \/ Listens(w) =>
              nft.burned \/ revived
        /\ write[w].pc # "reading"

Shown == tainted \/ revived \/ N!Matches \/ Unsent \/ \E w \in N!Write : Listens(w)

SyncInv == SyncTypes /\ Shown /\ \A w \in N!Write : Fresh(w) /\ Burns(w)

LEMMA SyncInit == Init => SyncInv
<1> SUFFICES ASSUME N!Init PROVE SyncInv
  BY DEF Init
<1>1. N!NoNft \in RowOf /\ nft = N!NoNft /\ document = N!NoNft
  BY DEF N!Init, N!NoNft, RowOf
<1>2. \A w \in N!Write : write[w] \in SyncOf /\ write[w].pc = "idle"
  BY <1>1 DEF N!Init, SyncOf
<1>3. SyncTypes
  BY <1>1, <1>2 DEF N!Init, SyncTypes
<1>4. Shown
  BY <1>1 DEF Shown, N!Matches, N!NoNft
<1>5. \A w \in N!Write : Fresh(w) /\ Burns(w)
  BY <1>2 DEF Fresh, Burns, Listens, N!Syncing
<1> QED BY <1>3, <1>4, <1>5 DEF SyncInv

LEMMA SpoiltIs ==
    ASSUME SyncTypes
    PROVE  /\ N!Spoilt \in [N!Write -> SyncOf]
           /\ \A v \in N!Write :
                 /\ N!Spoilt[v].pc = write[v].pc /\ N!Spoilt[v].kind = write[v].kind
                 /\ N!Spoilt[v].copy = write[v].copy
                 /\ N!Spoilt[v].shared = (write[v].shared \/ Listens(v))
<1> DEFINE o(v) == [write[v] EXCEPT !.shared = @ \/ write[v].pc \in N!Syncing]
<1>1. N!Spoilt = [v \in N!Write |-> o(v)]
  BY Zenon DEF N!Spoilt
<1>2. ASSUME NEW v \in N!Write
      PROVE  /\ o(v) \in SyncOf
             /\ o(v).pc = write[v].pc /\ o(v).kind = write[v].kind
             /\ o(v).copy = write[v].copy
             /\ o(v).shared = (write[v].shared \/ Listens(v))
  <2>1. write[v] \in SyncOf
    BY DEF SyncTypes
  <2> DEFINE b == write[v].shared \/ write[v].pc \in N!Syncing
  <2>2. o(v) = [write[v] EXCEPT !.shared = b]
    BY Zenon
  <2>3. b \in BOOLEAN /\ b = (write[v].shared \/ Listens(v))
    BY <2>1 DEF SyncOf, Listens
  <2> HIDE DEF b, o
  <2> QED BY <2>1, <2>2, <2>3 DEF SyncOf
<1> HIDE DEF o
<1> QED BY <1>1, <1>2

LEMMA SyncStep == SyncInv /\ [Next]_vars => SyncInv'
<1> SUFFICES ASSUME SyncInv, [Next]_vars PROVE SyncInv'
  OBVIOUS
<1> DEFINE Pre == {"clearing", "filling", "emitting"}
<1>0. /\ SyncTypes /\ write \in [N!Write -> SyncOf] /\ nft \in RowOf
      /\ \A v \in N!Write : write[v] \in SyncOf
  BY DEF SyncInv, SyncTypes
<1>1. Shown /\ \A w \in N!Write : Fresh(w) /\ Burns(w)
  BY DEF SyncInv
<1>2. ASSUME NEW w \in N!Write, NEW o \in SyncOf, write' = [write EXCEPT ![w] = o]
      PROVE  /\ write' \in [N!Write -> SyncOf] /\ write'[w] = o
             /\ \A v \in N!Write \ {w} : write'[v] = write[v]
  BY <1>0, <1>2
<1>3. ASSUME NEW w \in N!Write, NEW pc, write' = [write EXCEPT ![w].pc = pc],
             pc \in N!Syncing \cup Pre \cup {"idle", "saving", "done"},
             UNCHANGED <<nft, revived>>, document' \in RowOf, tainted' \in BOOLEAN
      PROVE  /\ SyncTypes' /\ write'[w] = [write[w] EXCEPT !.pc = pc]
             /\ write'[w].pc = pc /\ write'[w].kind = write[w].kind
             /\ write'[w].copy = write[w].copy /\ write'[w].shared = write[w].shared
             /\ \A v \in N!Write \ {w} : write'[v] = write[v]
  <2> DEFINE o == [write[w] EXCEPT !.pc = pc]
  <2>1. /\ o \in SyncOf /\ o.pc = pc /\ o.kind = write[w].kind
        /\ o.copy = write[w].copy /\ o.shared = write[w].shared
    BY <1>0, <1>3 DEF SyncOf
  <2>2. write' = [write EXCEPT ![w] = o]
    BY <1>3
  <2> HIDE DEF o
  <2>3. /\ write' \in [N!Write -> SyncOf] /\ write'[w] = o
        /\ \A v \in N!Write \ {w} : write'[v] = write[v]
    BY <1>2, <2>1, <2>2
  <2>4. SyncTypes'
    BY <1>0, <1>3, <2>3 DEF SyncTypes
  <2> QED BY <2>1, <2>3, <2>4 DEF o
<1>4. CASE UNCHANGED ofSearch
  BY <1>4 DEF ofSearch, SyncInv, SyncTypes, Shown, N!Matches, Fresh, Burns, SendsRow,
              Alone, Listens, Unsent
<1>5. CASE N!Next
  <2>1. ASSUME NEW w \in N!Write,
               NEW kind \in {"mint", "update", "transfer", "burn"}, N!Begin(w, kind)
        PROVE  SyncInv'
    <3> DEFINE copy == [nft EXCEPT !.burned = kind = "burn"]
               o    == [write[w] EXCEPT !.pc = "saving", !.kind = kind, !.copy = copy]
    <3>1. copy \in RowOf /\ (kind = "burn" => copy.burned)
      BY <1>0 DEF RowOf
    <3> HIDE DEF copy
    <3>2. o \in SyncOf /\ o.pc = "saving" /\ o.kind = kind /\ o.copy = copy
      BY <1>0, <3>1 DEF SyncOf
    <3>3. write' = [write EXCEPT ![w] = o]
      BY <2>1 DEF N!Begin, copy
    <3> HIDE DEF o
    <3>4. /\ write' \in [N!Write -> SyncOf] /\ write'[w] = o
          /\ \A v \in N!Write \ {w} : write'[v] = write[v]
      BY <1>2, <3>2, <3>3
    <3>5. write[w].pc = "idle" /\ UNCHANGED <<nft, document, tainted, revived>>
      BY <2>1 DEF N!Begin
    <3>6. SyncTypes'
      BY <1>0, <3>4, <3>5 DEF SyncTypes
    <3>7. \A v \in N!Write : Listens(v) <=> Listens(v)'
      BY <3>2, <3>4, <3>5 DEF Listens, N!Syncing
    <3>8. (\A v \in N!Write : Alone(v) <=> Alone(v)') /\ (Unsent <=> Unsent')
      BY <3>2, <3>4, <3>5, <3>7 DEF Alone, Unsent
    <3>9. Shown'
      BY <1>1, <3>5, <3>7, <3>8 DEF Shown, N!Matches
    <3>10. \A v \in N!Write \ {w} : Fresh(v)' /\ Burns(v)'
      BY <1>1, <3>4, <3>5, <3>7, <3>8 DEF Fresh, Burns, SendsRow
    <3>11. Fresh(w)' /\ Burns(w)'
      BY <3>1, <3>2, <3>4 DEF Fresh, Burns, Listens, N!Syncing
    <3> QED BY <3>6, <3>9, <3>10, <3>11 DEF SyncInv
  <2>2. ASSUME NEW w \in N!Write, N!SaveNft(w) PROVE SyncInv'
    <3> DEFINE pc == CASE write[w].kind = "mint" -> "filling"
                       [] write[w].kind = "update" -> "clearing"
                       [] OTHER -> "emitting"
               o  == [write[w] EXCEPT !.copy = nft', !.pc = pc]
    <3>1. pc \in Pre
      OBVIOUS
    <3>2. /\ nft' \in RowOf /\ nft'.burned = write[w].copy.burned
          /\ UNCHANGED <<document, tainted>> /\ revived' \in BOOLEAN
          /\ revived' = (revived \/ (nft.burned /\ ~nft'.burned))
          /\ write[w].pc = "saving"
      <4>1. write[w].copy \in RowOf
        BY <1>0 DEF SyncOf
      <4> QED BY <1>0, <2>2, <4>1 DEF N!SaveNft, RowOf
    <3>3. write' = [write EXCEPT ![w] = o]
      BY <2>2 DEF N!SaveNft
    <3> HIDE DEF pc
    <3>4. o \in SyncOf /\ o.pc = pc /\ o.kind = write[w].kind
      BY <1>0, <3>1, <3>2 DEF SyncOf
    <3> HIDE DEF o
    <3>5. /\ write' \in [N!Write -> SyncOf] /\ write'[w] = o
          /\ \A v \in N!Write \ {w} : write'[v] = write[v]
      BY <1>2, <3>3, <3>4
    <3>6. SyncTypes'
      BY <1>0, <3>2, <3>5 DEF SyncTypes
    <3>7. \A v \in N!Write : Listens(v) <=> Listens(v)'
      BY <3>1, <3>2, <3>4, <3>5 DEF Listens, N!Syncing
    <3>8. (\A v \in N!Write : Alone(v) <=> Alone(v)') /\ Unsent'
      BY <3>1, <3>4, <3>5, <3>7 DEF Alone, Unsent
    <3>9. \A v \in N!Write \ {w} : Fresh(v)' /\ Burns(v)'
      BY <1>1, <3>2, <3>5, <3>7, <3>8 DEF Fresh, Burns
    <3>10. Fresh(w)' /\ Burns(w)'
      BY <1>1, <3>1, <3>2, <3>4, <3>5 DEF Fresh, Burns, Listens, N!Syncing
    <3> QED BY <3>6, <3>8, <3>9, <3>10 DEF SyncInv, Shown
  <2>3. ASSUME NEW w \in N!Write, NEW pc \in Pre, write' = [write EXCEPT ![w].pc = pc],
               write[w].pc \in Pre, UNCHANGED <<document, tainted, revived>>,
               nft' \in RowOf, nft'.burned = nft.burned
        PROVE  SyncInv'
    <3> DEFINE o == [write[w] EXCEPT !.pc = pc]
    <3>1. o \in SyncOf /\ o.pc = pc /\ o.kind = write[w].kind
      BY <1>0, <2>3 DEF SyncOf
    <3>2. write' = [write EXCEPT ![w] = o]
      BY <2>3
    <3> HIDE DEF o
    <3>3. /\ write' \in [N!Write -> SyncOf] /\ write'[w] = o
          /\ \A v \in N!Write \ {w} : write'[v] = write[v]
      BY <1>2, <3>1, <3>2
    <3>4. SyncTypes'
      BY <1>0, <2>3, <3>3 DEF SyncTypes
    <3>5. \A v \in N!Write : Listens(v) <=> Listens(v)'
      BY <2>3, <3>1, <3>3 DEF Listens, N!Syncing
    <3>6. (\A v \in N!Write : Alone(v) <=> Alone(v)') /\ Unsent'
      BY <2>3, <3>1, <3>3, <3>5 DEF Alone, Unsent
    <3>7. \A v \in N!Write \ {w} : Fresh(v)' /\ Burns(v)'
      BY <1>1, <2>3, <3>3, <3>5, <3>6 DEF Fresh, Burns
    <3>8. Fresh(w)' /\ Burns(w)'
      BY <1>1, <2>3, <3>1, <3>3 DEF Fresh, Burns, Listens, N!Syncing
    <3> QED BY <3>4, <3>6, <3>7, <3>8 DEF SyncInv, Shown
  <2>4. ASSUME NEW w \in N!Write, N!SaveAttributes(w) \/ N!NoAttributes(w)
        PROVE  SyncInv'
    <3>1. nft' \in RowOf /\ nft'.burned = nft.burned
      BY <1>0, <2>4 DEF N!SaveAttributes, N!NoAttributes, RowOf
    <3> QED BY <2>3, <2>4, <3>1 DEF N!SaveAttributes, N!NoAttributes, N!To
  <2>5. ASSUME NEW w \in N!Write, N!Emit(w) PROVE SyncInv'
    <3> DEFINE others == \E v \in N!Write : Listens(v)
               pc     == IF write[w].kind = "burn" THEN "ensuring" ELSE "reading"
               o      == [N!Spoilt[w] EXCEPT !.shared = others, !.pc = pc]
    <3>1. /\ UNCHANGED <<nft, document, revived>> /\ write[w].pc = "emitting"
          /\ tainted' = (tainted \/ others)
      BY <2>5 DEF N!Emit, Listens
    <3>2. write' = [N!Spoilt EXCEPT ![w] = o]
      <4>1. write' = [N!Spoilt EXCEPT
                         ![w].shared = {v \in N!Write : write[v].pc \in N!Syncing} # {},
                         ![w].pc = pc]
        BY <2>5, Zenon DEF N!Emit
      <4>2. ({v \in N!Write : write[v].pc \in N!Syncing} # {}) = others
        BY DEF Listens
      <4> HIDE DEF others, pc
      <4> QED BY <4>1, <4>2
    <3>3. /\ N!Spoilt \in [N!Write -> SyncOf]
          /\ \A v \in N!Write :
                /\ N!Spoilt[v].pc = write[v].pc /\ N!Spoilt[v].kind = write[v].kind
                /\ N!Spoilt[v].copy = write[v].copy
                /\ N!Spoilt[v].shared = (write[v].shared \/ Listens(v))
      BY <1>0, SpoiltIs
    <3>4. N!Spoilt[w] \in SyncOf /\ others \in BOOLEAN /\ pc \in {"ensuring", "reading"}
      BY <3>3
    <3> HIDE DEF others
    <3>5. /\ o \in SyncOf /\ o.pc = pc /\ o.kind = write[w].kind /\ o.shared = others
      <4> HIDE DEF pc
      <4> QED BY <3>3, <3>4 DEF SyncOf, N!Syncing
    <3> HIDE DEF o
    <3>6. /\ write' \in [N!Write -> SyncOf] /\ write'[w] = o
          /\ \A v \in N!Write \ {w} :
                /\ write'[v].pc = write[v].pc /\ write'[v].kind = write[v].kind
                /\ write'[v].copy = write[v].copy
                /\ write'[v].shared = (write[v].shared \/ Listens(v))
      BY <3>2, <3>3, <3>5
    <3>7. SyncTypes'
      BY <1>0, <3>1, <3>4, <3>6 DEF SyncTypes
    <3>8. /\ Listens(w)' /\ ~Listens(w)
          /\ \A v \in N!Write \ {w} : Listens(v) <=> Listens(v)'
      BY <3>1, <3>4, <3>5, <3>6 DEF Listens, N!Syncing
    <3>9. \A v \in N!Write : Burns(v)'
      <4>1. \A v \in N!Write \ {w} : Burns(v)'
        BY <1>1, <3>1, <3>6, <3>8 DEF Burns
      <4>2. Burns(w)'
        BY <1>1, <3>1, <3>5, <3>6 DEF Burns
      <4> QED BY <4>1, <4>2
    <3>10. \A v \in N!Write \ {w} : Fresh(v)'
      BY <3>1, <3>6, <3>8 DEF Fresh, others
    <3>11. Fresh(w)'
      <4>1. SUFFICES ASSUME ~others PROVE Alone(w)' /\ (revived \/ SendsRow(w)')
        BY <3>1, <3>5, <3>6 DEF Fresh
      <4>2. Alone(w)'
        BY <3>8, <4>1 DEF Alone, others
      <4>3. revived \/ SendsRow(w)'
        BY <1>1, <3>1, <3>5, <3>6 DEF Burns, SendsRow
      <4> QED BY <4>2, <4>3
    <3> QED BY <3>7, <3>8, <3>9, <3>10, <3>11 DEF SyncInv, Shown
  <2>6. ASSUME NEW w \in N!Write, N!Read(w) PROVE SyncInv'
    <3> DEFINE o == [write[w] EXCEPT !.copy = nft, !.pc = "ensuring"]
    <3>1. /\ o \in SyncOf /\ o.pc = "ensuring" /\ o.kind = write[w].kind
          /\ o.copy = nft /\ o.shared = write[w].shared
      BY <1>0 DEF SyncOf, N!Syncing
    <3>2. write' = [write EXCEPT ![w] = o]
      BY <2>6 DEF N!Read
    <3> HIDE DEF o
    <3>3. /\ write' \in [N!Write -> SyncOf] /\ write'[w] = o
          /\ \A v \in N!Write \ {w} : write'[v] = write[v]
      BY <1>2, <3>1, <3>2
    <3>4. write[w].pc = "reading" /\ UNCHANGED <<nft, document, tainted, revived>>
      BY <2>6 DEF N!Read
    <3>5. SyncTypes'
      BY <1>0, <3>3, <3>4 DEF SyncTypes
    <3>6. \A v \in N!Write : Listens(v) <=> Listens(v)'
      BY <3>1, <3>3, <3>4 DEF Listens, N!Syncing
    <3>7. (\A v \in N!Write : Alone(v) <=> Alone(v)') /\ (Unsent <=> Unsent')
      BY <3>1, <3>3, <3>4, <3>6 DEF Alone, Unsent
    <3>8. Shown'
      BY <1>1, <3>4, <3>6, <3>7 DEF Shown, N!Matches
    <3>9. \A v \in N!Write \ {w} : Fresh(v)' /\ Burns(v)'
      BY <1>1, <3>3, <3>4, <3>6, <3>7 DEF Fresh, Burns, SendsRow
    <3>10. Fresh(w)' /\ Burns(w)'
      BY <1>1, <3>1, <3>3, <3>4, <3>6, <3>7 DEF Fresh, Burns, SendsRow
    <3> QED BY <3>5, <3>8, <3>9, <3>10 DEF SyncInv
  <2>7. ASSUME SyncTypes', UNCHANGED <<nft, document, tainted, revived>>,
               \A v \in N!Write :
                 /\ write'[v].kind = write[v].kind /\ write'[v].copy = write[v].copy
                 /\ write'[v].shared = write[v].shared
                 /\ \/ write'[v].pc = write[v].pc
                    \/ /\ write[v].pc \in {"ensuring", "waiting"}
                       /\ write'[v].pc \in {"waiting", "adding"}
        PROVE  SyncInv'
    <3>1. \A v \in N!Write : Listens(v) <=> Listens(v)'
      BY <2>7 DEF Listens, N!Syncing
    <3>2. (\A v \in N!Write : Alone(v) <=> Alone(v)') /\ (Unsent <=> Unsent')
      BY <2>7, <3>1 DEF Alone, Unsent
    <3>3. Shown'
      BY <1>1, <2>7, <3>1, <3>2 DEF Shown, N!Matches
    <3>4. \A v \in N!Write : Fresh(v)' /\ Burns(v)'
      BY <1>1, <2>7, <3>1, <3>2 DEF Fresh, Burns, SendsRow
    <3> QED BY <2>7, <3>3, <3>4 DEF SyncInv
  <2>8. ASSUME NEW w \in N!Write, N!EnsureSettings(w) PROVE SyncInv'
    <3> DEFINE pc == IF settings = "ready" THEN "adding" ELSE "waiting"
    <3>1. /\ write' = [write EXCEPT ![w].pc = pc] /\ write[w].pc = "ensuring"
          /\ UNCHANGED <<nft, document, tainted, revived>>
      BY <2>8 DEF N!EnsureSettings, N!To
    <3>2. pc \in {"waiting", "adding"}
      OBVIOUS
    <3> HIDE DEF pc
    <3> QED BY <1>0, <1>3, <2>7, <3>1, <3>2 DEF SyncTypes, N!Syncing
  <2>9. ASSUME NEW pc \in {"adding", "done"}, write' = N!Waiters(pc)
        PROVE  /\ write' \in [N!Write -> SyncOf]
               /\ \A v \in N!Write :
                     /\ write'[v].kind = write[v].kind
                     /\ write'[v].copy = write[v].copy
                     /\ write'[v].shared = write[v].shared
                     /\ \/ write'[v].pc = write[v].pc
                        \/ write[v].pc = "waiting" /\ write'[v].pc = pc
    <3> DEFINE o(v) == IF write[v].pc = "waiting" THEN [write[v] EXCEPT !.pc = pc]
                                                  ELSE write[v]
    <3>1. write' = [v \in N!Write |-> o(v)]
      BY <2>9 DEF N!Waiters
    <3>2. ASSUME NEW v \in N!Write
          PROVE  /\ o(v) \in SyncOf
                 /\ o(v).kind = write[v].kind /\ o(v).copy = write[v].copy
                 /\ o(v).shared = write[v].shared
                 /\ \/ o(v).pc = write[v].pc
                    \/ write[v].pc = "waiting" /\ o(v).pc = pc
      BY <1>0, <2>9 DEF SyncOf, N!Syncing
    <3> HIDE DEF o
    <3> QED BY <3>1, <3>2
  <2>10. CASE N!Configured
    <3>1. write' = N!Waiters("adding") /\ UNCHANGED <<nft, document, tainted, revived>>
      BY <2>10 DEF N!Configured
    <3>2. SyncTypes'
      BY <1>0, <2>9, <3>1 DEF SyncTypes
    <3> QED BY <2>7, <2>9, <3>1, <3>2
  <2>11. ASSUME NEW w \in N!Write, N!Add(w) PROVE SyncInv'
    <3>1. /\ SyncTypes' /\ UNCHANGED <<nft, revived>>
          /\ write[w].pc = "adding" /\ write'[w].pc = "done"
          /\ tainted' = (tainted /\ write[w].shared)
          /\ \A v \in N!Write \ {w} : write'[v] = write[v]
      <4>1. /\ write' = [write EXCEPT ![w].pc = "done"] /\ UNCHANGED <<nft, revived>>
            /\ write[w].pc = "adding" /\ tainted' = (tainted /\ write[w].shared)
        BY <2>11 DEF N!Add, N!To
      <4>2. document' \in RowOf
        BY <1>0, <2>11 DEF N!Add, N!Sent, N!NoNft, SyncOf, RowOf
      <4>3. write[w].shared \in BOOLEAN /\ tainted' \in BOOLEAN
        BY <1>0, <4>1 DEF SyncOf, SyncTypes
      <4> QED BY <1>3, <4>1, <4>2, <4>3 DEF N!Syncing
    <3>2. \A v \in N!Write : Burns(v)'
      BY <1>1, <3>1 DEF Burns, Listens, N!Syncing
    <3>3. CASE tainted'
      <4>1. ~Listens(w)' /\ \A v \in N!Write \ {w} : Listens(v)' <=> Listens(v)
        BY <3>1 DEF Listens, N!Syncing
      <4>2. (Unsent => Unsent') /\ \A v \in N!Write : Alone(v) => Alone(v)'
        BY <3>1, <4>1 DEF Unsent, Alone
      <4>3. \A v \in N!Write : Fresh(v)'
        BY <1>1, <3>1, <3>3, <4>1, <4>2 DEF Fresh, SendsRow
      <4> QED BY <3>1, <3>2, <3>3, <4>3 DEF SyncInv, Shown
    <3>4. CASE ~tainted'
      <4>1. Alone(w) /\ (revived \/ SendsRow(w) \/ Unsent)
        BY <1>1, <3>1, <3>4 DEF Fresh, Listens, N!Syncing
      <4>2. \A v \in N!Write : ~Listens(v)'
        BY <3>1, <4>1 DEF Alone, Listens, N!Syncing
      <4>3. Unsent => Unsent'
        BY <3>1 DEF Unsent
      <4>4. SendsRow(w) => N!Matches'
        BY <2>11, <3>1 DEF SendsRow, N!Matches, N!Add, N!Sent, N!NoNft
      <4> QED BY <3>1, <3>2, <4>1, <4>2, <4>3, <4>4 DEF SyncInv, Shown, Fresh
    <3> QED BY <3>3, <3>4
  <2>12. ASSUME SyncTypes', UNCHANGED <<nft, revived>>, tainted',
                \A v \in N!Write :
                  /\ write'[v].kind = write[v].kind /\ write'[v].copy = write[v].copy
                  /\ write'[v].pc \in {"done", write[v].pc}
                  /\ Listens(v)' /\ ~write'[v].shared =>
                        ~write[v].shared /\ (Unsent => Unsent')
         PROVE  SyncInv'
    <3>1. \A v \in N!Write : Listens(v)' => Listens(v) /\ write'[v].pc = write[v].pc
      BY <2>12 DEF Listens, N!Syncing
    <3>2. \A v \in N!Write : Burns(v)'
      BY <1>1, <2>12, <3>1 DEF Burns
    <3>3. \A v \in N!Write : Alone(v) => Alone(v)'
      BY <3>1 DEF Alone
    <3>4. \A v \in N!Write : Listens(v)' /\ SendsRow(v) => SendsRow(v)'
      BY <2>12, <3>1 DEF SendsRow
    <3>5. \A v \in N!Write : Fresh(v)'
      BY <1>1, <2>12, <3>1, <3>3, <3>4 DEF Fresh
    <3> QED BY <2>12, <3>2, <3>5 DEF SyncInv, Shown
  <2>13. CASE N!ConfigureFails
    <3>1. write' = N!Waiters("done") /\ UNCHANGED <<nft, document, revived>> /\ tainted'
      BY <2>13 DEF N!ConfigureFails
    <3>2. SyncTypes' /\ \A v \in N!Write :
            /\ write'[v].kind = write[v].kind /\ write'[v].copy = write[v].copy
            /\ write'[v].shared = write[v].shared
            /\ \/ write'[v].pc = write[v].pc
               \/ write[v].pc = "waiting" /\ write'[v].pc = "done"
      BY <1>0, <2>9, <2>13, <3>1 DEF N!ConfigureFails, SyncTypes
    <3>3. Unsent => Unsent'
      BY <3>2 DEF Unsent
    <3> QED BY <2>12, <3>1, <3>2, <3>3
  <2>14. ASSUME NEW w \in N!Write, N!AddFails(w) PROVE SyncInv'
    <3>1. SyncTypes' /\ UNCHANGED <<nft, revived>> /\ tainted'
      <4>1. /\ write' = [write EXCEPT ![w].pc = "done"] /\ UNCHANGED <<nft, revived>>
            /\ write[w].pc = "adding" /\ tainted' = TRUE
        BY <2>14 DEF N!AddFails, N!To
      <4>2. document' \in RowOf
        <5>1. write[w].copy \in RowOf /\ document \in RowOf
          BY <1>0 DEF SyncOf, SyncTypes
        <5>2. N!NoNft \in RowOf
          BY DEF N!NoNft, RowOf
        <5> QED BY <2>14, <5>1, <5>2 DEF N!AddFails, N!Sent
      <4> QED BY <1>3, <4>1, <4>2 DEF N!Syncing
    <3>2. \A v \in N!Write :
            /\ write'[v].kind = write[v].kind /\ write'[v].copy = write[v].copy
            /\ write'[v].shared = write[v].shared
            /\ \/ write'[v].pc = write[v].pc
               \/ write[v].pc = "adding" /\ write'[v].pc = "done"
      <4>1. /\ write' = [write EXCEPT ![w].pc = "done"] /\ write[w].pc = "adding"
        BY <2>14 DEF N!AddFails, N!To
      <4> QED BY <1>0, <4>1 DEF SyncOf
    <3>3. Unsent => Unsent'
      BY <3>2 DEF Unsent
    <3> QED BY <2>12, <3>1, <3>2, <3>3
  <2>15. ASSUME NEW w \in N!Write, N!WriteRefused(w) PROVE SyncInv'
    <3>1. /\ SyncTypes' /\ UNCHANGED <<nft, document, revived>>
          /\ tainted' = (tainted \/ write[w].pc # "saving")
          /\ write[w].pc # "idle" /\ write'[w].pc = "done"
          /\ \A v \in N!Write :
                /\ write'[v].kind = write[v].kind /\ write'[v].copy = write[v].copy
                /\ write'[v].shared = (write[v].shared \/ Listens(v))
                /\ v # w => write'[v].pc = write[v].pc
      <4>1. /\ write' = [N!Spoilt EXCEPT ![w].pc = "done"]
            /\ tainted' = (tainted \/ write[w].pc # "saving") /\ write[w].pc # "idle"
            /\ UNCHANGED <<nft, document, revived>>
        BY <2>15 DEF N!WriteRefused
      <4>2. /\ N!Spoilt \in [N!Write -> SyncOf]
            /\ \A v \in N!Write :
                  /\ N!Spoilt[v].pc = write[v].pc /\ N!Spoilt[v].kind = write[v].kind
                  /\ N!Spoilt[v].copy = write[v].copy
                  /\ N!Spoilt[v].shared = (write[v].shared \/ Listens(v))
        BY <1>0, SpoiltIs
      <4> DEFINE o == [N!Spoilt[w] EXCEPT !.pc = "done"]
      <4>3. /\ o \in SyncOf /\ o.pc = "done" /\ o.kind = N!Spoilt[w].kind
            /\ o.copy = N!Spoilt[w].copy /\ o.shared = N!Spoilt[w].shared
        BY <4>2 DEF SyncOf
      <4>4. write' = [N!Spoilt EXCEPT ![w] = o]
        BY <4>1
      <4> HIDE DEF o
      <4>5. /\ write' \in [N!Write -> SyncOf] /\ write'[w] = o
            /\ \A v \in N!Write \ {w} : write'[v] = N!Spoilt[v]
        BY <4>2, <4>3, <4>4
      <4>6. SyncTypes'
        BY <1>0, <4>1, <4>5 DEF SyncTypes
      <4> QED BY <4>1, <4>2, <4>3, <4>5, <4>6
    <3>2. CASE write[w].pc # "saving"
      <4>1. \A v \in N!Write : Listens(v)' => write'[v].shared
        BY <3>1 DEF Listens, N!Syncing
      <4>2. \A v \in N!Write : write'[v].pc \in {"done", write[v].pc}
        BY <3>1
      <4> QED BY <2>12, <3>1, <3>2, <4>1, <4>2
    <3>3. CASE write[w].pc = "saving"
      <4>1. \A v \in N!Write : (Listens(v) <=> Listens(v)')
        BY <3>1, <3>3 DEF Listens, N!Syncing
      <4>2. Unsent => Unsent'
        BY <3>1, <3>3 DEF Unsent
      <4>3. \A v \in N!Write : (Alone(v) => Alone(v)') /\ Burns(v)'
        BY <1>1, <3>1, <3>3, <4>1 DEF Alone, Burns
      <4>4. \A v \in N!Write : v # w /\ SendsRow(v) => SendsRow(v)'
        BY <3>1 DEF SendsRow
      <4>5. \A v \in N!Write : Fresh(v)'
        BY <1>1, <3>1, <3>3, <4>1, <4>2, <4>3, <4>4 DEF Fresh, Listens, N!Syncing
      <4>6. Shown'
        BY <1>1, <3>1, <3>3, <4>1, <4>2 DEF Shown, N!Matches
      <4> QED BY <3>1, <4>3, <4>5, <4>6 DEF SyncInv
    <3> QED BY <3>2, <3>3
  <2>16. CASE N!SearchCrash
    <3>1. /\ SyncTypes' /\ UNCHANGED <<nft, document, revived>>
          /\ tainted' = (tainted \/ \E v \in N!Write :
                                       N!Under(v) /\ write[v].pc # "saving")
          /\ \A v \in N!Write : write'[v].pc \in {"idle", "done"}
      <4> DEFINE o(v) == IF N!Under(v) THEN [write[v] EXCEPT !.pc = "done"]
                                       ELSE write[v]
      <4>1. write' = [v \in N!Write |-> o(v)]
        BY <2>16 DEF N!SearchCrash
      <4>2. ASSUME NEW v \in N!Write
            PROVE  o(v) \in SyncOf /\ o(v).pc \in {"idle", "done"}
        BY <1>0 DEF SyncOf, N!Under
      <4> HIDE DEF o
      <4>3. write' \in [N!Write -> SyncOf]
        BY <4>1, <4>2
      <4>4. /\ UNCHANGED <<nft, document, revived>>
            /\ tainted' = (tainted \/ \E v \in N!Write :
                                         N!Under(v) /\ write[v].pc # "saving")
        BY <2>16 DEF N!SearchCrash
      <4>5. SyncTypes'
        BY <1>0, <4>3, <4>4 DEF SyncTypes
      <4> QED BY <4>1, <4>2, <4>4, <4>5
    <3>2. ~tainted' => \A v \in N!Write : write[v].pc \in {"idle", "saving", "done"}
      BY <3>1 DEF N!Under
    <3>3. Shown'
      BY <1>1, <3>1, <3>2 DEF Shown, Listens, N!Syncing, Unsent, N!Matches
    <3> QED BY <3>1, <3>3 DEF SyncInv, Fresh, Burns, Listens, N!Syncing
  <2> QED
    BY <1>5, <2>1, <2>2, <2>4, <2>5, <2>6, <2>8, <2>10, <2>11, <2>13, <2>14,
       <2>15, <2>16 DEF N!Next
<1> QED BY <1>4, <1>5 DEF Next, vars

(* nft.service.ts, search.listener.ts: once all is quiet the index shows   *)
(* the row, for any number of requests and of faults, unless a sync failed *)
(* or met another one, or an old copy brought a burned NFT back.           *)
THEOREM QuietIndexShowsRow == Spec => []StaleHasCause
<1>1. SyncInv => StaleHasCause
  BY DEF SyncInv, Shown, StaleHasCause, N!StaleHasCause, N!Under, Unsent, Listens,
         N!Syncing
<1> QED BY <1>1, SyncInit, SyncStep, PTL DEF Spec
-----------------------------------------------------------------------------
(* Ids tell rows apart: a copy and the row, or two copies, with one wallet *)
(* and one id are of one account.  While an unlink that was let go on has  *)
(* yet to delete its row, and no other one of the account overlapped it,   *)
(* the account has another wallet.                                         *)
Busy == {"find", "create", "upsert", "save", "demote", "insert", "sync", "count",
         "delete", "next", "promote", "show", "clear"}
LinkOf == [user : User \cup {None}, primary : BOOLEAN, id : Nat]
ReqOf  == [pc : Busy \cup {"idle"}, user : User \cup {None}, wallet : Wallet \cup {None},
           primary : BOOLEAN, copy : LinkOf]

ReqOk(r) ==
    /\ r.pc # "idle" => r.wallet \in Wallet
    /\ r.pc \notin {"idle", "find", "create"} => r.user \in User
    /\ r.pc \in {"save", "count", "delete", "promote"} =>
          r.copy.user = r.user /\ r.copy.id # 0
    /\ r.copy.id # 0 => r.wallet \in Wallet

RowsOk == \A w \in Wallet : (link[w].id = 0) <=> (link[w].user = None)

RowAgrees(r) ==
    r.copy.id # 0 /\ link[r.wallet].id = r.copy.id => link[r.wallet].user = r.copy.user

CopiesAgree ==
    \A p, q \in WalletRequest :
        /\ req[p].copy.id # 0 /\ req[p].copy.id = req[q].copy.id
        /\ req[p].wallet = req[q].wallet
        => req[p].copy.user = req[q].copy.user

Spared == User \ (WithEmail \cup overlapped)

SpareOk ==
    \A u \in Spared, q \in WalletRequest : q \in W!Deleting(u) =>
        /\ W!Deleting(u) = {q}
        /\ \E v \in Wallet \ {req[q].wallet} : link[v].user = u

WalletInv ==
    /\ link \in [Wallet -> LinkOf] /\ req \in [WalletRequest -> ReqOf]
    /\ \A q \in WalletRequest : ReqOk(req[q]) /\ RowAgrees(req[q])
    /\ RowsOk /\ CopiesAgree /\ SpareOk

LEMMA WalletFacts ==
    /\ None \notin User /\ None \notin Wallet
    /\ IsFiniteSet(Wallet) /\ IsFiniteSet(WalletRequest)
    /\ W!NoLink \in LinkOf /\ W!NoLink.id = 0 /\ W!NoLink.user = None
    /\ W!NoReq \in ReqOf /\ W!NoReq.pc = "idle" /\ W!NoReq.copy = W!NoLink
<1>1. W!WalletConstants
  BY Constants, Zenon
<1>2. \A V : W!IsFiniteSet(V) <=> IsFiniteSet(V)
  BY Zenon DEF W!IsFiniteSet, IsFiniteSet
<1>3. W!NoLink \in LinkOf
  BY DEF W!NoLink, LinkOf
<1>4. W!NoReq \in ReqOf
  BY <1>3 DEF W!NoReq, ReqOf
<1> QED BY <1>1, <1>2, <1>3, <1>4 DEF W!WalletConstants, W!NoLink, W!NoReq

LEMMA WalletInit == Init => WalletInv
<1> SUFFICES ASSUME W!Init PROVE WalletInv
  BY DEF Init
<1> USE WalletFacts
<1>1. /\ link \in [Wallet -> LinkOf] /\ req \in [WalletRequest -> ReqOf]
      /\ \A w \in Wallet : link[w] = W!NoLink
      /\ \A q \in WalletRequest : req[q] = W!NoReq
  BY DEF W!Init
<1>2. \A q \in WalletRequest : ReqOk(req[q]) /\ RowAgrees(req[q])
  BY <1>1 DEF ReqOk, RowAgrees
<1>3. RowsOk /\ CopiesAgree
  BY <1>1 DEF RowsOk, CopiesAgree
<1>4. SpareOk
  BY <1>1 DEF SpareOk, W!Deleting
<1> QED BY <1>1, <1>2, <1>3, <1>4 DEF WalletInv

(* One request moves on with its copy, or without one; a row stays as it   *)
(* was, is deleted, is made with an id nobody has, or is a copy saved.     *)
RowMoves(w) ==
    \/ link'[w].id = link[w].id /\ link'[w].user = link[w].user
    \/ link'[w].id = 0
    \/ \A p \in WalletRequest : req[p].copy.id # link'[w].id
    \/ \E p \in WalletRequest : /\ req[p].wallet = w /\ req[p].copy.id = link'[w].id
                                /\ req[p].copy.user = link'[w].user

LEMMA WalletMoves ==
    ASSUME WalletInv, NEW q \in WalletRequest, NEW o \in ReqOf,
           req' = [req EXCEPT ![q] = o], ReqOk(o), o.pc # "delete",
           \/ o.copy = W!NoLink
           \/ o.copy = req[q].copy /\ o.wallet = req[q].wallet,
           link' \in [Wallet -> LinkOf], overlapped' = overlapped, RowsOk',
           \A w \in Wallet : RowMoves(w),
           \A u \in Spared, w \in Wallet, p \in WalletRequest \ {q} :
              p \in W!Deleting(u) /\ link[w].user = u /\ w # req[p].wallet =>
                link'[w].user = u
    PROVE  WalletInv'
<1>1. /\ req' \in [WalletRequest -> ReqOf] /\ req'[q] = o
      /\ \A p \in WalletRequest \ {q} : req'[p] = req[p]
      /\ \A p \in WalletRequest : req[p] \in ReqOf
  BY DEF WalletInv
<1>2. \A p \in WalletRequest : ReqOk(req'[p])
  BY <1>1 DEF WalletInv
<1>3. \A p \in WalletRequest :
         \/ req'[p].copy = W!NoLink
         \/ req'[p].copy = req[p].copy /\ req'[p].wallet = req[p].wallet
  BY <1>1
<1>4. CopiesAgree'
  BY <1>3, WalletFacts DEF WalletInv, CopiesAgree
<1>5. ASSUME NEW p \in WalletRequest  PROVE RowAgrees(req[p])'
  <2> DEFINE w == req[p].wallet
  <2>1. SUFFICES ASSUME req'[p].copy.id # 0, link'[req'[p].wallet].id = req'[p].copy.id
                 PROVE  link'[req'[p].wallet].user = req'[p].copy.user
    BY DEF RowAgrees
  <2>2. req'[p].copy = req[p].copy /\ req'[p].wallet = req[p].wallet
    BY <1>3, <2>1, WalletFacts
  <2>3. w \in Wallet /\ RowMoves(w)
    BY <2>1, <2>2 DEF WalletInv, ReqOk
  <2>4. RowAgrees(req[p])
    BY DEF WalletInv
  <2>5. \A x \in WalletRequest :
           req[x].wallet = w /\ req[x].copy.id = req[p].copy.id =>
              req[x].copy.user = req[p].copy.user
    BY <2>1, <2>2 DEF WalletInv, CopiesAgree
  <2> QED BY <2>1, <2>2, <2>3, <2>4, <2>5 DEF RowMoves, RowAgrees
<1>6. SpareOk'
  <2> SUFFICES ASSUME NEW u \in Spared, NEW p \in WalletRequest, p \in W!Deleting(u)'
               PROVE  /\ W!Deleting(u)' = {p}
                      /\ \E v \in Wallet \ {req'[p].wallet} : link'[v].user = u
    BY DEF SpareOk, Spared
  <2>1. p # q /\ p \in W!Deleting(u) /\ req'[p] = req[p]
    BY <1>1 DEF W!Deleting
  <2>2. W!Deleting(u)' \subseteq W!Deleting(u)
    BY <1>1 DEF W!Deleting
  <2>3. W!Deleting(u) = {p} /\ \E v \in Wallet \ {req[p].wallet} : link[v].user = u
    BY <2>1 DEF WalletInv, SpareOk
  <2> QED BY <2>1, <2>2, <2>3
<1> QED BY <1>1, <1>2, <1>4, <1>5, <1>6 DEF WalletInv

(* The rows stay.                                                          *)
LEMMA WalletOnly ==
    ASSUME WalletInv, NEW q \in WalletRequest, NEW o \in ReqOf,
           req' = [req EXCEPT ![q] = o], ReqOk(o), o.pc # "delete",
           \/ o.copy = W!NoLink
           \/ o.copy = req[q].copy /\ o.wallet = req[q].wallet,
           UNCHANGED <<link, overlapped>>
    PROVE  WalletInv'
<1>1. link' \in [Wallet -> LinkOf] /\ RowsOk' /\ \A w \in Wallet : RowMoves(w)
  BY DEF WalletInv, RowsOk, RowMoves
<1> QED BY <1>1, WalletMoves

(* A request takes a copy of a row.                                        *)
LEMMA WalletCopies ==
    ASSUME WalletInv, NEW q \in WalletRequest, NEW o \in ReqOf,
           req' = [req EXCEPT ![q] = o], ReqOk(o), o.pc # "delete", o.wallet \in Wallet,
           o.copy.id = link[o.wallet].id, o.copy.user = link[o.wallet].user,
           UNCHANGED <<link, overlapped>>
    PROVE  WalletInv'
<1>1. /\ req' \in [WalletRequest -> ReqOf] /\ req'[q] = o
      /\ \A p \in WalletRequest \ {q} : req'[p] = req[p]
  BY DEF WalletInv
<1>2. \A p \in WalletRequest : ReqOk(req'[p])
  BY <1>1 DEF WalletInv
<1>3. ASSUME NEW p \in WalletRequest  PROVE RowAgrees(req[p])'
  BY <1>1 DEF WalletInv, RowAgrees
<1>4. CopiesAgree'
  BY <1>1 DEF WalletInv, CopiesAgree, RowAgrees
<1>5. SpareOk'
  <2> SUFFICES ASSUME NEW u \in Spared, NEW p \in WalletRequest, p \in W!Deleting(u)'
               PROVE  /\ W!Deleting(u)' = {p}
                      /\ \E v \in Wallet \ {req'[p].wallet} : link'[v].user = u
    BY DEF SpareOk, Spared
  <2>1. p # q /\ p \in W!Deleting(u) /\ req'[p] = req[p]
    BY <1>1 DEF W!Deleting
  <2>2. W!Deleting(u)' \subseteq W!Deleting(u)
    BY <1>1 DEF W!Deleting
  <2> QED BY <2>1, <2>2 DEF WalletInv, SpareOk
<1> QED BY <1>1, <1>2, <1>3, <1>4, <1>5 DEF WalletInv, RowsOk

LEMMA WalletEnds ==
    ASSUME WalletInv, NEW q \in WalletRequest, W!EndReq(q), UNCHANGED <<link, overlapped>>
    PROVE  WalletInv'
<1>1. req' = [req EXCEPT ![q] = W!NoReq]
  BY DEF W!EndReq
<1>2. ReqOk(W!NoReq)
  BY WalletFacts DEF ReqOk
<1> QED BY <1>1, <1>2, WalletFacts, WalletOnly

LEMMA WalletFails ==
    ASSUME NEW q \in WalletRequest, W!Fails(q)
    PROVE  W!EndReq(q) /\ UNCHANGED <<link, overlapped>>
BY Zenon DEF W!Fails

(* A request goes on to its next statement.                                *)
LEMMA Continues ==
    ASSUME WalletInv, NEW q \in WalletRequest, NEW pc \in Busy, W!GoOn(q, pc),
           req[q].pc \notin {"idle", "find", "create"} \/ pc = "create",
           pc \notin {"save", "count", "delete", "promote"}, req[q].pc # "idle"
    PROVE  \E o \in ReqOf :
              /\ req' = [req EXCEPT ![q] = o] /\ ReqOk(o) /\ o.pc # "delete"
              /\ o.copy = req[q].copy /\ o.wallet = req[q].wallet
<1> DEFINE o == [req[q] EXCEPT !.pc = pc]
<1>1. req[q] \in ReqOf /\ ReqOk(req[q])
  BY DEF WalletInv
<1>2. /\ o \in ReqOf /\ o.pc = pc /\ o.copy = req[q].copy /\ o.wallet = req[q].wallet
      /\ o.user = req[q].user
  BY <1>1 DEF ReqOf
<1>3. req' = [req EXCEPT ![q] = o]
  BY DEF W!GoOn
<1> HIDE DEF o
<1>4. ReqOk(o)
  BY <1>1, <1>2 DEF ReqOk
<1> QED BY <1>2, <1>3, <1>4

LEMMA WalletContinues ==
    ASSUME WalletInv, NEW q \in WalletRequest, NEW pc \in Busy, W!GoOn(q, pc),
           req[q].pc \notin {"idle", "find", "create"} \/ pc = "create",
           pc \notin {"save", "count", "delete", "promote"}, req[q].pc # "idle",
           UNCHANGED <<link, overlapped>>
    PROVE  WalletInv'
BY Continues, WalletOnly
-----------------------------------------------------------------------------
LEMMA WalletBegins ==
    ASSUME WalletInv, NEW q \in WalletRequest, NEW o \in ReqOf,
           req' = [req EXCEPT ![q] = o], o.copy = W!NoLink, o.wallet \in Wallet,
           o.pc = "find" \/ (o.pc = "upsert" /\ o.user \in User),
           UNCHANGED <<link, overlapped>>
    PROVE  WalletInv'
<1>1. ReqOk(o) /\ o.pc # "delete"
  BY WalletFacts DEF ReqOk
<1> QED BY <1>1, WalletOnly

LEMMA WalletVerify ==
    ASSUME WalletInv, NEW q \in WalletRequest, NEW w \in Wallet, W!Verify(q, w)
    PROVE  WalletInv'
<1> DEFINE o == [W!NoReq EXCEPT !.wallet = w, !.primary = TRUE, !.user = link[w].user,
                   !.pc = IF link[w].user = None THEN "find" ELSE "upsert"]
<1>1. link[w] \in LinkOf
  BY DEF WalletInv
<1>2. link[w].user \in User \cup {None}
  BY <1>1 DEF LinkOf
<1>3. /\ o \in ReqOf /\ o.copy = W!NoLink /\ o.wallet = w
      /\ o.pc = "find" \/ (o.pc = "upsert" /\ o.user \in User)
  BY <1>2, WalletFacts DEF ReqOf, W!NoReq, Busy
<1>4. req' = [req EXCEPT ![q] = o] /\ UNCHANGED <<link, overlapped>>
  BY DEF W!Verify
<1> HIDE DEF o
<1> QED BY <1>3, <1>4, WalletBegins

LEMMA WalletLink ==
    ASSUME WalletInv, NEW q \in WalletRequest, NEW u \in User, NEW w \in Wallet,
           W!Link(q, u, w)
    PROVE  WalletInv'
<1> DEFINE o == [W!NoReq EXCEPT !.user = u, !.wallet = w, !.pc = "upsert"]
<1>1. /\ o \in ReqOf /\ o.copy = W!NoLink /\ o.wallet = w
      /\ o.pc = "upsert" /\ o.user \in User
  BY WalletFacts DEF ReqOf, W!NoReq, Busy
<1>2. req' = [req EXCEPT ![q] = o] /\ UNCHANGED <<link, overlapped>>
  BY DEF W!Link
<1> HIDE DEF o
<1> QED BY <1>1, <1>2, WalletBegins

LEMMA WalletFor ==
    ASSUME WalletInv, NEW q \in WalletRequest, NEW u \in User, W!For(q, u, "upsert"),
           req[q].pc # "idle", UNCHANGED <<link, overlapped>>
    PROVE  WalletInv'
<1> DEFINE o == [req[q] EXCEPT !.user = u, !.pc = "upsert"]
<1>1. req[q] \in ReqOf /\ ReqOk(req[q])
  BY DEF WalletInv
<1>2. /\ o \in ReqOf /\ o.pc = "upsert" /\ o.copy = req[q].copy
      /\ o.wallet = req[q].wallet /\ o.user = u
  BY <1>1 DEF ReqOf, Busy
<1>3. req' = [req EXCEPT ![q] = o]
  BY DEF W!For
<1> HIDE DEF o
<1>4. ReqOk(o)
  BY <1>1, <1>2 DEF ReqOk
<1> QED BY <1>2, <1>3, <1>4, WalletOnly

LEMMA WalletFinds ==
    ASSUME WalletInv, NEW q \in WalletRequest, W!FindUser(q)
    PROVE  WalletInv'
<1>1. CASE \E u \in W!Claims(req[q].wallet) : W!For(q, u, "upsert")
  BY <1>1, WalletFor DEF W!FindUser, W!Claims
<1>2. CASE W!GoOn(q, "create")
  BY <1>2, WalletContinues DEF W!FindUser, Busy
<1> QED BY <1>1, <1>2 DEF W!FindUser

LEMMA WalletCreates ==
    ASSUME WalletInv, NEW q \in WalletRequest, W!CreateUser(q)
    PROVE  WalletInv'
BY WalletFor DEF W!CreateUser

LEMMA WalletUpserts ==
    ASSUME WalletInv, NEW q \in WalletRequest, W!Upsert(q)
    PROVE  WalletInv'
<1> DEFINE row == link[req[q].wallet]
<1>1. req[q] \in ReqOf /\ ReqOk(req[q]) /\ req[q].pc = "upsert"
  BY DEF WalletInv, W!Upsert
<1>2. req[q].wallet \in Wallet /\ req[q].user \in User /\ req[q].primary \in BOOLEAN
  BY <1>1 DEF ReqOk, ReqOf
<1>3. row \in LinkOf /\ (row.id = 0 <=> row.user = None)
  BY <1>2 DEF WalletInv, RowsOk
<1>4. CASE /\ row.user = req[q].user
           /\ req' = [req EXCEPT ![q].pc = "save",
                        ![q].copy = [row EXCEPT !.primary = @ \/ req[q].primary]]
  <2> DEFINE c == [row EXCEPT !.primary = @ \/ req[q].primary]
             o == [req[q] EXCEPT !.pc = "save", !.copy = c]
  <2>1. c \in LinkOf /\ c.id = row.id /\ c.user = row.user
    BY <1>2, <1>3 DEF LinkOf
  <2>2. req' = [req EXCEPT ![q] = o]
    BY <1>4
  <2> HIDE DEF c, row
  <2>3. /\ o \in ReqOf /\ o.pc = "save" /\ o.copy = c /\ o.wallet = req[q].wallet
        /\ o.user = req[q].user
    BY <1>1, <2>1 DEF ReqOf, Busy
  <2> HIDE DEF o
  <2>4. ReqOk(o)
    BY <1>2, <1>3, <1>4, <2>1, <2>3, WalletFacts DEF ReqOk
  <2>5. o.copy.id = link[o.wallet].id /\ o.copy.user = link[o.wallet].user
    BY <2>1, <2>3 DEF row
  <2>6. UNCHANGED <<link, overlapped>>
    BY DEF W!Upsert
  <2> QED BY <1>2, <2>2, <2>3, <2>4, <2>5, <2>6, WalletCopies
<1>5. CASE W!GoOn(q, IF req[q].primary THEN "demote" ELSE "insert")
  BY <1>1, <1>5, WalletContinues DEF W!Upsert, Busy
<1> QED BY <1>4, <1>5 DEF W!Upsert

LEMMA WalletDemotes ==
    ASSUME WalletInv, NEW q \in WalletRequest, W!Demote(q)
    PROVE  WalletInv'
<1>1. PICK o \in ReqOf :
         /\ req' = [req EXCEPT ![q] = o] /\ ReqOk(o) /\ o.pc # "delete"
         /\ o.copy = req[q].copy /\ o.wallet = req[q].wallet
  BY Continues DEF W!Demote, Busy
<1>2. overlapped' = overlapped
  BY DEF W!Demote
<1>3. ASSUME NEW w \in Wallet
      PROVE  link'[w] \in LinkOf /\ link'[w].id = link[w].id /\ link'[w].user = link[w].user
  <2>1. link[w] \in LinkOf
    BY DEF WalletInv
  <2>2. link'[w] = IF link[w].user = req[q].user
                   THEN [link[w] EXCEPT !.primary = FALSE] ELSE link[w]
    BY DEF W!Demote
  <2> QED BY <2>1, <2>2 DEF LinkOf
<1>4. link' \in [Wallet -> LinkOf]
  BY <1>3 DEF W!Demote
<1>5. RowsOk' /\ \A w \in Wallet : RowMoves(w)
  BY <1>3 DEF WalletInv, RowsOk, RowMoves
<1> QED BY <1>1, <1>2, <1>3, <1>4, <1>5, WalletMoves

-----------------------------------------------------------------------------
(* There is always an id nobody has.                                       *)
LEMMA IdsFinite == IsFiniteSet(W!Ids)
<1> DEFINE rows == {link[w].id : w \in Wallet}
           copies == {req[p].copy.id : p \in WalletRequest}
<1>1. IsFiniteSet(rows)
  <2> DEFINE f == [w \in Wallet |-> link[w].id]
  <2>1. f \in Surjection(Wallet, rows)
    BY DEF Surjection
  <2> QED BY ONLY <2>1, WalletFacts, FS_Surjection
<1>3. IsFiniteSet(copies)
  <2> DEFINE f == [p \in WalletRequest |-> req[p].copy.id]
  <2>1. f \in Surjection(WalletRequest, copies)
    BY DEF Surjection
  <2> QED BY ONLY <2>1, WalletFacts, FS_Surjection
<1>2. W!Ids = rows \cup copies
  BY DEF W!Ids
<1> HIDE DEF rows, copies
<1> QED BY <1>1, <1>2, <1>3, FS_Union

LEMMA FreshId == W!Fresh \in Nat \ {0} /\ W!Fresh \notin W!Ids
<1> DEFINE n == Cardinality(W!Ids)
<1>1. n \in Nat /\ IsFiniteSet(1..(n + 1)) /\ Cardinality(1..(n + 1)) = n + 1
  <2>1. n \in Nat
    BY IdsFinite, FS_CardinalityType
  <2> HIDE DEF n
  <2>2. 1 \in Int /\ n + 1 \in Int /\ ~(1 > n + 1) /\ (n + 1) - 1 + 1 = n + 1
    BY <2>1
  <2> QED BY <2>1, <2>2, FS_Interval
<1>2. \E i \in 1..(n + 1) : i \notin W!Ids
  <2>1. SUFFICES ASSUME 1..(n + 1) \subseteq W!Ids PROVE FALSE
    OBVIOUS
  <2>2. Cardinality(1..(n + 1)) <= n
    BY <2>1, IdsFinite, FS_Subset
  <2> QED BY <1>1, <2>2
<1>3. W!Cardinality(W!Ids) = n
  BY Zenon DEF W!Cardinality, Cardinality, W!IsFiniteSet, IsFiniteSet
<1>4. W!Fresh = CHOOSE i \in 1..(n + 1) : i \notin W!Ids
  BY <1>3 DEF W!Fresh
<1> HIDE DEF n
<1>5. W!Fresh \in 1..(n + 1) /\ W!Fresh \notin W!Ids
  BY <1>2, <1>4
<1> QED BY <1>1, <1>5
LEMMA WalletInserts ==
    ASSUME WalletInv, NEW q \in WalletRequest, W!Insert(q)
    PROVE  WalletInv'
<1> DEFINE w == req[q].wallet
           new == [user |-> req[q].user, primary |-> req[q].primary, id |-> W!Fresh]
<1>1. PICK o \in ReqOf :
         /\ req' = [req EXCEPT ![q] = o] /\ ReqOk(o) /\ o.pc # "delete"
         /\ o.copy = req[q].copy /\ o.wallet = req[q].wallet
  BY Continues DEF W!Insert, Busy
<1>2. req[q] \in ReqOf /\ ReqOk(req[q]) /\ req[q].pc = "insert"
  BY DEF WalletInv, W!Insert
<1>3. w \in Wallet /\ req[q].user \in User /\ req[q].primary \in BOOLEAN
  BY <1>2 DEF ReqOk, ReqOf
<1>4. /\ link[w] = W!NoLink /\ link' = [link EXCEPT ![w] = new]
      /\ overlapped' = overlapped
  BY DEF W!Insert
<1>5. W!Fresh \in Nat \ {0} /\ \A p \in WalletRequest : req[p].copy.id # W!Fresh
  BY FreshId DEF W!Ids
<1>6. new \in LinkOf /\ new.id = W!Fresh /\ new.user = req[q].user
  BY <1>3, <1>5 DEF LinkOf
<1> HIDE DEF w, new
<1>7. link' \in [Wallet -> LinkOf] /\ link'[w] = new
      /\ \A v \in Wallet \ {w} : link'[v] = link[v]
  BY <1>3, <1>4, <1>6 DEF WalletInv
<1>8. RowsOk'
  BY <1>3, <1>5, <1>6, <1>7, WalletFacts DEF WalletInv, RowsOk
<1>9. \A v \in Wallet : RowMoves(v)
  BY <1>5, <1>6, <1>7 DEF RowMoves
<1>10. \A u \in Spared, v \in Wallet : link[v].user = u => link'[v].user = u
  BY <1>4, <1>7, WalletFacts DEF Spared
<1> QED BY ONLY <1>1, <1>4, <1>7, <1>8, <1>9, <1>10, WalletInv, q \in WalletRequest, WalletMoves

(* A save writes the copy over the row it was taken of, or over none.      *)
LEMMA WalletSaves ==
    ASSUME WalletInv, NEW q \in WalletRequest, NEW pc \in {"sync", "show"},
           req[q].pc \in {"save", "promote"},
           W!SaveCopy(q), W!Saved(q, pc), overlapped' = overlapped
    PROVE  WalletInv'
<1> DEFINE w == req[q].wallet
           o == [req[q] EXCEPT !.pc = pc, !.copy = W!NoLink]
<1>1. req[q] \in ReqOf /\ ReqOk(req[q]) /\ RowAgrees(req[q])
  BY DEF WalletInv
<1>2. /\ w \in Wallet /\ req[q].user \in User /\ req[q].copy \in LinkOf
      /\ req[q].copy.user = req[q].user /\ req[q].copy.id # 0
  BY <1>1 DEF ReqOk, ReqOf
<1>3. /\ o \in ReqOf /\ o.pc = pc /\ o.user = req[q].user /\ o.wallet = req[q].wallet
      /\ o.copy = W!NoLink
  BY <1>1, WalletFacts DEF ReqOf, Busy
<1>4. req' = [req EXCEPT ![q] = o]
  BY DEF W!Saved
<1> HIDE DEF o
<1>5. ReqOk(o)
  BY <1>2, <1>3, WalletFacts DEF ReqOk
<1>6. link[w].id \in {0, req[q].copy.id} /\ link' = [link EXCEPT ![w] = req[q].copy]
  BY DEF W!SaveCopy
<1>7. link' \in [Wallet -> LinkOf] /\ link'[w] = req[q].copy
      /\ \A v \in Wallet \ {w} : link'[v] = link[v]
  BY <1>2, <1>6 DEF WalletInv
<1>8. RowsOk'
  BY <1>2, <1>7, WalletFacts DEF WalletInv, RowsOk
<1>9. \A v \in Wallet : RowMoves(v)
  BY <1>7 DEF RowMoves
<1>10. link[w].user # None => link[w].user = req[q].copy.user
  BY <1>1, <1>2, <1>6 DEF WalletInv, RowsOk, RowAgrees
<1>11. \A u \in Spared, v \in Wallet : link[v].user = u => link'[v].user = u
  BY <1>7, <1>10, WalletFacts DEF Spared
<1>12. o.pc # "delete"
  BY <1>3
<1> HIDE DEF w
<1> QED BY ONLY <1>3, <1>4, <1>5, <1>7, <1>8, <1>9, <1>11, <1>12, WalletInv,
                q \in WalletRequest, overlapped' = overlapped, WalletMoves

LEMMA WalletUnlinks ==
    ASSUME WalletInv, NEW q \in WalletRequest, NEW w \in Wallet, W!Unlink(q, w)
    PROVE  WalletInv'
<1> DEFINE o == [W!NoReq EXCEPT !.user = link[w].user, !.wallet = w, !.copy = link[w],
                                !.pc = "count"]
<1>1. link[w] \in LinkOf /\ link[w].user # None /\ link[w].id # 0
  BY DEF WalletInv, W!Unlink, RowsOk
<1>2. link[w].user \in User
  BY <1>1 DEF LinkOf
<1>3. /\ o \in ReqOf /\ o.pc = "count" /\ o.user = link[w].user /\ o.wallet = w
      /\ o.copy = link[w]
  BY <1>1, <1>2 DEF ReqOf, Busy, W!NoReq
<1>4. req' = [req EXCEPT ![q] = o] /\ UNCHANGED <<link, overlapped>>
  BY DEF W!Unlink
<1> HIDE DEF o
<1>5. ReqOk(o)
  BY <1>1, <1>2, <1>3 DEF ReqOk
<1> QED BY <1>3, <1>4, <1>5, WalletCopies

LEMMA WalletDeletes ==
    ASSUME WalletInv, NEW q \in WalletRequest, W!Delete(q)
    PROVE  WalletInv'
<1> DEFINE w == req[q].wallet
<1>1. req[q] \in ReqOf /\ ReqOk(req[q]) /\ RowAgrees(req[q]) /\ req[q].pc = "delete"
  BY DEF WalletInv, W!Delete
<1>2. /\ w \in Wallet /\ req[q].user \in User
      /\ req[q].copy.user = req[q].user /\ req[q].copy.id # 0
  BY <1>1 DEF ReqOk
<1>3. PICK o \in ReqOf :
         /\ req' = [req EXCEPT ![q] = o] /\ ReqOk(o) /\ o.pc # "delete"
         /\ \/ o.copy = W!NoLink
            \/ o.copy = req[q].copy /\ o.wallet = req[q].wallet
  <2>1. CASE W!GoOn(q, "next")
    BY <1>1, <2>1, Continues DEF Busy
  <2>2. CASE W!EndReq(q)
    BY <2>2, WalletFacts DEF W!EndReq, ReqOk
  <2> QED BY <2>1, <2>2 DEF W!Delete
<1>4. link' = IF link[w].id = req[q].copy.id THEN [link EXCEPT ![w] = W!NoLink] ELSE link
  BY DEF W!Delete
<1>5. link' \in [Wallet -> LinkOf] /\ \A v \in Wallet : link'[v] = link[v] \/
         (v = w /\ link[w].id = req[q].copy.id /\ link'[v] = W!NoLink)
  BY <1>2, <1>4, WalletFacts DEF WalletInv
<1>6. RowsOk'
  BY <1>5, WalletFacts DEF WalletInv, RowsOk
<1>7. \A v \in Wallet : RowMoves(v)
  BY <1>5, WalletFacts DEF RowMoves
<1>8. ASSUME NEW u \in Spared, NEW v \in Wallet, NEW p \in WalletRequest \ {q},
             p \in W!Deleting(u), link[v].user = u, link'[v].user # u
      PROVE  FALSE
  <2>1. v = w /\ link[w].id = req[q].copy.id
    BY <1>5, <1>8
  <2>2. req[q].user = u
    BY <1>1, <1>2, <1>8, <2>1 DEF RowAgrees
  <2>3. q \in W!Deleting(u)
    BY <1>1, <2>2 DEF W!Deleting
  <2> QED BY <1>8, <2>3 DEF WalletInv, SpareOk
<1>9. overlapped' = overlapped
  BY DEF W!Delete
<1> QED BY ONLY <1>3, <1>5, <1>6, <1>7, <1>8, <1>9, WalletInv, q \in WalletRequest,
                WalletMoves

LEMMA WalletPromotes ==
    ASSUME WalletInv, NEW q \in WalletRequest, W!NextPrimary(q)
    PROVE  WalletInv'
<1>1. CASE W!GoOn(q, "clear")
  BY <1>1, WalletContinues DEF W!NextPrimary, Busy
<1>2. CASE \E w \in W!Linked(req[q].user) :
             req' = [req EXCEPT ![q].pc = "promote", ![q].wallet = w,
                                ![q].copy = [link[w] EXCEPT !.primary = TRUE]]
  <2>1. PICK w \in Wallet :
           /\ link[w].user = req[q].user
           /\ req' = [req EXCEPT ![q].pc = "promote", ![q].wallet = w,
                                 ![q].copy = [link[w] EXCEPT !.primary = TRUE]]
    BY <1>2 DEF W!Linked
  <2> DEFINE c == [link[w] EXCEPT !.primary = TRUE]
             o == [req[q] EXCEPT !.pc = "promote", !.wallet = w, !.copy = c]
  <2>2. req[q] \in ReqOf /\ ReqOk(req[q]) /\ req[q].pc = "next"
    BY DEF WalletInv, W!NextPrimary
  <2>3. req[q].user \in User /\ link[w] \in LinkOf /\ link[w].id # 0
    BY <2>1, <2>2, WalletFacts DEF ReqOk, WalletInv, RowsOk
  <2>4. c \in LinkOf /\ c.id = link[w].id /\ c.user = link[w].user
    BY <2>3 DEF LinkOf
  <2>5. req' = [req EXCEPT ![q] = o]
    BY <2>1
  <2> HIDE DEF c
  <2>6. /\ o \in ReqOf /\ o.pc = "promote" /\ o.copy = c /\ o.wallet = w
        /\ o.user = req[q].user
    BY <2>2, <2>4 DEF ReqOf, Busy
  <2> HIDE DEF o
  <2>7. ReqOk(o)
    BY <2>1, <2>3, <2>4, <2>6 DEF ReqOk
  <2>8. UNCHANGED <<link, overlapped>>
    BY DEF W!NextPrimary
  <2> QED BY <2>4, <2>5, <2>6, <2>7, <2>8, WalletCopies
<1> QED BY <1>1, <1>2 DEF W!NextPrimary

(* An unlink of a wallet-only account goes on when another wallet is left. *)
LEMMA SomeOther ==
    ASSUME NEW u, NEW w, W!Cardinality(W!Linked(u)) > 1
    PROVE  \E v \in Wallet \ {w} : link[v].user = u
<1> DEFINE V == W!Linked(u)
<1>1. W!Cardinality(V) = Cardinality(V)
  BY Zenon DEF W!Cardinality, Cardinality, W!IsFiniteSet, IsFiniteSet
<1>2. V \subseteq Wallet
  BY DEF W!Linked
<1>3. IsFiniteSet(V)
  BY <1>2, WalletFacts, FS_Subset
<1>4. SUFFICES ASSUME \A v \in Wallet \ {w} : link[v].user # u PROVE FALSE
  OBVIOUS
<1>5. V \subseteq {w}
  BY <1>4 DEF W!Linked
<1> HIDE DEF V
<1>6. IsFiniteSet({w}) /\ Cardinality({w}) = 1
  BY FS_Singleton
<1>7. Cardinality(V) <= 1
  BY <1>5, <1>6, FS_Subset
<1>8. Cardinality(V) \in Nat
  BY <1>3, FS_CardinalityType
<1> QED BY <1>1, <1>7, <1>8 DEF V

LEMMA WalletCounts ==
    ASSUME WalletInv, NEW q \in WalletRequest, W!Count(q)
    PROVE  WalletInv'
<1> DEFINE o == [req[q] EXCEPT !.pc = "delete"]
           me == req[q].user
<1>1. req[q] \in ReqOf /\ ReqOk(req[q]) /\ RowAgrees(req[q]) /\ req[q].pc = "count"
  BY DEF WalletInv, W!Count
<1>2. /\ o \in ReqOf /\ o.pc = "delete" /\ o.copy = req[q].copy
      /\ o.wallet = req[q].wallet /\ o.user = me
  BY <1>1 DEF ReqOf, Busy
<1>3. req' = [req EXCEPT ![q] = o] /\ link' = link
  BY DEF W!Count, W!GoOn
<1> HIDE DEF o
<1>4. /\ req' \in [WalletRequest -> ReqOf] /\ req'[q] = o
      /\ \A p \in WalletRequest \ {q} : req'[p] = req[p]
  BY <1>2, <1>3 DEF WalletInv
<1>5. \A p \in WalletRequest : req'[p].copy = req[p].copy /\ req'[p].wallet = req[p].wallet
  BY <1>2, <1>4
<1>6. \A p \in WalletRequest : ReqOk(req'[p])
  BY <1>1, <1>2, <1>4 DEF WalletInv, ReqOk
<1>7. (\A p \in WalletRequest : RowAgrees(req[p]))' /\ CopiesAgree'
  BY <1>3, <1>5 DEF WalletInv, RowAgrees, CopiesAgree
<1>8. \A u : W!Deleting(u)' = W!Deleting(u) \cup (IF u = me THEN {q} ELSE {})
  BY <1>1, <1>2, <1>4 DEF W!Deleting
<1>9. SpareOk'
  <2> SUFFICES ASSUME NEW u \in Spared', NEW p \in WalletRequest, p \in W!Deleting(u)'
               PROVE  /\ W!Deleting(u)' = {p}
                      /\ \E v \in Wallet \ {req'[p].wallet} : link'[v].user = u
    BY DEF SpareOk
  <2>1. u \in Spared
    BY DEF Spared, W!Count
  <2>2. CASE u = me
    <3>1. W!Deleting(u) = {} /\ u \notin WithEmail
      BY <2>2 DEF Spared, W!Count
    <3>2. p = q /\ W!Deleting(u)' = {q}
      BY <1>8, <2>2, <3>1
    <3>3. W!Cardinality(W!Linked(me)) > 1
      BY <2>2, <3>1 DEF W!Count, W!MayUnlink
    <3>4. \E v \in Wallet \ {req[q].wallet} : link[v].user = me
      BY <3>3, SomeOther
    <3> QED BY <1>3, <1>5, <2>2, <3>2, <3>4
  <2>3. CASE u # me
    <3>1. W!Deleting(u)' = W!Deleting(u)
      BY <1>8, <2>3
    <3>2. W!Deleting(u) = {p} /\ \E v \in Wallet \ {req[p].wallet} : link[v].user = u
      BY <2>1, <3>1 DEF WalletInv, SpareOk
    <3> QED BY <1>3, <1>5, <3>1, <3>2
  <2> QED BY <2>2, <2>3
<1>10. RowsOk' /\ link' \in [Wallet -> LinkOf]
  BY <1>3 DEF WalletInv, RowsOk
<1> QED BY <1>4, <1>6, <1>7, <1>9, <1>10 DEF WalletInv
LEMMA WalletStep == WalletInv /\ [Next]_vars => WalletInv'
<1> SUFFICES ASSUME WalletInv, [Next]_vars PROVE WalletInv'
  OBVIOUS
<1>1. CASE UNCHANGED <<link, req, overlapped>>
  BY <1>1 DEF WalletInv, RowsOk, RowAgrees, CopiesAgree, SpareOk, Spared, W!Deleting
<1>2. ASSUME NEW q \in WalletRequest, NEW w \in Wallet, W!Verify(q, w) \/ W!Unlink(q, w)
      PROVE  WalletInv'
  BY <1>2, WalletVerify, WalletUnlinks
<1>3. ASSUME NEW q \in WalletRequest, NEW u \in User, NEW w \in Wallet, W!Link(q, u, w)
      PROVE  WalletInv'
  BY <1>3, WalletLink
<1>4. ASSUME NEW q \in WalletRequest,
             W!FindUser(q) \/ W!Upsert(q) \/ W!Demote(q) \/ W!Delete(q) \/ W!NextPrimary(q)
      PROVE  WalletInv'
  BY <1>4, WalletFinds, WalletUpserts, WalletDemotes, WalletDeletes, WalletPromotes
<1>5. ASSUME NEW q \in WalletRequest, W!Advances(q)
      PROVE  WalletInv'
  <2>1. CASE W!CreateUser(q)
    BY <2>1, WalletCreates
  <2>2. CASE W!Insert(q)
    BY <2>2, WalletInserts
  <2>3. CASE W!SaveRow(q)
    BY <2>3, WalletSaves DEF W!SaveRow
  <2>4. CASE W!Sync(q)
    BY <2>4, WalletEnds DEF W!Sync
  <2>5. CASE W!Count(q)
    BY <2>5, WalletCounts
  <2>6. CASE W!Promote(q)
    BY <2>6, WalletSaves DEF W!Promote
  <2>7. CASE W!Show(q)
    BY <2>7, WalletEnds DEF W!Show
  <2> QED BY <1>5, <2>1, <2>2, <2>3, <2>4, <2>5, <2>6, <2>7 DEF W!Advances
<1>6. ASSUME NEW q \in WalletRequest, W!Fails(q)
      PROVE  WalletInv'
  BY <1>6, WalletFails, WalletEnds
<1>7. ASSUME NEW q \in WalletRequest, W!CutOff(q)
      PROVE  WalletInv'
  BY <1>7, WalletEnds DEF W!CutOff
<1>8. CASE W!Next
  BY <1>2, <1>3, <1>4, <1>5, <1>6, <1>7, <1>8 DEF W!Next
<1> QED BY <1>1, <1>8 DEF Next, vars, ofWallets

(* A row of an account is lost by a delete only: by an unlink that was let *)
(* go on, no other one of the account overlapping it.                      *)
LEMMA RowsLost ==
    ASSUME WalletInv, [Next]_vars, NEW u \in User \ (WithEmail \cup overlapped'),
           W!Linked(u) # {}
    PROVE  W!Linked(u)' # {}
<1> DEFINE Kept == \A v \in Wallet : link[v].user = u => link'[v].user = u
<1>1. CASE Kept
  BY <1>1 DEF W!Linked
<1>2. CASE link' = link
  BY <1>2 DEF W!Linked
<1>3. ASSUME NEW q \in WalletRequest, W!Demote(q) PROVE Kept
  <2> SUFFICES ASSUME NEW w \in Wallet, link[w].user = u PROVE link'[w].user = u
    OBVIOUS
  <2>1. link[w] \in LinkOf
    BY DEF WalletInv
  <2>2. link'[w] = IF link[w].user = req[q].user
                   THEN [link[w] EXCEPT !.primary = FALSE] ELSE link[w]
    BY <1>3 DEF W!Demote
  <2> QED BY <2>1, <2>2 DEF LinkOf
<1>4. ASSUME NEW q \in WalletRequest, W!Insert(q) PROVE Kept
  <2>1. req[q].wallet \in Wallet /\ link \in [Wallet -> LinkOf]
    BY <1>4 DEF WalletInv, ReqOk, W!Insert
  <2>2. link[req[q].wallet].user # u
    BY <1>4, WalletFacts DEF W!Insert
  <2>3. \A v \in Wallet \ {req[q].wallet} : link'[v] = link[v]
    BY <1>4, <2>1 DEF W!Insert
  <2> QED BY <2>2, <2>3
<1>5. ASSUME NEW q \in WalletRequest, req[q].pc \in {"save", "promote"}, W!SaveCopy(q)
      PROVE  Kept
  <2>1. /\ req[q].wallet \in Wallet /\ link \in [Wallet -> LinkOf]
        /\ RowAgrees(req[q]) /\ req[q].copy.id # 0
    BY <1>5 DEF WalletInv, ReqOk
  <2>2. /\ link'[req[q].wallet] = req[q].copy
        /\ \A v \in Wallet \ {req[q].wallet} : link'[v] = link[v]
    BY <1>5, <2>1 DEF W!SaveCopy
  <2>3. link[req[q].wallet].user = u => req[q].copy.user = u
    BY <1>5, <2>1, WalletFacts DEF W!SaveCopy, RowAgrees, WalletInv, RowsOk
  <2> QED BY <2>2, <2>3
<1>6. ASSUME NEW q \in WalletRequest, W!Delete(q)
      PROVE  W!Linked(u)' # {}
  <2> DEFINE w == req[q].wallet
  <2>1. /\ w \in Wallet /\ RowAgrees(req[q]) /\ req[q].copy.user = req[q].user
        /\ req[q].copy.id # 0 /\ req[q].pc = "delete" /\ link \in [Wallet -> LinkOf]
    BY <1>6 DEF WalletInv, ReqOk, W!Delete
  <2>2. /\ link' = IF link[w].id = req[q].copy.id THEN [link EXCEPT ![w] = W!NoLink] ELSE link
        /\ u \in Spared
    BY <1>6 DEF W!Delete, Spared
  <2> HIDE DEF w
  <2>3. \A v \in Wallet \ {w} : link'[v] = link[v]
    BY <2>1, <2>2
  <2>4. CASE link[w].id = req[q].copy.id /\ link[w].user = u
    <3>1. q \in W!Deleting(u)
      BY <2>1, <2>4 DEF W!Deleting, RowAgrees, w
    <3>2. \E v \in Wallet \ {w} : link[v].user = u
      BY <2>2, <3>1 DEF WalletInv, SpareOk, w
    <3> QED BY <2>3, <3>2 DEF W!Linked
  <2>5. CASE link[w].id # req[q].copy.id
    BY <1>2, <2>2, <2>5
  <2>6. CASE link[w].user # u
    BY <2>3, <2>6 DEF W!Linked
  <2> QED BY <2>4, <2>5, <2>6
<1>7. ASSUME NEW q \in WalletRequest, W!Advances(q) PROVE link' = link \/ Kept
  <2>1. CASE W!Insert(q)
    BY <1>4, <2>1
  <2>2. CASE W!SaveRow(q) \/ W!Promote(q)
    BY <1>5, <2>2 DEF W!SaveRow, W!Promote
  <2>3. CASE W!CreateUser(q) \/ W!Sync(q) \/ W!Count(q) \/ W!Show(q)
    BY <2>3 DEF W!CreateUser, W!Sync, W!Count, W!Show
  <2> QED BY <1>7, <2>1, <2>2, <2>3 DEF W!Advances
<1>8. ASSUME NEW q \in WalletRequest, W!Fails(q) PROVE link' = link
  BY <1>8, WalletFails
<1>9. ASSUME NEW q \in WalletRequest,
             \/ \E w \in Wallet : W!Verify(q, w) \/ W!Unlink(q, w)
             \/ \E v \in User, w \in Wallet : W!Link(q, v, w)
             \/ W!FindUser(q) \/ W!Upsert(q) \/ W!NextPrimary(q) \/ W!CutOff(q)
      PROVE  link' = link
  BY <1>9 DEF W!Verify, W!Unlink, W!Link, W!FindUser, W!Upsert, W!NextPrimary, W!CutOff
<1> HIDE DEF Kept
<1>10. CASE W!Next
  BY <1>1, <1>2, <1>3, <1>6, <1>7, <1>8, <1>9, <1>10 DEF W!Next
<1>11. CASE ~W!Next
  BY <1>2, <1>11 DEF Next, vars, ofWallets
<1> QED BY <1>10, <1>11

(* A wallet-only account that once had a wallet keeps one, for any number  *)
(* of accounts, wallets and concurrent requests, whatever wallets are      *)
(* signed in with, linked and unlinked, and wherever a request is cut off: *)
(* unlinkWallet (wallet-auth.service.ts) takes the last one only where two *)
(* unlinks of the account overlapped.                                      *)
THEOREM WalletKept == Spec => OneWalletStays
<1>1. WalletInv /\ [Next]_vars => [\A u \in User \ (WithEmail \cup overlapped') :
         W!Linked(u) # {} => W!Linked(u)' # {}]_(W!walletVars)
  BY RowsLost
<1> QED BY <1>1, WalletInit, WalletStep, PTL DEF Spec, OneWalletStays, W!OneWalletStays
-----------------------------------------------------------------------------
(* The tiers of a valid configuration rise, so the first tier in the list  *)
(* is the first to be reached: a discount is that tier's or none at all.   *)
FeeInv ==
    /\ fee_config \in F!FeeConfig /\ F!ValidFeeConfig(fee_config)
    /\ volume \in [User -> Int]

TierOf == [min_volume : Int, fee_discount_bps : Nat]

LEMMA TierType ==
    ASSUME NEW tiers \in Seq(TierOf)
    PROVE  /\ DOMAIN tiers = 1..Len(tiers) /\ Len(tiers) \in Nat
           /\ \A i \in DOMAIN tiers :
                 tiers[i].min_volume \in Int /\ tiers[i].fee_discount_bps \in Nat
<1>1. \A i \in DOMAIN tiers : tiers[i] \in TierOf
  OBVIOUS
<1>2. \A t \in TierOf : t.min_volume \in Int /\ t.fee_discount_bps \in Nat
  BY DEF TierOf
<1> QED BY <1>1, <1>2

LEMMA FirstOf ==
    ASSUME NEW D \in SUBSET Nat, D # {}
    PROVE  F!Min(D) \in D /\ \A i \in D : F!Min(D) <= i
<1>1. PICK R : IsWellFoundedOn(R, Nat) /\ \A m, n \in Nat : m < n => <<m, n>> \in R
  <2>1. IsWellFoundedOn({mn \in Nat \X Nat : mn[1] < mn[2]}, Nat)
    BY NatLessThanWellFounded DEF OpToRel
  <2> QED BY <2>1
<1>2. PICK n \in D : \A m \in D : ~ (<<m, n>> \in R)
  <2>1. IsWellFoundedOn(R, Nat) /\ D \subseteq Nat
    BY <1>1
  <2> QED BY <2>1, WFMin
<1>3. \A m \in D : n <= m
  <2> SUFFICES ASSUME NEW m \in D, m < n PROVE FALSE
    OBVIOUS
  <2>1. m \in Nat /\ n \in Nat
    OBVIOUS
  <2> QED BY <1>1, <1>2, <2>1
<1> QED BY <1>3 DEF F!Min

LEMMA DiscountIs ==
    ASSUME NEW tiers \in Seq(TierOf), NEW x \in Int,
           \A i \in DOMAIN tiers :
              tiers[i].min_volume > IF i = 1 THEN 0 ELSE tiers[i - 1].min_volume
    PROVE  F!VolumeDiscount(x, tiers) =
              IF 1 \in DOMAIN tiers /\ x >= tiers[1].min_volume
              THEN tiers[1].fee_discount_bps ELSE 0
<1> DEFINE reached == {i \in DOMAIN tiers : x >= tiers[i].min_volume}
<1>1. /\ DOMAIN tiers = 1..Len(tiers) /\ Len(tiers) \in Nat
      /\ \A i \in DOMAIN tiers : tiers[i].min_volume \in Int
  BY TierType
<1>2. CASE reached = {}
  BY <1>2 DEF F!VolumeDiscount
<1>3. CASE reached # {}
  <2>1. reached \subseteq Nat
    BY <1>1
  <2> DEFINE k == F!Min(reached)
  <2>2. k \in reached /\ \A i \in reached : k <= i
    BY <1>3, <2>1, FirstOf
  <2> HIDE DEF k
  <2>3. k = 1
    <3>1. SUFFICES ASSUME k # 1 PROVE FALSE
      OBVIOUS
    <3>2. k \in DOMAIN tiers /\ k - 1 \in DOMAIN tiers
      BY <1>1, <2>2, <3>1
    <3>3. tiers[k].min_volume > tiers[k - 1].min_volume
      BY <3>1, <3>2
    <3>4. k - 1 \in reached
      BY <1>1, <2>2, <3>2, <3>3
    <3> QED BY <1>1, <2>2, <3>4
  <2> QED BY <1>3, <2>2, <2>3 DEF F!VolumeDiscount, k
<1> QED BY <1>2, <1>3

LEMMA MoreBpsMore ==
    ASSUME NEW amount \in Nat, NEW a \in Nat, NEW b \in Nat, a <= b
    PROVE  /\ F!CalculatePercentage(amount, a) \in Int
           /\ F!CalculatePercentage(amount, b) \in Int
           /\ F!CalculatePercentage(amount, a) <= F!CalculatePercentage(amount, b)
<1> DEFINE x == amount * a
           y == amount * b
<1>1. x \in Nat /\ y \in Nat /\ x <= y
  <2>1. b - a \in Nat
    OBVIOUS
  <2>2. amount * (b - a) \in Nat
    BY <2>1
  <2>3. amount * (b - a) = amount * b - amount * a
    BY <2>1
  <2> QED BY <2>2, <2>3
<1>2. /\ F!CalculatePercentage(amount, a) = (x + 5000) \div 10000
      /\ F!CalculatePercentage(amount, b) = (y + 5000) \div 10000
  <2>1. F!Basis \div 2 = 5000 /\ F!Basis = 10000
    BY DEF F!Basis
  <2> QED BY <2>1 DEF F!CalculatePercentage
<1> HIDE DEF x, y
<1>3. (x + 5000) \div 10000 \in Int /\ (y + 5000) \div 10000 \in Int
      /\ (x + 5000) \div 10000 <= (y + 5000) \div 10000
  BY <1>1
<1> QED BY <1>2, <1>3

LEMMA MoreBpsDearer ==
    ASSUME NEW amount \in Nat, NEW a \in Nat, NEW b \in Nat, a <= b,
           NEW min \in Int, NEW max \in Int
    PROVE  /\ F!CalculateFee(amount, a, min, max) \in Int
           /\ F!CalculateFee(amount, b, min, max) \in Int
           /\ F!CalculateFee(amount, a, min, max) <= F!CalculateFee(amount, b, min, max)
<1> DEFINE x == F!CalculatePercentage(amount, a)
           y == F!CalculatePercentage(amount, b)
<1>1. x \in Int /\ y \in Int /\ x <= y
  BY MoreBpsMore
<1> HIDE DEF x, y
<1> QED BY <1>1 DEF F!CalculateFee, x, y

LEMMA DiscountBps ==
    ASSUME NEW cfg \in F!FeeConfig, F!ValidFeeConfig(cfg), NEW x \in Int
    PROVE  /\ F!VolumeDiscount(x, cfg.tiers) \in Nat
           /\ F!VolumeDiscount(x, cfg.tiers) =
                IF 1 \in DOMAIN cfg.tiers /\ x >= cfg.tiers[1].min_volume
                THEN cfg.tiers[1].fee_discount_bps ELSE 0
<1>1. cfg.tiers \in Seq(TierOf)
  BY DEF F!FeeConfig, TierOf
<1>2. \A i \in DOMAIN cfg.tiers :
         cfg.tiers[i].min_volume > IF i = 1 THEN 0 ELSE cfg.tiers[i - 1].min_volume
  BY DEF F!ValidFeeConfig
<1>3. 1 \in DOMAIN cfg.tiers => cfg.tiers[1].fee_discount_bps \in Nat
  BY <1>1, TierType
<1>4. F!VolumeDiscount(x, cfg.tiers) =
         IF 1 \in DOMAIN cfg.tiers /\ x >= cfg.tiers[1].min_volume
         THEN cfg.tiers[1].fee_discount_bps ELSE 0
  BY ONLY x \in Int, <1>1, <1>2, DiscountIs
<1> QED BY <1>3, <1>4

LEMMA QuoteIsInt ==
    ASSUME FeeInv, NEW u \in User, NEW amount \in Nat
    PROVE  F!Quote(u, amount) \in Int
<1>1. /\ fee_config.bps \in Nat /\ fee_config.minimum \in Int
      /\ fee_config.maximum \in Int /\ volume[u] \in Int
  BY DEF FeeInv, F!FeeConfig
<1>2. F!VolumeDiscount(volume[u], fee_config.tiers) \in Nat
  BY <1>1, DiscountBps DEF FeeInv
<1>3. F!SaturatingSub(fee_config.bps, F!VolumeDiscount(volume[u], fee_config.tiers)) \in Nat
  BY <1>1, <1>2 DEF F!SaturatingSub
<1>4. \A b \in Nat :
         F!CalculateFee(amount, b, fee_config.minimum, fee_config.maximum) \in Int
  BY <1>1, MoreBpsDearer
<1> QED BY <1>1, <1>3, <1>4 DEF F!Quote, F!PlatformFee

LEMMA VolumeCosts == FeeInv => VolumeNeverCosts
<1> SUFFICES ASSUME FeeInv, NEW u \in User, NEW v \in User,
                    u \notin fee_config.vip_exemptions, v \notin fee_config.vip_exemptions,
                    NEW amount \in Amounts, volume[u] >= volume[v]
             PROVE  F!Quote(u, amount) <= F!Quote(v, amount)
  BY DEF VolumeNeverCosts, F!VolumeNeverCosts
<1>1. /\ fee_config.bps \in Nat /\ fee_config.minimum \in Int /\ fee_config.maximum \in Int
      /\ fee_config.dynamic \in BOOLEAN
      /\ volume[u] \in Int /\ volume[v] \in Int /\ amount \in Nat
  BY Constants DEF FeeInv, F!FeeConfig, F!FeeConstants
<1> DEFINE d(x) == F!VolumeDiscount(volume[x], fee_config.tiers)
           bps(x) == F!SaturatingSub(fee_config.bps, d(x))
<1>2. CASE ~fee_config.dynamic
  <2>1. \A x : F!Quote(x, amount) = F!CalculateFee(amount, fee_config.bps,
                                        fee_config.minimum, fee_config.maximum)
    BY <1>2 DEF F!Quote, F!PlatformFee
  <2> QED BY <1>1, <2>1, MoreBpsDearer
<1>3. CASE fee_config.dynamic
  <2>1. /\ d(u) \in Nat /\ d(v) \in Nat
        /\ \A x \in {u, v} : d(x) =
             IF 1 \in DOMAIN fee_config.tiers /\ volume[x] >= fee_config.tiers[1].min_volume
             THEN fee_config.tiers[1].fee_discount_bps ELSE 0
    BY <1>1, DiscountBps DEF FeeInv
  <2>2. 1 \in DOMAIN fee_config.tiers => fee_config.tiers[1].min_volume \in Int
    <3>1. fee_config.tiers \in Seq(TierOf)
      BY DEF FeeInv, F!FeeConfig, TierOf
    <3> QED BY <3>1, TierType
  <2>3. d(u) >= d(v)
    BY <1>1, <2>1, <2>2
  <2>4. /\ F!Quote(u, amount) = F!CalculateFee(amount, bps(u), fee_config.minimum,
                                               fee_config.maximum)
        /\ F!Quote(v, amount) = F!CalculateFee(amount, bps(v), fee_config.minimum,
                                               fee_config.maximum)
    BY <1>3 DEF F!Quote, F!PlatformFee
  <2> HIDE DEF d
  <2>5. bps(u) \in Nat /\ bps(v) \in Nat /\ bps(u) <= bps(v)
    BY <1>1, <2>1, <2>3 DEF F!SaturatingSub
  <2> HIDE DEF bps
  <2> QED BY <1>1, <2>4, <2>5, MoreBpsDearer
<1> QED BY <1>1, <1>2, <1>3

LEMMA FeeInitial == Init => FeeInv
<1>1. ASSUME F!Init PROVE FeeInv
  BY <1>1, Constants DEF F!Init, FeeInv, F!FeeConstants
<1> QED BY <1>1 DEF Init

LEMMA FeeStep == FeeInv /\ [Next]_vars => FeeInv'
<1> SUFFICES ASSUME FeeInv, [Next]_vars PROVE FeeInv'
  OBVIOUS
<1>1. CASE UNCHANGED ofFees
  BY <1>1 DEF FeeInv, ofFees
<1>2. ASSUME NEW c \in Configs, F!UpdateFeeConfig(c) PROVE FeeInv'
  BY <1>2, Constants DEF FeeInv, F!UpdateFeeConfig, F!FeeConstants
<1>3. ASSUME NEW seller \in User, NEW buyer \in User, NEW price \in Amounts,
             NEW bps \in RoyaltyBps, F!Settle(seller, buyer, price, bps)
      PROVE  FeeInv'
  <2> DEFINE royalty == F!CalculatePercentage(price, bps)
             quoted == F!Quote(seller, price)
             paid == F!Split(price, royalty, quoted).platform
  <2>1. price \in Nat /\ bps \in Nat
    BY Constants DEF F!FeeConstants, F!MaxRoyaltyBps
  <2>2. royalty \in Int /\ quoted \in Int
    BY <2>1, MoreBpsMore, QuoteIsInt
  <2>3. volume' = [volume EXCEPT ![buyer] = @ + paid] /\ fee_config' = fee_config
    BY <1>3 DEF F!Settle
  <2> HIDE DEF royalty, quoted
  <2>4. paid \in Int
    BY <2>1, <2>2 DEF F!Split, F!Clamp
  <2> HIDE DEF paid
  <2>5. volume' \in [User -> Int]
    BY <2>3, <2>4 DEF FeeInv
  <2> QED BY <2>3, <2>5 DEF FeeInv
<1>4. CASE F!Next
  BY <1>2, <1>3, <1>4 DEF F!Next
<1> QED BY <1>1, <1>4 DEF Next, vars

(* For any configuration the admin may put in force and any trades, of two *)
(* accounts without an exemption the one that traded more is quoted no     *)
(* more: calculate_volume_discount stops at the first tier reached, and    *)
(* validate_fee_config lets only rising tiers through.                     *)
THEOREM VolumeIsCheaper == Spec => []VolumeNeverCosts
<1> QED BY FeeInitial, FeeStep, VolumeCosts, PTL DEF Spec

(* What a trade at a price comes to: the royalty, the quoted fee cut down  *)
(* to what is left, and the rest.                                          *)
Cut(u, price, bps) ==
    F!Split(price, F!CalculatePercentage(price, bps), F!Quote(u, price))

(* The configuration in force is one the contract accepts, and every price *)
(* is divided without remainder, nobody's share being negative.            *)
FeesAddUp ==
    /\ F!ValidFeeConfig(fee_config)
    /\ \A u \in User, price \in Amounts, bps \in RoyaltyBps :
          /\ Cut(u, price, bps).creator \in Nat
          /\ Cut(u, price, bps).seller \in Nat
          /\ Cut(u, price, bps).platform \in Nat
          /\ Cut(u, price, bps).creator + Cut(u, price, bps).seller
                + Cut(u, price, bps).platform = price

LEMMA HalfAtMost ==
    ASSUME NEW amount \in Nat, NEW bps \in Nat, bps <= 5000
    PROVE  /\ F!CalculatePercentage(amount, bps) \in Nat
           /\ F!CalculatePercentage(amount, bps) <= amount
<1> DEFINE x == amount * bps
           q == (x + 5000) \div 10000
<1>1. x \in Nat /\ x <= amount * 5000
  <2>1. amount * (5000 - bps) \in Nat
    OBVIOUS
  <2>2. amount * (5000 - bps) = amount * 5000 - amount * bps
    OBVIOUS
  <2> QED BY <2>1, <2>2
<1>2. F!CalculatePercentage(amount, bps) = q
  <2>1. F!Basis \div 2 = 5000 /\ F!Basis = 10000
    BY DEF F!Basis
  <2> QED BY <2>1 DEF F!CalculatePercentage
<1> HIDE DEF x
<1>3. q \in Nat /\ 10000 * q <= x + 5000
  BY <1>1
<1> QED BY <1>1, <1>2, <1>3

LEMMA SharesAddUp ==
    ASSUME NEW price \in Nat, NEW royalty \in 0..price, NEW fee_ \in Int
    PROVE  /\ F!Split(price, royalty, fee_).creator \in Nat
           /\ F!Split(price, royalty, fee_).seller \in Nat
           /\ F!Split(price, royalty, fee_).platform \in Nat
           /\ F!Split(price, royalty, fee_).creator + F!Split(price, royalty, fee_).seller
                 + F!Split(price, royalty, fee_).platform = price
BY DEF F!Split, F!Clamp

LEMMA FeesMeaning == FeeInv => FeesAddUp
<1> SUFFICES ASSUME FeeInv, NEW u \in User, NEW price \in Amounts, NEW bps \in RoyaltyBps
             PROVE  /\ Cut(u, price, bps).creator \in Nat
                    /\ Cut(u, price, bps).seller \in Nat
                    /\ Cut(u, price, bps).platform \in Nat
                    /\ Cut(u, price, bps).creator + Cut(u, price, bps).seller
                          + Cut(u, price, bps).platform = price
  BY DEF FeesAddUp, FeeInv
<1> DEFINE royalty == F!CalculatePercentage(price, bps)
           quoted == F!Quote(u, price)
<1>1. price \in Nat /\ bps \in Nat /\ bps <= 5000
  BY Constants DEF F!FeeConstants, F!MaxRoyaltyBps
<1>2. royalty \in 0..price
  <2>1. royalty \in Nat /\ royalty <= price
    BY <1>1, HalfAtMost
  <2> QED BY <1>1, <2>1
<1>3. quoted \in Int
  BY <1>1, QuoteIsInt
<1>4. Cut(u, price, bps) = F!Split(price, royalty, quoted)
  BY DEF Cut
<1> HIDE DEF royalty, quoted
<1> QED BY <1>1, <1>2, <1>3, <1>4, SharesAddUp

(* CONTRACT_INVARIANTS.md M5, M6, M8: for any configurations the admin may *)
(* submit, whatever the floor, the cap, the discounts and the volume make  *)
(* of the quote (more than is left, less than nothing), the shares of a    *)
(* settlement (distribute_payment) are the price, and none is negative.    *)
THEOREM SharesArePrice == Spec => []FeesAddUp
<1> QED BY FeeInitial, FeeStep, FeesMeaning, PTL DEF Spec
-----------------------------------------------------------------------------
(* The order of the operations of a transaction is one of all of them:     *)
(* what is placed is new each time, and at the end the rest is placed too. *)
Orders(s, n) ==
    /\ s \in Seq(1..n)
    /\ \A a, b \in 1..Len(s) : s[a] = s[b] => a = b

LEMMA PlacedMore ==
    ASSUME NEW n \in Nat, NEW s, Orders(s, n), NEW i \in 1..n, i \notin T!ToSet(s)
    PROVE  Orders(Append(s, i), n)
<1>1. s \in Seq(1..n) /\ Len(s) \in Nat /\ \A a \in 1..Len(s) : s[a] # i
  BY DEF Orders, T!ToSet
<1> DEFINE z == Append(s, i)
<1>2. /\ z \in Seq(1..n) /\ Len(z) = Len(s) + 1 /\ z[Len(s) + 1] = i
      /\ \A a \in 1..Len(s) : z[a] = s[a]
  BY <1>1
<1> HIDE DEF z
<1>3. ASSUME NEW a \in 1..Len(z), NEW b \in 1..Len(z), z[a] = z[b] PROVE a = b
  <2>0. \A c \in 1..Len(z) : c = Len(s) + 1 \/ c \in 1..Len(s)
    BY <1>1, <1>2
  <2>1. CASE a = Len(s) + 1
    <3>1. b \notin 1..Len(s)
      BY <1>1, <1>2, <1>3, <2>1
    <3> QED BY <2>0, <2>1, <3>1
  <2>2. CASE b = Len(s) + 1
    <3>1. a \notin 1..Len(s)
      BY <1>1, <1>2, <1>3, <2>2
    <3> QED BY <2>0, <2>2, <3>1
  <2>3. CASE a \in 1..Len(s) /\ b \in 1..Len(s)
    BY <1>2, <1>3, <2>3 DEF Orders
  <2> QED BY <2>0, <2>1, <2>2, <2>3
<1> QED BY <1>2, <1>3 DEF Orders, z

LEMMA LeastIsReady ==
    ASSUME NEW ops, NEW n, DOMAIN ops = 1..n, \A i \in 1..n : ops[i].id \in Nat,
           NEW s, T!Ready(ops, s) # {}
    PROVE  (CHOOSE i \in T!Ready(ops, s) : \A j \in T!Ready(ops, s) : ops[i].id <= ops[j].id)
               \in T!Ready(ops, s)
<1> DEFINE ready == T!Ready(ops, s)
           D == {ops[i].id : i \in ready}
<1>1. D \in SUBSET Nat /\ D # {}
  BY DEF T!Ready
<1>2. F!Min(D) \in D /\ \A d \in D : F!Min(D) <= d
  BY <1>1, FirstOf
<1> HIDE DEF ready
<1>3. \E i \in ready : \A j \in ready : ops[i].id <= ops[j].id
  BY <1>2
<1> QED BY <1>3 DEF ready

LEMMA PlaceNextKeeps ==
    ASSUME NEW ops, NEW n \in Nat, DOMAIN ops = 1..n, NEW s, Orders(s, n),
           \A i \in 1..n : ops[i].id \in Nat
    PROVE  Orders(T!PlaceNext(ops, s), n)
<1> DEFINE ready == T!Ready(ops, s)
           least == CHOOSE i \in ready : \A j \in ready : ops[i].id <= ops[j].id
<1>1. CASE ready = {}
  BY <1>1 DEF T!PlaceNext
<1>2. CASE ready # {}
  <2>1. ready \subseteq (1..n) \ T!ToSet(s)
    BY DEF T!Ready
  <2>2. least \in ready
    BY <1>2, LeastIsReady
  <2>3. T!PlaceNext(ops, s) = Append(s, least)
    BY <1>2 DEF T!PlaceNext
  <2> HIDE DEF least, ready
  <2> QED BY <2>1, <2>2, <2>3, PlacedMore
<1> QED BY <1>1, <1>2

(* The two loops of resolve_execution_order.                               *)
PlacedBy(g, ops) ==
    g = [n \in 0..Len(ops) |-> IF n = 0 THEN <<>> ELSE T!PlaceNext(ops, g[n - 1])]
OrderedBy(g, ops, placed) ==
    g = [n \in 0..Len(ops) |-> IF n = 0 THEN placed ELSE T!PlaceLeft(g[n - 1], n)]
RowsBy(g, ids) ==
    g = [n \in 0..Len(ids) |-> IF n = 0 THEN txs ELSE T!ExecuteOne(g[n - 1], ids[n])]

(* One operator for all of them, and an unfolding of it for every bound.     *)
OneMore(loop, s, x, n) ==
    IF loop = "place" THEN T!PlaceNext(s, x)
    ELSE IF loop = "rest" THEN T!PlaceLeft(x, n)
    ELSE IF loop = "sum" THEN x + s[n]
    ELSE T!ExecuteOne(x, s[n])

Loop(g, loop, s, start, bound) ==
    g = [n \in 0..bound |-> IF n = 0 THEN start ELSE OneMore(loop, s, g[n - 1], n)]

LEMMA LoopsEnd ==
    ASSUME NEW loop, NEW s, NEW start, NEW bound \in Nat
    PROVE  \E g : Loop(g, loop, s, start, bound)
<1> DEFINE Upto(m) == \E g : Loop(g, loop, s, start, m)
           D == {m \in Nat : ~Upto(m)}
           k == F!Min(D)
<1> SUFFICES ASSUME D # {} PROVE FALSE
  OBVIOUS
<1>1. k \in D /\ \A m \in D : k <= m
  BY FirstOf
<1> HIDE DEF k, Upto
<1>2. k \in Nat /\ ~Upto(k) /\ \A m \in Nat : m < k => Upto(m)
  BY <1>1
<1> HIDE DEF D
<1>3. CASE k = 0
  <2> DEFINE g == [n \in 0..0 |-> start]
  <2>1. g = [n \in 0..0 |-> IF n = 0 THEN start ELSE OneMore(loop, s, g[n - 1], n)]
    OBVIOUS
  <2> HIDE DEF g
  <2> QED BY <1>2, <1>3, <2>1 DEF Upto, Loop
<1>4. CASE k # 0
  <2>1. k - 1 \in Nat /\ k - 1 < k
    BY <1>2, <1>4
  <2>2. PICK h : h = [n \in 0..(k - 1) |-> IF n = 0 THEN start
                                           ELSE OneMore(loop, s, h[n - 1], n)]
    BY <1>2, <2>1 DEF Upto, Loop
  <2> DEFINE g == [n \in 0..k |-> IF n = k THEN OneMore(loop, s, h[k - 1], k) ELSE h[n]]
  <2>3. \A n \in 0..k : g[n] = IF n = 0 THEN start ELSE OneMore(loop, s, g[n - 1], n)
    <3>1. SUFFICES ASSUME NEW n \in 0..k
                   PROVE g[n] = IF n = 0 THEN start ELSE OneMore(loop, s, g[n - 1], n)
      OBVIOUS
    <3>2. CASE n = k
      <4>1. k - 1 \in 0..k /\ k - 1 # k /\ k \in 0..k
        BY <1>2, <2>1
      <4>2. g[k - 1] = h[k - 1] /\ g[k] = OneMore(loop, s, h[k - 1], k)
        BY <4>1
      <4> HIDE DEF g
      <4> QED BY <1>4, <3>2, <4>2
    <3>3. CASE n # k
      <4>1. n \in 0..(k - 1)
        BY <1>2, <3>3
      <4>2. g[n] = h[n] /\ h[n] = IF n = 0 THEN start ELSE OneMore(loop, s, h[n - 1], n)
        BY <2>2, <3>3, <4>1
      <4>3. n # 0 => n - 1 \in 0..k /\ n - 1 # k
        BY <1>2, <4>1
      <4>4. n # 0 => g[n - 1] = h[n - 1]
        BY <4>3
      <4> HIDE DEF g
      <4> QED BY <4>2, <4>4
    <3> QED BY <3>2, <3>3
  <2>4. g = [n \in 0..k |-> g[n]]
    OBVIOUS
  <2> HIDE DEF g
  <2>5. g = [n \in 0..k |-> IF n = 0 THEN start ELSE OneMore(loop, s, g[n - 1], n)]
    BY <2>3, <2>4
  <2> QED BY <1>2, <2>5 DEF Upto, Loop
<1> QED BY <1>3, <1>4
LEMMA PlacedExists == \A ops : Len(ops) \in Nat => \E g : PlacedBy(g, ops)
<1> SUFFICES ASSUME NEW ops, Len(ops) \in Nat PROVE \E g : PlacedBy(g, ops)
  OBVIOUS
<1>1. PICK g : Loop(g, "place", ops, <<>>, Len(ops))
  BY LoopsEnd
<1>2. \A n \in 0..Len(ops) :
         g[n] = IF n = 0 THEN <<>> ELSE T!PlaceNext(ops, g[n - 1])
  BY <1>1 DEF OneMore, Loop
<1>3. g = [n \in 0..Len(ops) |-> g[n]]
  BY <1>1 DEF Loop
<1> QED BY <1>2, <1>3 DEF PlacedBy

LEMMA OrderedExists == \A ops, placed : Len(ops) \in Nat => \E g : OrderedBy(g, ops, placed)
<1> SUFFICES ASSUME NEW ops, NEW placed, Len(ops) \in Nat
             PROVE \E g : OrderedBy(g, ops, placed)
  OBVIOUS
<1>1. PICK g : Loop(g, "rest", ops, placed, Len(ops))
  BY LoopsEnd
<1>2. \A n \in 0..Len(ops) :
         g[n] = IF n = 0 THEN placed ELSE T!PlaceLeft(g[n - 1], n)
  BY <1>1 DEF OneMore, Loop
<1>3. g = [n \in 0..Len(ops) |-> g[n]]
  BY <1>1 DEF Loop
<1> QED BY <1>2, <1>3 DEF OrderedBy

LEMMA RowsExist == \A ids : Len(ids) \in Nat => \E g : RowsBy(g, ids)
<1> SUFFICES ASSUME NEW ids, Len(ids) \in Nat PROVE \E g : RowsBy(g, ids)
  OBVIOUS
<1>1. PICK g : Loop(g, "rows", ids, txs, Len(ids))
  BY LoopsEnd
<1>2. \A n \in 0..Len(ids) :
         g[n] = IF n = 0 THEN txs ELSE T!ExecuteOne(g[n - 1], ids[n])
  BY <1>1 DEF OneMore, Loop
<1>3. g = [n \in 0..Len(ids) |-> g[n]]
  BY <1>1 DEF Loop
<1> QED BY <1>2, <1>3 DEF RowsBy

(* What a step of a loop keeps its last value has.                         *)
LEMMA LoopKeeps ==
    ASSUME NEW bound \in Nat, NEW Good, 0 \in Good,
           \A n \in 1..bound : n - 1 \in Good => n \in Good
    PROVE  bound \in Good
<1> DEFINE D == {n \in 0..bound : n \notin Good}
           k == F!Min(D)
<1> SUFFICES ASSUME D # {} PROVE FALSE
  OBVIOUS
<1>1. D \in SUBSET Nat
  OBVIOUS
<1> HIDE DEF D
<1>2. k \in D /\ \A m \in D : k <= m
  BY <1>1, FirstOf
<1> HIDE DEF k
<1>3. k \in 0..bound /\ k \notin Good /\ k # 0
  BY <1>2 DEF D
<1>4. k - 1 \in 0..bound /\ k - 1 < k /\ k \in 1..bound
  BY <1>3
<1>5. k - 1 \in Good
  BY <1>2, <1>4 DEF D
<1> QED BY <1>3, <1>4, <1>5

LEMMA OrderIsWhole ==
    ASSUME NEW ops, NEW n \in Nat, DOMAIN ops = 1..n, Len(ops) = n,
           \A i \in 1..n : ops[i].id \in Nat
    PROVE  /\ Orders(T!ResolveExecutionOrder(ops), n)
           /\ T!ToSet(T!ResolveExecutionOrder(ops)) = 1..n
<1> DEFINE g == CHOOSE x : PlacedBy(x, ops)
           placed == g[n]
           h == CHOOSE x : OrderedBy(x, ops, placed)
<1>1. T!ResolveExecutionOrder(ops) = h[n]
  BY DEF T!ResolveExecutionOrder, PlacedBy, OrderedBy
<1>2. PlacedBy(g, ops)
  BY PlacedExists
<1>3. OrderedBy(h, ops, placed)
  BY OrderedExists
<1> HIDE DEF g, h
<1>4. g[0] = <<>> /\ \A m \in 1..n : g[m] = T!PlaceNext(ops, g[m - 1])
  BY <1>2 DEF PlacedBy
<1>5. h[0] = placed /\ \A m \in 1..n : h[m] = T!PlaceLeft(h[m - 1], m)
  BY <1>3 DEF OrderedBy
<1>6. Orders(placed, n)
  <2> DEFINE Good == {m \in 0..n : Orders(g[m], n)}
  <2>1. 0 \in Good
    <3>1. Orders(<<>>, n)
      BY DEF Orders
    <3> QED BY <1>4, <3>1
  <2>2. \A m \in 1..n : m - 1 \in Good => m \in Good
    BY <1>4, PlaceNextKeeps
  <2>3. n \in Good
    <3> HIDE DEF Good
    <3> QED BY <2>1, <2>2, LoopKeeps
  <2> QED BY <2>3
<1>7. Orders(h[n], n) /\ 1..n \subseteq T!ToSet(h[n])
  <2> DEFINE Good == {m \in 0..n : Orders(h[m], n) /\ 1..m \subseteq T!ToSet(h[m])}
  <2>1. 0 \in Good
    BY <1>5, <1>6
  <2>2. ASSUME NEW m \in 1..n, m - 1 \in Good PROVE m \in Good
    <3> DEFINE before == h[m - 1]
    <3>1. Orders(before, n) /\ 1..(m - 1) \subseteq T!ToSet(before)
      BY <2>2
    <3>2. h[m] = T!PlaceLeft(before, m)
      BY <1>5
    <3> HIDE DEF before
    <3>3. CASE m \in T!ToSet(before)
      BY <3>1, <3>2, <3>3 DEF T!PlaceLeft
    <3>4. CASE m \notin T!ToSet(before)
      <4>1. h[m] = Append(before, m)
        BY <3>2, <3>4 DEF T!PlaceLeft
      <4>2. Orders(h[m], n)
        BY <3>1, <3>4, <4>1, PlacedMore
      <4>3. T!ToSet(h[m]) = T!ToSet(before) \cup {m}
        <5> DEFINE z == Append(before, m)
        <5>1. before \in Seq(1..n) /\ Len(before) \in Nat
          BY <3>1 DEF Orders
        <5>2. /\ DOMAIN z = 1..(Len(before) + 1) /\ z[Len(before) + 1] = m
              /\ \A a \in 1..Len(before) : z[a] = before[a]
          BY <5>1
        <5>3. 1..(Len(before) + 1) = (1..Len(before)) \cup {Len(before) + 1}
          BY <5>1
        <5>4. DOMAIN before = 1..Len(before)
          BY <5>1
        <5> HIDE DEF z
        <5>5. T!ToSet(z) = T!ToSet(before) \cup {m}
          BY <5>2, <5>3, <5>4 DEF T!ToSet
        <5> QED BY <4>1, <5>5 DEF z
      <4> QED BY <3>1, <4>2, <4>3
    <3> QED BY <3>3, <3>4
  <2>3. n \in Good
    <3> HIDE DEF Good
    <3> QED BY <2>1, <2>2, LoopKeeps
  <2> QED BY <2>3
<1>8. T!ToSet(h[n]) \subseteq 1..n
  BY <1>7 DEF Orders, T!ToSet
<1> QED BY <1>1, <1>7, <1>8

LEMMA UptoN == \A k \in Nat : IsFiniteSet(1..k) /\ Cardinality(1..k) = k
<1>1. \A k \in Nat : /\ IsFiniteSet(1..k)
                     /\ Cardinality(1..k) = IF 1 > k THEN 0 ELSE k - 1 + 1
  BY FS_Interval
<1>2. \A k \in Nat : (IF 1 > k THEN 0 ELSE k - 1 + 1) = k
  OBVIOUS
<1> QED BY <1>1, <1>2

(* So it has as many entries as there are operations, each once.           *)
LEMMA OrderIsAsLong ==
    ASSUME NEW n \in Nat, NEW s, Orders(s, n), T!ToSet(s) = 1..n
    PROVE  Len(s) = n
<1>1. s \in Surjection(1..Len(s), 1..n) /\ s \in Injection(1..Len(s), 1..n)
      /\ Len(s) \in Nat
  <2>1. s \in Seq(1..n) /\ Len(s) \in Nat /\ DOMAIN s = 1..Len(s)
        /\ \A a, b \in 1..Len(s) : s[a] = s[b] => a = b
    BY DEF Orders
  <2>2. s \in [1..Len(s) -> 1..n]
    BY <2>1
  <2>3. \A i \in 1..n : \E a \in 1..Len(s) : s[a] = i
    BY <2>1 DEF T!ToSet
  <2> QED BY <2>1, <2>2, <2>3 DEF Surjection, Injection, IsInjective
<1>2. IsFiniteSet(1..Len(s)) /\ Cardinality(1..Len(s)) = Len(s)
      /\ Cardinality(1..n) = n
  BY <1>1, UptoN
<1> QED BY <1>1, <1>2, FS_Surjection

LEMMA LongIsWhole ==
    ASSUME NEW n \in Nat, NEW s, Orders(s, n), Len(s) = n
    PROVE  T!ToSet(s) = 1..n
<1>1. s \in Seq(1..n) /\ DOMAIN s = 1..n /\ \A a, b \in 1..n : s[a] = s[b] => a = b
  BY DEF Orders
<1>2. s \in Injection(1..n, 1..n)
  <2>1. s \in [1..n -> 1..n]
    BY <1>1
  <2> QED BY <1>1, <2>1 DEF Injection, IsInjective
<1>3. s \in Surjection(1..n, 1..n)
  BY <1>2, UptoN, FS_Injection
<1>4. \A i \in 1..n : \E a \in 1..n : s[a] = i
  BY <1>3 DEF Surjection
<1>5. \A a \in 1..n : s[a] \in 1..n
  BY <1>2 DEF Injection
<1> QED BY <1>1, <1>4, <1>5 DEF T!ToSet
-----------------------------------------------------------------------------
(* A transaction that ran is final for good: only a failed one could be    *)
(* retried, and none fails.                                                *)
Reached == {"Draft", "Completed", "Cancelled", "RolledBack"}
TxOf == [operations : Seq(Operations), state : Reached, recorded : T!States,
          runs : Seq(Seq(Nat))]

(* One run, of all the operations, each after those it depends on.         *)
RunIs(s, ops) ==
    /\ T!ToSet(s) = T!Ids(ops) /\ Len(s) = Len(ops)
    /\ \A i \in DOMAIN ops, n \in DOMAIN s :
          s[n] = ops[i].id => ops[i].deps \subseteq {s[m] : m \in 1..(n - 1)}

RanOnce(row) ==
    \/ row.runs = <<>>
    \/ row.state # "Draft" /\ \E s : row.runs = <<s>> /\ RunIs(s, row.operations)

TxInv == txs \in Seq(TxOf) /\ \A t \in DOMAIN txs : RanOnce(txs[t])

LEMMA TxFacts ==
    /\ \A op \in Operations : op.id \in Nat /\ op.deps \subseteq Nat
    /\ Initial \subseteq Seq(Operations)
BY Constants DEF T!TransactionConstants

LEMMA OpsAre ==
    ASSUME NEW ops \in Seq(Operations)
    PROVE  /\ Len(ops) \in Nat /\ DOMAIN ops = 1..Len(ops)
           /\ \A i \in DOMAIN ops : ops[i].id \in Nat
<1>1. \A i \in DOMAIN ops : ops[i] \in Operations
  OBVIOUS
<1> QED BY <1>1, TxFacts

(* Different operations have different ids once a transaction is checked.  *)
LEMMA IdsDiffer ==
    ASSUME NEW ops \in Seq(Operations), T!Cardinality(T!Ids(ops)) = Len(ops),
           NEW i \in DOMAIN ops, NEW j \in DOMAIN ops, ops[i].id = ops[j].id
    PROVE  i = j
<1> DEFINE f == [k \in 1..Len(ops) |-> ops[k].id]
           V == T!Ids(ops)
<1>1. T!Cardinality(V) = Cardinality(V)
  BY Zenon DEF T!Cardinality, Cardinality, T!IsFiniteSet, IsFiniteSet
<1>2. Len(ops) \in Nat /\ DOMAIN ops = 1..Len(ops)
  OBVIOUS
<1>3. f \in Surjection(1..Len(ops), V)
  BY <1>2 DEF Surjection, T!Ids
<1>4. IsFiniteSet(1..Len(ops)) /\ Cardinality(1..Len(ops)) = Len(ops)
  BY <1>2, UptoN
<1>5. f[i] = f[j] /\ i \in 1..Len(ops) /\ j \in 1..Len(ops)
  BY <1>2
<1> HIDE DEF f, V
<1>6. Cardinality(V) = Cardinality(1..Len(ops))
  BY <1>1, <1>4 DEF V
<1>7. f \in Injection(1..Len(ops), V)
  BY <1>3, <1>4, <1>6, FS_Surjection
<1> QED BY <1>5, <1>7 DEF Injection, IsInjective

LEMMA RunsInOrder ==
    ASSUME NEW ops \in Seq(Operations), T!Cardinality(T!Ids(ops)) = Len(ops),
           NEW ceiling, T!Stops(ops, T!ResolveExecutionOrder(ops), ceiling) = {}
    PROVE  LET order == T!ResolveExecutionOrder(ops)
               s == [k \in DOMAIN order |-> ops[order[k]].id]
           IN  s \in Seq(Nat) /\ RunIs(s, ops)
<1> DEFINE order == T!ResolveExecutionOrder(ops)
           s == [k \in DOMAIN order |-> ops[order[k]].id]
           n == Len(ops)
<1>1. n \in Nat /\ DOMAIN ops = 1..n /\ \A i \in 1..n : ops[i].id \in Nat
  BY OpsAre
<1>2. Orders(order, n) /\ T!ToSet(order) = 1..n
  BY <1>1, OrderIsWhole
<1>3. \A k \in DOMAIN order : ~T!Unmet(ops, order, k)
  BY DEF T!Stops
<1> HIDE DEF order, n
<1>4. Len(order) = n
  BY <1>1, <1>2, OrderIsAsLong
<1>5. DOMAIN order = 1..n /\ \A k \in 1..n : order[k] \in 1..n
  BY <1>2, <1>4 DEF Orders
<1>6. s \in [1..n -> Nat] /\ \A k \in 1..n : s[k] = ops[order[k]].id
  BY <1>1, <1>5
<1> HIDE DEF s
<1>7. s \in Seq(Nat) /\ Len(s) = n /\ DOMAIN s = 1..n
  BY <1>1, <1>6
<1>8. T!ToSet(s) = T!Ids(ops)
  <2>1. \A i \in 1..n : \E k \in 1..n : order[k] = i
    BY <1>2, <1>5 DEF T!ToSet
  <2>2. T!ToSet(s) = {ops[order[k]].id : k \in 1..n}
    BY <1>6, <1>7 DEF T!ToSet
  <2>3. T!Ids(ops) = {ops[i].id : i \in 1..n}
    BY <1>1 DEF T!Ids
  <2>4. ASSUME NEW x \in T!Ids(ops) PROVE x \in T!ToSet(s)
    BY <2>1, <2>2, <2>3
  <2>5. T!ToSet(s) \subseteq T!Ids(ops)
    BY <1>5, <2>2, <2>3
  <2> QED BY <2>4, <2>5
<1>9. ASSUME NEW i \in DOMAIN ops, NEW k \in DOMAIN s, s[k] = ops[i].id
      PROVE  ops[i].deps \subseteq {s[m] : m \in 1..(k - 1)}
  <2>1. k \in 1..n /\ order[k] \in DOMAIN ops
    BY <1>1, <1>5, <1>7
  <2>2. order[k] = i
    BY <1>6, <1>9, <2>1, IdsDiffer
  <2>3. ops[i].deps \subseteq {ops[order[m]].id : m \in 1..(k - 1)}
    BY <1>3, <1>5, <2>1, <2>2 DEF T!Unmet
  <2>4. \A m \in 1..(k - 1) : m \in 1..n
    BY <1>1, <2>1
  <2> QED BY <1>6, <2>3, <2>4
<1> QED BY <1>7, <1>8, <1>9 DEF RunIs, s, order, n

LEMMA ExecutedKeeps ==
    ASSUME NEW row \in TxOf, RanOnce(row), NEW ceiling
    PROVE  T!Executed(row, ceiling) \in TxOf /\ RanOnce(T!Executed(row, ceiling))
<1> DEFINE ops == row.operations
           order == T!ResolveExecutionOrder(ops)
           s == [k \in DOMAIN order |-> ops[order[k]].id]
           after == T!Executed(row, ceiling)
<1>1. /\ ops \in Seq(Operations) /\ row.state \in Reached /\ row.runs \in Seq(Seq(Nat))
      /\ row.recorded \in T!States
  BY DEF TxOf
<1>2. CASE ~T!Preflight(row)
  BY <1>2 DEF T!Executed
<1>3. ASSUME T!Preflight(row) PROVE row.runs = <<>>
  BY <1>1, <1>3 DEF T!Preflight, RanOnce, Reached
<1>4. CASE T!Preflight(row) /\ T!Stops(ops, order, ceiling) = {}
  <2>1. T!Cardinality(T!Ids(ops)) = Len(ops)
    BY <1>4 DEF T!Preflight
  <2>2. s \in Seq(Nat) /\ RunIs(s, ops)
    BY <1>1, <1>4, <2>1, RunsInOrder
  <2>3. after = [T!Enter(row, "Completed") EXCEPT !.runs = Append(@, s)]
    BY <1>4 DEF T!Executed
  <2> HIDE DEF s, after, ops
  <2>4. T!Enter(row, "Completed").runs = <<>>
    BY <1>3, <1>4 DEF T!Enter
  <2>5. /\ after.runs = Append(<<>>, s) /\ after.operations = ops
        /\ after.state = "Completed" /\ after \in TxOf
    <3>1. Append(<<>>, s) \in Seq(Seq(Nat))
      BY <2>2
    <3> HIDE DEF order
    <3> QED BY <1>3, <1>4, <2>3, <2>4, <3>1 DEF T!Enter, TxOf, Reached, T!States, ops
  <2>6. after.runs = <<s>>
    BY <2>5
  <2> QED BY <2>2, <2>5, <2>6 DEF RanOnce, after
<1>5. CASE T!Preflight(row) /\ T!Stops(ops, order, ceiling) # {}
  <2>1. \/ after = [row EXCEPT !.state = "RolledBack", !.recorded = "Executing"]
        \/ after = T!Enter(row, "RolledBack")
    BY <1>5 DEF T!Executed
  <2> HIDE DEF after
  <2>2. after \in TxOf /\ after.runs = row.runs
    BY <2>1 DEF TxOf, T!Enter, Reached, T!States
  <2> QED BY <1>3, <1>5, <2>2 DEF RanOnce, after
<1> QED BY <1>2, <1>4, <1>5
LEMMA TxInit == Init => TxInv
<1>1. txs = <<>> => txs \in Seq(TxOf) /\ DOMAIN txs = {}
  OBVIOUS
<1> QED BY <1>1 DEF Init, T!Init, TxInv

LEMMA TxSaves ==
    ASSUME NEW rows \in Seq(TxOf), \A t \in DOMAIN rows : RanOnce(rows[t]),
           NEW t, NEW row, t \in DOMAIN rows => row \in TxOf /\ RanOnce(row),
           NEW after, after = [rows EXCEPT ![t] = row]
    PROVE  /\ after \in Seq(TxOf) /\ DOMAIN after = DOMAIN rows
           /\ \A u \in DOMAIN after : RanOnce(after[u])
<1>1. after \in Seq(TxOf) /\ DOMAIN after = DOMAIN rows
  <2> DEFINE n == Len(rows)
  <2>1. rows \in [1..n -> TxOf] /\ n \in Nat /\ DOMAIN rows = 1..n
    OBVIOUS
  <2> HIDE DEF n
  <2>2. after \in [1..n -> TxOf]
    BY <2>1
  <2>3. after \in Seq(TxOf) /\ DOMAIN after = 1..n
    BY <2>1, <2>2
  <2> QED BY <2>1, <2>3
<1>2. \A u \in DOMAIN rows : after[u] = rows[u] \/ (u = t /\ after[u] = row)
  OBVIOUS
<1> QED BY <1>1, <1>2

LEMMA TxNew ==
    ASSUME TxInv, NEW more \in Seq(Initial), txs' = txs \o [i \in DOMAIN more |-> T!New(more[i])]
    PROVE  TxInv'
<1> DEFINE added == [i \in DOMAIN more |-> T!New(more[i])]
<1>1. \A ops \in Initial : T!New(ops) \in TxOf /\ T!New(ops).runs = <<>>
  BY TxFacts DEF T!New, TxOf, Reached, T!States
<1>2. Len(more) \in Nat /\ DOMAIN more = 1..Len(more) /\ \A i \in DOMAIN more : more[i] \in Initial
  OBVIOUS
<1>3. /\ added \in Seq(TxOf) /\ DOMAIN added = 1..Len(more)
      /\ \A i \in DOMAIN added : RanOnce(added[i])
  BY <1>1, <1>2 DEF RanOnce
<1> HIDE DEF added
<1>4. txs \in Seq(TxOf) /\ \A t \in DOMAIN txs : RanOnce(txs[t])
  BY DEF TxInv
<1>5. txs' = txs \o added
  BY DEF added
<1>6. added \in Seq(TxOf) /\ Len(added) \in Nat /\ DOMAIN added = 1..Len(added)
  BY <1>3
<1>7. /\ txs' \in Seq(TxOf) /\ DOMAIN txs' = 1..(Len(txs) + Len(added))
      /\ \A t \in 1..(Len(txs) + Len(added)) :
            txs'[t] = IF t <= Len(txs) THEN txs[t] ELSE added[t - Len(txs)]
  BY ONLY <1>4, <1>5, <1>6
<1>8. ASSUME NEW t \in DOMAIN txs' PROVE RanOnce(txs'[t])
  <2>1. Len(txs) \in Nat /\ DOMAIN txs = 1..Len(txs)
    BY <1>4
  <2>2. CASE t <= Len(txs)
    BY <1>4, <1>7, <2>1, <2>2
  <2>3. CASE ~(t <= Len(txs))
    <3>1. t - Len(txs) \in DOMAIN added
      BY <1>6, <1>7, <2>1, <2>3
    <3> QED BY <1>3, <1>7, <2>3, <3>1
  <2> QED BY <2>2, <2>3
<1> QED BY <1>7, <1>8 DEF TxInv

LEMMA TxStep == TxInv /\ [Next]_vars => TxInv'
<1> SUFFICES ASSUME TxInv, [Next]_vars PROVE TxInv'
  OBVIOUS
<1>1. txs \in Seq(TxOf) /\ \A t \in DOMAIN txs : txs[t] \in TxOf /\ RanOnce(txs[t])
  BY DEF TxInv
<1>2. CASE UNCHANGED txs
  BY <1>2 DEF TxInv
<1>3. ASSUME NEW t \in DOMAIN txs, NEW row \in TxOf, RanOnce(row), T!Save(t, row)
      PROVE  TxInv'
  BY <1>1, <1>3, TxSaves DEF TxInv, T!Save
<1>4. ASSUME NEW ops \in Initial, T!CreateTransaction(ops) PROVE TxInv'
  <2>1. T!New(ops) \in TxOf /\ RanOnce(T!New(ops))
    BY TxFacts DEF T!New, TxOf, Reached, T!States, RanOnce
  <2>2. txs' = Append(txs, T!New(ops))
    BY <1>4 DEF T!CreateTransaction
  <2>3. /\ txs' \in Seq(TxOf)
        /\ \A t \in DOMAIN txs' : \/ t \in DOMAIN txs /\ txs'[t] = txs[t]
                                  \/ txs'[t] = T!New(ops)
    BY <1>1, <2>1, <2>2
  <2> QED BY <1>1, <2>1, <2>3 DEF TxInv
<1>5. ASSUME NEW a \in Initial, NEW b \in Initial, T!BatchCreateTransactions(<<a, b>>)
      PROVE  TxInv'
  <2>1. <<a, b>> \in Seq(Initial)
    OBVIOUS
  <2> QED BY <1>5, <2>1, TxNew DEF T!BatchCreateTransactions
<1>6. ASSUME NEW t \in DOMAIN txs, NEW op \in Operations, T!AddOperation(t, op)
      PROVE  TxInv'
  <2> DEFINE row == [txs[t] EXCEPT !.operations = Append(@, op)]
  <2>1. txs[t].operations \in Seq(Operations) /\ txs[t].state = "Draft"
    BY <1>1, <1>6 DEF TxOf, Reached, T!AddOperation
  <2>2. Append(txs[t].operations, op) \in Seq(Operations)
    BY <2>1
  <2>3. row \in TxOf /\ row.runs = txs[t].runs
    BY <1>1, <2>2 DEF TxOf
  <2>4. RanOnce(row)
    BY <1>1, <2>1, <2>3 DEF RanOnce
  <2>5. T!Save(t, row)
    BY <1>6 DEF T!AddOperation
  <2> HIDE DEF row
  <2> QED BY <1>3, <2>3, <2>4, <2>5
<1>7. ASSUME NEW t \in DOMAIN txs, NEW ceiling, T!ExecuteTransaction(t, ceiling)
      PROVE  TxInv'
  BY <1>1, <1>3, <1>7, ExecutedKeeps DEF T!ExecuteTransaction
<1>8. ASSUME NEW t \in DOMAIN txs, NEW s \in {"Cancelled", "RolledBack"},
             T!Save(t, T!Enter(txs[t], s))
      PROVE  TxInv'
  <2>1. T!Enter(txs[t], s) \in TxOf
    BY <1>1 DEF T!Enter, TxOf, Reached, T!States
  <2>2. RanOnce(T!Enter(txs[t], s))
    <3>1. /\ T!Enter(txs[t], s).state = s /\ T!Enter(txs[t], s).runs = txs[t].runs
          /\ T!Enter(txs[t], s).operations = txs[t].operations
      BY <1>1 DEF T!Enter, TxOf
    <3> QED BY <1>1, <3>1 DEF RanOnce
  <2> QED BY <1>3, <1>8, <2>1, <2>2
<1>9. ASSUME NEW t \in DOMAIN txs, T!CancelTransaction(t) PROVE TxInv'
  BY <1>8, <1>9 DEF T!CancelTransaction
<1>10. ASSUME NEW t \in DOMAIN txs, NEW s \in T!Strategies, T!RecoverTransaction(t, s)
       PROVE  TxInv'
  <2>1. s # "Retry"
    BY <1>1, <1>10 DEF T!RecoverTransaction, TxOf, Reached
  <2>2. CASE s = "Rollback"
    BY <1>8, <1>10, <2>2 DEF T!RecoverTransaction
  <2>3. CASE s = "Cancel"
    BY <1>8, <1>10, <2>3 DEF T!RecoverTransaction
  <2> QED BY <2>1, <2>2, <2>3 DEF T!Strategies
<1>11. ASSUME NEW ids \in T!Batches, T!BatchExecuteTransactions(ids) PROVE TxInv'
  <2> DEFINE g == CHOOSE x : RowsBy(x, ids)
             n == Len(ids)
             RowsOf(rows) == rows \in Seq(TxOf) /\ \A t \in DOMAIN rows : RanOnce(rows[t])
  <2>1. n \in Nat
    BY DEF T!Batches
  <2>2. RowsBy(g, ids)
    BY <2>1, RowsExist
  <2>3. txs' = g[n]
    BY <1>11 DEF T!BatchExecuteTransactions, RowsBy
  <2> HIDE DEF g, n
  <2>4. g[0] = txs /\ \A m \in 1..n : g[m] = T!ExecuteOne(g[m - 1], ids[m])
    BY <2>1, <2>2 DEF RowsBy, n
  <2> DEFINE Good == {m \in 0..n : RowsOf(g[m])}
  <2>5. 0 \in Good
    BY <1>1, <2>1, <2>4
  <2>6. ASSUME NEW m \in 1..n, m - 1 \in Good PROVE m \in Good
    <3> DEFINE before == g[m - 1]
               t == ids[m]
               row == T!Executed(before[t], DefaultGasCeiling)
    <3>1. RowsOf(before)
      BY <2>6
    <3>2. g[m] = [before EXCEPT ![t] = row]
      BY <2>4 DEF T!ExecuteOne
    <3> HIDE DEF before, t
    <3>3. t \in DOMAIN before => row \in TxOf /\ RanOnce(row)
      BY <3>1, ExecutedKeeps
    <3> HIDE DEF row
    <3>4. RowsOf(g[m])
      BY <3>1, <3>2, <3>3, TxSaves
    <3> QED BY <3>4
  <2>7. n \in Good
    <3> HIDE DEF Good
    <3> QED BY <2>1, <2>5, <2>6, LoopKeeps
  <2> QED BY <2>3, <2>7 DEF TxInv
<1>12. CASE T!Next
  BY <1>4, <1>5, <1>6, <1>7, <1>9, <1>10, <1>11, <1>12 DEF T!Next
<1> QED BY <1>2, <1>12 DEF Next, vars

LEMMA TxRuns == TxInv => RunsOnceInOrder
<1> SUFFICES ASSUME TxInv, NEW t \in DOMAIN txs
             PROVE  LET ops == txs[t].operations  runs == txs[t].runs IN
                    /\ Len(runs) <= 1
                    /\ \A k \in DOMAIN runs :
                          /\ T!ToSet(runs[k]) = T!Ids(ops) /\ Len(runs[k]) = Len(ops)
                          /\ \A i \in DOMAIN ops, n \in DOMAIN runs[k] :
                                runs[k][n] = ops[i].id =>
                                    ops[i].deps \subseteq {runs[k][m] : m \in 1..(n - 1)}
  BY DEF RunsOnceInOrder, T!RunsOnceInOrder
<1>1. RanOnce(txs[t])
  BY DEF TxInv
<1>2. CASE txs[t].runs = <<>>
  BY <1>2
<1>3. ASSUME NEW s, txs[t].runs = <<s>>, RunIs(s, txs[t].operations)
      PROVE  /\ Len(txs[t].runs) <= 1
             /\ \A k \in DOMAIN txs[t].runs :
                   txs[t].runs[k] = s /\ RunIs(txs[t].runs[k], txs[t].operations)
  BY <1>3
<1> QED BY <1>1, <1>2, <1>3 DEF RanOnce, RunIs

(* A transaction of the transaction contract runs at most once, whatever   *)
(* it is executed, batched, cancelled and recovered with, and then runs    *)
(* all of its operations, each after those it depends on, for any          *)
(* operations, dependencies and gas limits: resolve_execution_order lists  *)
(* every operation exactly once, and a run that is completed met every     *)
(* dependency.                                                             *)
THEOREM TransactionsRunOnce == Spec => []RunsOnceInOrder
<1> QED BY TxInit, TxStep, TxRuns, PTL DEF Spec
-----------------------------------------------------------------------------
(* Whatever order a set of operations is in, its gas adds up to the same:  *)
(* g[k] is the gas of those among the first k, by declaration, that are in *)
(* the set.                                                                *)
GasOf(g, w, n, A) ==
    g = [k \in 0..n |-> IF k = 0 THEN 0 ELSE g[k - 1] + (IF k \in A THEN w[k] ELSE 0)]

LEMMA GasExists ==
    ASSUME NEW n \in Nat, NEW w, NEW A
    PROVE  \E g : GasOf(g, w, n, A)
<1> DEFINE s == [k \in 0..n |-> IF k \in A THEN w[k] ELSE 0]
<1>1. PICK g : Loop(g, "sum", s, 0, n)
  BY LoopsEnd
<1>2. \A k \in 0..n : g[k] = IF k = 0 THEN 0 ELSE g[k - 1] + (IF k \in A THEN w[k] ELSE 0)
  BY <1>1 DEF OneMore, Loop
<1>3. g = [k \in 0..n |-> g[k]]
  BY <1>1 DEF Loop
<1> QED BY <1>2, <1>3 DEF GasOf

LEMMA GasIsNat ==
    ASSUME NEW n \in Nat, NEW w \in [1..n -> Nat], NEW A, NEW g, GasOf(g, w, n, A)
    PROVE  g[n] \in Nat
<1> DEFINE Good == {k \in 0..n : g[k] \in Nat}
<1>1. 0 \in Good
  BY DEF GasOf
<1>2. ASSUME NEW k \in 1..n, k - 1 \in Good PROVE k \in Good
  <2>1. g[k] = g[k - 1] + (IF k \in A THEN w[k] ELSE 0)
    BY DEF GasOf
  <2>2. w[k] \in Nat /\ g[k - 1] \in Nat
    BY <1>2
  <2> QED BY <2>1, <2>2
<1>3. n \in Good
  <2> HIDE DEF Good
  <2> QED BY <1>1, <1>2, LoopKeeps
<1> QED BY <1>3

LEMMA GasOfMore ==
    ASSUME NEW n \in Nat, NEW w \in [1..n -> Nat], NEW A, NEW i \in 1..n, i \notin A,
           NEW g, GasOf(g, w, n, A), NEW h, GasOf(h, w, n, A \cup {i})
    PROVE  g[n] \in Nat /\ h[n] = g[n] + w[i]
<1> DEFINE Good == {k \in 0..n : g[k] \in Nat /\ h[k] = g[k] + (IF i <= k THEN w[i] ELSE 0)}
<1>1. g[0] = 0 /\ h[0] = 0
  BY DEF GasOf
<1>2. \A k \in 1..n : /\ g[k] = g[k - 1] + (IF k \in A THEN w[k] ELSE 0)
                      /\ h[k] = h[k - 1] + (IF k \in A \cup {i} THEN w[k] ELSE 0)
  BY DEF GasOf
<1>3. 0 \in Good
  BY <1>1
<1>4. ASSUME NEW k \in 1..n, k - 1 \in Good PROVE k \in Good
  <2>1. w[k] \in Nat /\ w[i] \in Nat
    OBVIOUS
  <2>2. g[k - 1] \in Nat /\ h[k - 1] = g[k - 1] + (IF i <= k - 1 THEN w[i] ELSE 0)
    BY <1>4
  <2>3. k = i => k \notin A
    OBVIOUS
  <2> DEFINE x == IF k \in A THEN w[k] ELSE 0
             y == IF k \in A \cup {i} THEN w[k] ELSE 0
  <2>4. x \in Nat /\ g[k] = g[k - 1] + x /\ h[k] = h[k - 1] + y
    BY <1>2, <2>1
  <2>5. y = IF k = i THEN x + w[i] ELSE x
    BY <2>1, <2>3
  <2> HIDE DEF x, y
  <2>6. g[k] \in Nat /\ h[k] = g[k] + (IF i <= k THEN w[i] ELSE 0)
    BY <2>1, <2>2, <2>4, <2>5
  <2> QED BY <2>6
<1>5. n \in Good
  <2> HIDE DEF Good
  <2> QED BY <1>3, <1>4, LoopKeeps
<1> QED BY <1>5

(* So what has run of an order never takes more than all of it.            *)
LEMMA UsedWithin ==
    ASSUME NEW ops, NEW n \in Nat, Len(ops) = n, DOMAIN ops = 1..n,
           \A i \in 1..n : ops[i].gas \in Nat,
           NEW order, Orders(order, n), Len(order) = n, NEW k \in 1..n
    PROVE  ~(T!Used(ops, order)[k] > T!Used(ops, T!InsertionOrder(ops))[n])
<1> DEFINE w == [i \in 1..n |-> ops[i].gas]
           same == T!InsertionOrder(ops)
           SumBy(g, s) ==
               g = [m \in 0..n |-> IF m = 0 THEN 0 ELSE g[m - 1] + ops[s[m]].gas]
           left(m) == {i \in 1..n : \A a \in 1..m : order[a] # i}
<1>1. w \in [1..n -> Nat] /\ \A i \in 1..n : w[i] = ops[i].gas
  OBVIOUS
<1> HIDE DEF w
<1>2. ASSUME NEW s, Len(s) = n
      PROVE  \E g : T!Used(ops, s) = g /\ SumBy(g, s)
  <2> DEFINE v == [m \in 0..n |-> ops[s[m]].gas]
  <2>1. PICK g : Loop(g, "sum", v, 0, n)
    BY LoopsEnd
  <2>2. \A m \in 0..n : g[m] = IF m = 0 THEN 0 ELSE g[m - 1] + ops[s[m]].gas
    BY <2>1 DEF OneMore, Loop
  <2>3. g = [m \in 0..n |-> g[m]]
    BY <2>1 DEF Loop
  <2>4. \E h : SumBy(h, s)
    BY <2>2, <2>3
  <2> DEFINE h == CHOOSE h : SumBy(h, s)
  <2>5. T!Used(ops, s) = h
    BY <1>2 DEF T!Used
  <2>6. SumBy(h, s)
    BY <2>4
  <2> QED BY <2>5, <2>6
<1>3. Len(same) = n /\ \A i \in 1..n : same[i] = i
  BY DEF T!InsertionOrder
<1> HIDE DEF same
<1>4. PICK g : T!Used(ops, order) = g /\ SumBy(g, order)
  BY <1>2
<1>5. g[0] = 0 /\ \A m \in 1..n : g[m] = g[m - 1] + ops[order[m]].gas
  BY <1>4
<1>6. PICK h : T!Used(ops, same) = h /\ SumBy(h, same)
  BY <1>2, <1>3
<1>7. GasOf(h, w, n, 1..n)
  BY <1>1, <1>3, <1>6 DEF GasOf
<1>8. /\ \A a \in 1..n : order[a] \in 1..n
      /\ \A a, b \in 1..n : order[a] = order[b] => a = b
  <2>1. order \in Seq(1..n) /\ DOMAIN order = 1..n
    BY DEF Orders
  <2>2. \A a \in DOMAIN order : order[a] \in 1..n
    BY <2>1
  <2> QED BY <2>1, <2>2 DEF Orders
<1> DEFINE Total(m) == \E f : GasOf(f, w, n, left(m)) /\ g[m] + f[n] = h[n]
           Good == {m \in 0..k : g[m] \in Nat /\ Total(m)}
<1>9. Total(0)
  <2>1. left(0) = 1..n /\ g[0] = 0
    BY <1>4
  <2>2. h[n] \in Nat
    BY <1>1, <1>7, GasIsNat
  <2> HIDE DEF left
  <2>3. GasOf(h, w, n, left(0))
    BY <1>7, <2>1, Zenon
  <2>4. g[0] + h[n] = h[n]
    BY <2>1, <2>2
  <2> QED BY <2>3, <2>4
<1>10. ASSUME NEW m \in 1..n, g[m - 1] \in Nat, Total(m - 1)
       PROVE  g[m] \in Nat /\ Total(m)
  <2> DEFINE i == order[m]
             A == left(m)
             B == left(m - 1)
  <2>1. i \in 1..n /\ i \notin A /\ B = A \cup {i}
    <3>1. 1..m = (1..(m - 1)) \cup {m} /\ \A a \in 1..m : a \in 1..n
      OBVIOUS
    <3>2. i \in 1..n /\ \A a \in 1..(m - 1) : order[a] # i
      BY <1>8, <3>1
    <3>3. \A x \in 1..n : x \in A <=> \A a \in 1..m : order[a] # x
      OBVIOUS
    <3>4. \A x \in 1..n : x \in B <=> \A a \in 1..(m - 1) : order[a] # x
      OBVIOUS
    <3>5. A \subseteq 1..n /\ B \subseteq 1..n
      OBVIOUS
    <3> HIDE DEF A, B
    <3>6. i \notin A /\ \A x \in 1..n : x \in B <=> x \in A \/ x = i
      BY <3>1, <3>2, <3>3, <3>4
    <3>7. B = A \cup {i}
      BY <3>2, <3>5, <3>6
    <3> QED BY <3>2, <3>6, <3>7
  <2>2. g[m] = g[m - 1] + w[i]
    BY <1>1, <1>8, <1>5
  <2>3. PICK f : GasOf(f, w, n, B) /\ g[m - 1] + f[n] = h[n]
    BY <1>10
  <2>4. PICK e : GasOf(e, w, n, A)
    BY GasExists
  <2> HIDE DEF i, A, B, left
  <2>5. GasOf(f, w, n, A \cup {i})
    BY <2>1, <2>3, Zenon
  <2>6. e[n] \in Nat /\ f[n] = e[n] + w[i]
    BY <1>1, <2>1, <2>4, <2>5, GasOfMore
  <2>7. w[i] \in Nat
    BY <1>1, <2>1
  <2>8. g[m] \in Nat /\ g[m] + e[n] = h[n]
    BY <1>10, <2>2, <2>3, <2>6, <2>7
  <2> QED BY <2>4, <2>8 DEF A
<1> HIDE DEF left
<1>11. k \in Good
  <2> HIDE DEF Total
  <2>1. 0 \in Good
    BY <1>9, <1>5
  <2>2. ASSUME NEW m \in 1..k, m - 1 \in Good PROVE m \in Good
    <3>1. m \in 1..n
      OBVIOUS
    <3> QED BY <1>10, <2>2, <3>1
  <2>3. k \in Nat
    OBVIOUS
  <2> HIDE DEF Good
  <2> QED BY ONLY <2>1, <2>2, <2>3, LoopKeeps
<1>12. PICK f : GasOf(f, w, n, left(k)) /\ g[k] + f[n] = h[n] /\ g[k] \in Nat
  BY <1>11
<1>13. f[n] \in Nat
  BY <1>1, <1>12, GasIsNat
<1>14. ~(g[k] > h[n])
  BY <1>12, <1>13
<1> QED BY <1>4, <1>6, <1>14 DEF same

(* A rank puts every operation behind those it depends on.                 *)
Ranks(r, ops, n) ==
    /\ r \in [1..n -> 1..n]
    /\ \A i, j \in 1..n : ops[j].id \in ops[i].deps => r[j] < r[i]

Met(ops, s) == \A k \in 1..Len(s) : ~T!Unmet(ops, s, k)

(* While there is one, some operation is always ready: one of the lowest   *)
(* rank among those that are left.                                         *)
LEMMA SomeIsReady ==
    ASSUME NEW ops, NEW n \in Nat, DOMAIN ops = 1..n,
           \A i \in 1..n : ops[i].deps \subseteq T!Ids(ops),
           NEW r, Ranks(r, ops, n), NEW s, Orders(s, n), Len(s) < n
    PROVE  T!Ready(ops, s) # {}
<1> DEFINE left == (1..n) \ T!ToSet(s)
           D == {r[i] : i \in left}
<1>1. T!ToSet(s) \subseteq 1..n
  BY DEF Orders, T!ToSet
<1>2. T!ToSet(s) # 1..n
  <2>1. Len(s) # n
    OBVIOUS
  <2> QED BY <2>1, OrderIsAsLong
<1>3. left # {} /\ left \subseteq 1..n
  BY <1>1, <1>2
<1>4. D \in SUBSET Nat /\ D # {}
  BY <1>3 DEF Ranks
<1>5. F!Min(D) \in D /\ \A d \in D : F!Min(D) <= d
  BY <1>4, FirstOf
<1>6. PICK i \in left : \A j \in left : r[i] <= r[j]
  BY <1>5
<1>7. ASSUME NEW d \in ops[i].deps PROVE d \in {ops[k].id : k \in T!ToSet(s)}
  <2>1. PICK j \in 1..n : ops[j].id = d
    BY <1>3, <1>7 DEF T!Ids
  <2>2. r[j] < r[i] /\ r[j] \in Nat /\ r[i] \in Nat
    BY <1>3, <1>7, <2>1 DEF Ranks
  <2>3. j \notin left
    BY <1>6, <2>2
  <2> QED BY <2>1, <2>3
<1> QED BY <1>3, <1>6, <1>7 DEF T!Ready

LEMMA PlaceNextMeets ==
    ASSUME NEW ops, NEW n \in Nat, DOMAIN ops = 1..n,
           \A i \in 1..n : ops[i].id \in Nat,
           NEW s, Orders(s, n), Met(ops, s), T!Ready(ops, s) # {}
    PROVE  Len(T!PlaceNext(ops, s)) = Len(s) + 1 /\ Met(ops, T!PlaceNext(ops, s))
<1> DEFINE ready == T!Ready(ops, s)
           least == CHOOSE i \in ready : \A j \in ready : ops[i].id <= ops[j].id
           z == Append(s, least)
<1>1. least \in ready
  BY LeastIsReady
<1>2. T!PlaceNext(ops, s) = z
  BY DEF T!PlaceNext
<1>3. least \in 1..n /\ ops[least].deps \subseteq {ops[k].id : k \in T!ToSet(s)}
  BY <1>1 DEF T!Ready
<1> HIDE DEF least
<1>4. s \in Seq(1..n) /\ Len(s) \in Nat
  BY DEF Orders
<1>5. /\ Len(z) = Len(s) + 1 /\ z[Len(s) + 1] = least
      /\ \A a \in 1..Len(s) : z[a] = s[a]
  BY <1>3, <1>4
<1>6. {ops[k].id : k \in T!ToSet(s)} \subseteq {ops[z[a]].id : a \in 1..Len(s)}
  BY <1>4, <1>5 DEF T!ToSet
<1> HIDE DEF z
<1>7. ASSUME NEW k \in 1..Len(z) PROVE ~T!Unmet(ops, z, k)
  <2>1. CASE k = Len(s) + 1
    <3>1. k - 1 = Len(s)
      BY <1>4, <2>1
    <3> QED BY <1>3, <1>5, <1>6, <2>1, <3>1 DEF T!Unmet
  <2>2. CASE k # Len(s) + 1
    <3>1. k \in 1..Len(s) /\ \A a \in 1..(k - 1) : a \in 1..Len(s)
      BY <1>4, <1>5, <2>2
    <3>2. ops[s[k]].deps \subseteq {ops[s[a]].id : a \in 1..(k - 1)}
      BY <3>1 DEF Met, T!Unmet
    <3>3. {ops[s[a]].id : a \in 1..(k - 1)} = {ops[z[a]].id : a \in 1..(k - 1)}
      BY <1>5, <3>1
    <3> QED BY <1>5, <3>1, <3>2, <3>3 DEF T!Unmet
  <2> QED BY <2>1, <2>2
<1> QED BY <1>2, <1>5, <1>7 DEF Met, z

(* So the first loop places them all, and the second one has nothing left. *)
LEMMA RankedIsMet ==
    ASSUME NEW ops, NEW n \in Nat, DOMAIN ops = 1..n, Len(ops) = n,
           \A i \in 1..n : ops[i].id \in Nat /\ ops[i].deps \subseteq T!Ids(ops),
           NEW r, Ranks(r, ops, n)
    PROVE  Met(ops, T!ResolveExecutionOrder(ops))
<1> DEFINE g == CHOOSE x : PlacedBy(x, ops)
           placed == g[n]
           h == CHOOSE x : OrderedBy(x, ops, placed)
<1>1. T!ResolveExecutionOrder(ops) = h[n]
  BY DEF T!ResolveExecutionOrder, PlacedBy, OrderedBy
<1>2. PlacedBy(g, ops)
  BY PlacedExists
<1>3. OrderedBy(h, ops, placed)
  BY OrderedExists
<1> HIDE DEF g, h
<1>4. g[0] = <<>> /\ \A m \in 1..n : g[m] = T!PlaceNext(ops, g[m - 1])
  BY <1>2 DEF PlacedBy
<1>5. h[0] = placed /\ \A m \in 1..n : h[m] = T!PlaceLeft(h[m - 1], m)
  BY <1>3 DEF OrderedBy
<1>6. Orders(placed, n) /\ Len(placed) = n /\ Met(ops, placed)
  <2> DEFINE Good == {m \in 0..n : Orders(g[m], n) /\ Len(g[m]) = m /\ Met(ops, g[m])}
  <2>1. 0 \in Good
    <3>1. Orders(<<>>, n) /\ Len(<<>>) = 0 /\ Met(ops, <<>>)
      BY DEF Orders, Met
    <3> QED BY <1>4, <3>1
  <2>2. ASSUME NEW m \in 1..n, m - 1 \in Good PROVE m \in Good
    <3> DEFINE s == g[m - 1]
    <3>1. Orders(s, n) /\ Len(s) = m - 1 /\ Met(ops, s) /\ g[m] = T!PlaceNext(ops, s)
      BY <1>4, <2>2
    <3> HIDE DEF s
    <3>2. T!Ready(ops, s) # {}
      BY <3>1, SomeIsReady
    <3>3. Orders(g[m], n) /\ Len(g[m]) = Len(s) + 1 /\ Met(ops, g[m])
      BY <3>1, <3>2, PlaceNextKeeps, PlaceNextMeets
    <3> QED BY <3>1, <3>3
  <2>3. n \in Good
    <3> HIDE DEF Good
    <3> QED BY <2>1, <2>2, LoopKeeps
  <2> QED BY <2>3
<1>7. T!ToSet(placed) = 1..n
  BY <1>6, LongIsWhole
<1> HIDE DEF placed
<1>8. h[n] = placed
  <2> DEFINE Good == {m \in 0..n : h[m] = placed}
  <2>1. 0 \in Good /\ \A m \in 1..n : m - 1 \in Good => m \in Good
    BY <1>5, <1>7 DEF T!PlaceLeft
  <2>2. n \in Good
    <3> HIDE DEF Good
    <3> QED BY <2>1, LoopKeeps
  <2> QED BY <2>2
<1> QED BY <1>1, <1>6, <1>8

(* The place an operation has in an order that meets them is a rank.       *)
LEMMA MetIsRanked ==
    ASSUME NEW ops \in Seq(Operations), T!Cardinality(T!Ids(ops)) = Len(ops),
           NEW n \in Nat, n = Len(ops),
           NEW s, Orders(s, n), T!ToSet(s) = 1..n, Len(s) = n, Met(ops, s)
    PROVE  \E r : Ranks(r, ops, n)
<1>1. DOMAIN ops = 1..n /\ s \in Seq(1..n) /\ DOMAIN s = 1..n
      /\ \A a, b \in 1..n : s[a] = s[b] => a = b
  BY DEF Orders
<1>2. \A a \in 1..n : s[a] \in 1..n
  BY <1>1
<1>3. \A i \in 1..n : \E a \in 1..n : s[a] = i
  BY <1>1 DEF T!ToSet
<1> DEFINE r == [i \in 1..n |-> CHOOSE a \in 1..n : s[a] = i]
<1>4. \A i \in 1..n : r[i] \in 1..n /\ s[r[i]] = i
  BY <1>3
<1>5. r \in [1..n -> 1..n]
  BY <1>4
<1> HIDE DEF r
<1>6. ASSUME NEW i \in 1..n, NEW j \in 1..n, ops[j].id \in ops[i].deps
      PROVE  r[j] < r[i]
  <2>1. ops[i].deps \subseteq {ops[s[a]].id : a \in 1..(r[i] - 1)}
    BY <1>4 DEF Met, T!Unmet
  <2>2. PICK a \in 1..(r[i] - 1) : ops[s[a]].id = ops[j].id
    BY <1>6, <2>1
  <2>3. a \in 1..n
    BY <1>4
  <2>4. s[a] = j
    BY <1>1, <1>2, <2>2, <2>3, IdsDiffer
  <2>5. a = r[j]
    BY <1>1, <1>4, <2>3, <2>4
  <2> QED BY <1>4, <2>5
<1> QED BY <1>5, <1>6 DEF Ranks

LEMMA TxRanked == TxInv => AcyclicCanRun
<1> SUFFICES ASSUME TxInv, NEW t \in DOMAIN txs, T!Preflight(txs[t])
             PROVE  LET ops == txs[t].operations
                        rank == [DOMAIN ops -> DOMAIN ops]
                        total == T!Used(ops, T!InsertionOrder(ops))[Len(ops)]
                    IN  T!Executes(txs[t], total) <=>
                            \E r \in rank : \A i, j \in DOMAIN ops :
                                ops[j].id \in ops[i].deps => r[j] < r[i]
  BY DEF AcyclicCanRun, T!AcyclicCanRun
<1> DEFINE ops == txs[t].operations
           n == Len(ops)
           order == T!ResolveExecutionOrder(ops)
           total == T!Used(ops, T!InsertionOrder(ops))[n]
<1>1. ops \in Seq(Operations)
  <2>1. txs[t] \in TxOf
    BY DEF TxInv
  <2> QED BY <2>1 DEF TxOf
<1>2. /\ n \in Nat /\ DOMAIN ops = 1..n
      /\ \A i \in 1..n : ops[i].id \in Nat /\ ops[i].gas \in Nat
  <2>1. \A op \in Operations : op.gas \in Nat
    BY Constants DEF T!TransactionConstants
  <2>2. \A i \in DOMAIN ops : ops[i] \in Operations
    BY <1>1
  <2> QED BY <1>1, <2>1, <2>2, OpsAre
<1>3. /\ T!Cardinality(T!Ids(ops)) = n
      /\ \A i \in 1..n : ops[i].deps \subseteq T!Ids(ops)
  BY <1>2 DEF T!Preflight
<1>4. T!Executes(txs[t], total) <=> T!Stops(ops, order, total) = {}
  BY DEF T!Executes
<1> HIDE DEF ops
<1>5. Orders(order, n) /\ T!ToSet(order) = 1..n
  BY <1>2, OrderIsWhole
<1> HIDE DEF order, n
<1>6. Len(order) = n
  BY <1>2, <1>5, OrderIsAsLong
<1>7. DOMAIN order = 1..n
  BY <1>5, <1>6 DEF Orders
<1>8. \A k \in 1..n : ~(T!Used(ops, order)[k] > total)
  BY <1>2, <1>5, <1>6, UsedWithin DEF n
<1> HIDE DEF total
<1>9. T!Stops(ops, order, total) = {} <=> Met(ops, order)
  BY <1>6, <1>7, <1>8 DEF T!Stops, Met
<1>10. Met(ops, order) => \E r : Ranks(r, ops, n)
  BY <1>1, <1>2, <1>3, <1>5, <1>6, MetIsRanked DEF n
<1>11. ASSUME NEW r, Ranks(r, ops, n) PROVE Met(ops, order)
  BY <1>2, <1>3, <1>11, RankedIsMet DEF n, order
<1>12. (\E r : Ranks(r, ops, n)) <=>
           \E r \in [1..n -> 1..n] : \A i, j \in 1..n :
               ops[j].id \in ops[i].deps => r[j] < r[i]
  BY DEF Ranks
<1> QED BY <1>2, <1>4, <1>9, <1>10, <1>11, <1>12 DEF ops, n, order, total

(* A transaction given the gas of all of its operations is executed if and *)
(* only if some order respects their dependencies, for any operations in   *)
(* any order of declaration: resolve_execution_order finds one whenever    *)
(* there is one, and the gas added up on the way is never more than that   *)
(* of the whole.                                                           *)
THEOREM AcyclicIsExecuted == Spec => []AcyclicCanRun
<1> QED BY TxInit, TxStep, TxRanked, PTL DEF Spec
=============================================================================
