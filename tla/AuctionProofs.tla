---------------------------- MODULE AuctionProofs ----------------------------
(***************************************************************************)
(* The auction engine is well typed, its books balance, losers are made    *)
(* whole and its lots implement Escrow, for any users, tokens, prices,     *)
(* fees, royalties and bounds.  Then the contract it completes: sales,     *)
(* trades, bundles and auctions that share custody and the purse.          *)
(***************************************************************************)
EXTENDS Marketplace, PayoutProofs

-----------------------------------------------------------------------------
(* Type correctness.                                                       *)

AuctionsTyped == auctions \in Seq(Listing) /\ Len(auctions) <= MaxAuctions
BooksTyped    == bids \in Seq(Seq(Bid)) /\ Len(bids) = Len(auctions)
SealedTyped   ==
    /\ sealed \in Seq([User -> Promise \cup {NoPromise}])
    /\ Len(sealed) = Len(auctions)
DutchTyped    == dutch \in Seq(Price) /\ Len(dutch) = Len(auctions)
StrayTyped    == strayed \subseteq NFT

LEMMA TypeParts ==
    TypeOK <=> /\ LedgerTypeOK /\ PayoutTypeOK
               /\ AuctionsTyped /\ BooksTyped /\ SealedTyped /\ DutchTyped /\ StrayTyped
BY DEF TypeOK, AuctionsTyped, BooksTyped, SealedTyped, DutchTyped, StrayTyped

LEMMA PartsPrimed ==
    ASSUME LedgerTypeOK', PayoutTypeOK', AuctionsTyped', BooksTyped', SealedTyped',
           DutchTyped', StrayTyped'
    PROVE  TypeOK'
BY DEF TypeOK, AuctionsTyped, BooksTyped, SealedTyped, DutchTyped, StrayTyped

(* One entry per auction in each table.                                    *)
LEMMA Tables ==
    ASSUME TypeOK, NEW i \in DOMAIN auctions
    PROVE  /\ i \in DOMAIN bids /\ i \in DOMAIN sealed /\ i \in DOMAIN dutch
           /\ auctions[i] \in Listing /\ bids[i] \in Seq(Bid)
           /\ sealed[i] \in [User -> Promise \cup {NoPromise}] /\ dutch[i] \in Price
BY DEF TypeOK

LEMMA ListingFields ==
    ASSUME NEW a \in Listing
    PROVE  /\ a.seller \in User /\ a.nft \in NFT /\ a.starting \in Nat
           /\ a.reserve \in Nat /\ a.highest_bid \in Nat /\ a.end_time \in Nat
           /\ a.highest_bidder \in SomeUser
           /\ a.highest_bidder # None => a.highest_bidder \in User
           /\ a.state \in AuctionState
BY DEF Listing, SomeUser

(* The book.                                                               *)
LEMMA TickOffType ==
    ASSUME TypeOK, NEW i \in DOMAIN auctions, NEW u
    PROVE  /\ TickOff(i, u) \in Seq(Bid) /\ Len(TickOff(i, u)) = Len(bids[i])
           /\ DOMAIN TickOff(i, u) = DOMAIN bids[i]
           /\ \A k \in DOMAIN bids[i] :
                 /\ TickOff(i, u)[k].bidder = bids[i][k].bidder
                 /\ TickOff(i, u)[k].amount = bids[i][k].amount
                 /\ TickOff(i, u)[k].refunded = (bids[i][k].refunded \/ bids[i][k].bidder = u)
<1>1. bids[i] \in Seq(Bid)
  BY Tables
<1>2. \A k \in DOMAIN bids[i] :
          /\ TickOff(i, u)[k] = [bids[i][k] EXCEPT !.refunded = @ \/ bids[i][k].bidder = u]
          /\ bids[i][k] \in Bid
  BY <1>1 DEF TickOff
<1>3. \A k \in DOMAIN bids[i] :
          /\ TickOff(i, u)[k].bidder = bids[i][k].bidder
          /\ TickOff(i, u)[k].amount = bids[i][k].amount
          /\ TickOff(i, u)[k].refunded = (bids[i][k].refunded \/ bids[i][k].bidder = u)
          /\ TickOff(i, u)[k] \in Bid
  BY <1>2 DEF Bid
<1>4. DOMAIN TickOff(i, u) = 1..Len(bids[i]) /\ DOMAIN bids[i] = 1..Len(bids[i])
      /\ Len(bids[i]) \in Nat
  BY <1>1 DEF TickOff
<1>5. TickOff(i, u) \in [1..Len(bids[i]) -> Bid]
  BY <1>3, <1>4 DEF TickOff
<1> QED BY <1>3, <1>4, <1>5

LEMMA SmallestNumber ==
    ASSUME NEW S \in SUBSET Nat, S # {}
    PROVE  Min(S) \in S
<1>1. PICK R : IsWellFoundedOn(R, Nat) /\ \A m, n \in Nat : m < n => <<m, n>> \in R
  <2>1. IsWellFoundedOn({mn \in Nat \X Nat : mn[1] < mn[2]}, Nat)
    BY NatLessThanWellFounded DEF OpToRel
  <2> QED BY <2>1
<1>2. S \subseteq Nat /\ IsWellFoundedOn(R, Nat)
  BY <1>1
<1>3. PICK n \in S : \A m \in S : ~ (<<m, n>> \in R)
  BY <1>2, WFMin
<1>4. \A m \in S : n <= m
  <2> SUFFICES ASSUME NEW m \in S PROVE ~ (m < n)
    BY <1>2
  <2> QED BY <1>1, <1>2, <1>3
<1> QED BY <1>4 DEF Min

LEMMA NewBidType ==
    ASSUME NEW u \in User, NEW amount \in Nat
    PROVE  /\ NewBid(u, amount) \in Bid /\ NewBid(u, amount).bidder = u
           /\ NewBid(u, amount).amount = amount /\ NewBid(u, amount).refunded = FALSE
BY DEF NewBid, Bid

LEMMA OutstandingType ==
    ASSUME TypeOK, NEW i \in DOMAIN auctions, NEW u
    PROVE  /\ IsFiniteSet(Unrefunded(i, u)) /\ Unrefunded(i, u) \subseteq DOMAIN bids[i]
           /\ Outstanding(i, u) \in Nat
<1>1. bids[i] \in Seq(Bid)
  BY Tables
<1>2. IsFiniteSet(DOMAIN bids[i])
  <2>1. DOMAIN bids[i] = 1..Len(bids[i]) /\ Len(bids[i]) \in Nat
    BY <1>1
  <2>2. IsFiniteSet(1..Len(bids[i]))
    BY <2>1, IndicesFinite, Zenon
  <2> QED BY <2>1, <2>2
<1>3. Unrefunded(i, u) \subseteq DOMAIN bids[i]
  BY DEF Unrefunded
<1>4. IsFiniteSet(Unrefunded(i, u))
  BY <1>2, <1>3, FS_Subset
<1> DEFINE amounts == [k \in DOMAIN bids[i] |-> bids[i][k].amount]
<1>5. \A k \in Unrefunded(i, u) : amounts[k] \in Nat
  <2>1. \A k \in DOMAIN bids[i] : bids[i][k] \in Bid
    BY <1>1
  <2> QED BY <1>3, <2>1 DEF Bid
<1> HIDE DEF amounts
<1>6. SumFunctionOnSet(amounts, Unrefunded(i, u)) \in Nat
  BY <1>4, <1>5, SumNat
<1> QED BY <1>3, <1>4, <1>6 DEF Outstanding, amounts

LEMMA LeaderPaid ==
    ASSUME TypeOK, NEW i \in DOMAIN auctions, NEW b \in [Account -> Nat],
           CanPay(b, Market, LeadersDeposit(i))
    PROVE  /\ LeadersDeposit(i) \in Nat
           /\ PayLeader(b, i) \in [Account -> Nat]
           /\ PayLeader(b, i)[Market] = b[Market] - LeadersDeposit(i)
           /\ \A u \in User :
                 PayLeader(b, i)[u] = b[u] + Credit(u, auctions[i].highest_bidder,
                                                    LeadersDeposit(i))
<1> DEFINE leader == auctions[i].highest_bidder
           deposit == LeadersDeposit(i)
<1>1. leader = None \/ leader \in User
  BY Tables, ListingFields
<1>2. deposit \in Nat
  BY OutstandingType DEF LeadersDeposit
<1>3. CASE leader = None
  <2>1. PayLeader(b, i) = b /\ deposit = 0
    BY <1>3 DEF PayLeader, LeadersDeposit
  <2>2. \A u \in User : b[u] \in Nat /\ u # None
    BY PayoutAssumption DEF Account
  <2>3. b[Market] \in Nat
    BY FiniteAccounts
  <2> QED BY <1>3, <2>1, <2>2, <2>3 DEF Credit
<1>4. CASE leader # None
  <2>1. PayLeader(b, i) = Pay(b, Market, leader, deposit)
    BY <1>4 DEF PayLeader
  <2>2. leader \in User /\ leader \in Account /\ leader # Market /\ Market \in Account
    BY <1>1, <1>4, FiniteAccounts, LedgerAssumption
  <2> HIDE DEF leader, deposit
  <2>3. Pay(b, Market, leader, deposit) \in [Account -> Nat]
    BY <1>2, <2>2, PayType DEF deposit
  <2>4. Pay(b, Market, leader, deposit)[Market] = b[Market] - deposit
    BY <1>2, <2>2 DEF Pay
  <2>5. \A u \in User : Pay(b, Market, leader, deposit)[u] = b[u] + Credit(u, leader, deposit)
    BY <1>2, <2>2, FiniteAccounts, LedgerAssumption DEF Pay, Credit
  <2> QED BY <1>2, <2>1, <2>3, <2>4, <2>5 DEF leader, deposit
<1> QED BY <1>2, <1>3, <1>4

(* The closing time never moves forward, and after an extension at least a *)
(* Window is left.                                                         *)
LEMMA ExtendedType ==
    ASSUME now \in Nat, NEW end \in Nat
    PROVE  /\ Extended(end) \in Nat /\ Extended(end) >= end
           /\ Extended(end) >= now + Window
BY AuctionAssumption DEF Extended

(* The stored Dutch price.                                                 *)
LEMMA Division ==
    \A a \in Int, z \in Nat \ {0} :
        a \div z \in Int /\ z * (a \div z) <= a /\ a < z * (a \div z) + z
OBVIOUS

LEMMA Portion ==
    ASSUME NEW x \in Nat, NEW y \in Nat, NEW z \in Nat, y < z
    PROVE  (x * y) \div z \in 0..x
<1> DEFINE a == x * y
           q == a \div z
<1>1. a \in Nat /\ z \in Nat \ {0}
  OBVIOUS
<1>2. a < x * z + z
  BY z > 0
<1>3. q \in Int /\ z * q <= a /\ a < z * q + z
  <2> HIDE DEF a
  <2> QED BY <1>1, Division
<1> HIDE DEF a, q
<1>4. q >= 0
  <2> SUFFICES ASSUME q < 0 PROVE FALSE
    BY <1>3
  <2>1. q + 1 <= 0
    BY <1>3
  <2>2. z * (q + 1) <= 0
    BY <1>3, <2>1
  <2>3. z * (q + 1) = z * q + z
    BY <1>3
  <2> QED BY <1>1, <1>3, <2>2, <2>3
<1>5. q <= x
  <2> SUFFICES ASSUME q > x PROVE FALSE
    BY <1>3
  <2>1. q - (x + 1) \in Nat
    BY <1>3
  <2>2. z * (q - (x + 1)) >= 0
    BY <2>1
  <2>3. z * (q - (x + 1)) = z * q - x * z - z
    BY <1>3
  <2> QED BY <1>1, <1>2, <1>3, <2>2, <2>3
<1> QED BY <1>3, <1>4, <1>5 DEF q, a

Between(low, x, high) == low <= x /\ x <= high

LEMMA PriceBetween ==
    ASSUME now \in Nat, NEW t0 \in Nat, NEW t1 \in Nat, NEW p0 \in Nat, NEW p1 \in Nat
    PROVE  /\ TimeWeighted(t0, t1, p0, p1) \in Nat
           /\ p0 >= p1 => Between(p1, TimeWeighted(t0, t1, p0, p1), p0)
           /\ p0 <= p1 => Between(p0, TimeWeighted(t0, t1, p0, p1), p1)
           /\ now > t0 /\ now >= t1 => TimeWeighted(t0, t1, p0, p1) = p1
<1>1. CASE now <= t0 \/ now >= t1
  BY <1>1 DEF TimeWeighted, Between
<1>2. CASE ~(now <= t0 \/ now >= t1)
  <2> DEFINE y == now - t0
             z == t1 - t0
  <2>1. y \in Nat /\ z \in Nat /\ y < z /\ y > 0 /\ z > 0
    BY <1>2
  <2>2. TimeWeighted(t0, t1, p0, p1) = p0 - TowardsZero((p0 - p1) * y, z)
    BY <1>2 DEF TimeWeighted
  <2> HIDE DEF y, z
  <2>3. CASE p0 >= p1
    <3>1. p0 - p1 \in Nat
      BY <2>3
    <3>2. (p0 - p1) * y >= 0
      BY <2>1, <3>1
    <3>3. ((p0 - p1) * y) \div z \in 0..(p0 - p1)
      BY <2>1, <3>1, Portion
    <3>4. TowardsZero((p0 - p1) * y, z) \in 0..(p0 - p1)
      BY <3>2, <3>3 DEF TowardsZero
    <3> QED BY <1>2, <2>2, <2>3, <3>4 DEF Between
  <2>4. CASE p0 < p1
    <3>1. p1 - p0 \in Nat /\ p1 - p0 > 0
      BY <2>4
    <3>2. (p1 - p0) * y > 0
      BY <2>1, <3>1
    <3>3. -((p0 - p1) * y) = (p1 - p0) * y /\ (p0 - p1) * y < 0
      BY <2>1, <3>2
    <3>4. ((p1 - p0) * y) \div z \in 0..(p1 - p0)
      BY <2>1, <3>1, Portion
    <3>5. TowardsZero((p0 - p1) * y, z) = -(((p1 - p0) * y) \div z)
      <4> DEFINE a == (p0 - p1) * y
                 m == (p1 - p0) * y
      <4>1. ~(a >= 0) /\ -a = m
        BY <2>1, <3>2, <3>3
      <4> HIDE DEF a, m
      <4>2. TowardsZero(a, z) = -(m \div z)
        BY <4>1 DEF TowardsZero
      <4> QED BY <4>2 DEF a, m
    <3> QED BY <1>2, <2>2, <2>4, <3>4, <3>5 DEF Between
  <2> QED BY <2>3, <2>4
<1> QED BY <1>1, <1>2

-----------------------------------------------------------------------------
(* What each operation does to the tables.                                 *)

Raised(a, u, amount) ==
    [a EXCEPT !.highest_bid = amount, !.highest_bidder = u, !.end_time = Extended(@)]
Closed(a, state) == [a EXCEPT !.state = state]

LEMMA RaisedType ==
    ASSUME now \in Nat, NEW a \in Listing, NEW u \in User, NEW amount \in Nat
    PROVE  /\ Raised(a, u, amount) \in Listing
           /\ Raised(a, u, amount).seller = a.seller
           /\ Raised(a, u, amount).nft = a.nft
           /\ Raised(a, u, amount).starting = a.starting
           /\ Raised(a, u, amount).reserve = a.reserve
           /\ Raised(a, u, amount).state = a.state
           /\ Raised(a, u, amount).highest_bid = amount
           /\ Raised(a, u, amount).highest_bidder = u
           /\ Raised(a, u, amount).end_time = Extended(a.end_time)
<1>1. Extended(a.end_time) \in Nat
  BY ListingFields, ExtendedType
<1>2. u \in SomeUser
  BY DEF SomeUser
<1> QED BY <1>1, <1>2 DEF Raised, Listing

LEMMA ClosedType ==
    ASSUME NEW a \in Listing, NEW state \in AuctionState
    PROVE  /\ Closed(a, state) \in Listing
           /\ Closed(a, state).seller = a.seller /\ Closed(a, state).nft = a.nft
           /\ Closed(a, state).starting = a.starting
           /\ Closed(a, state).reserve = a.reserve
           /\ Closed(a, state).state = state
           /\ Closed(a, state).highest_bid = a.highest_bid
           /\ Closed(a, state).highest_bidder = a.highest_bidder
           /\ Closed(a, state).end_time = a.end_time
BY DEF Closed, Listing

LEMMA Relisted ==
    ASSUME TypeOK, NEW i \in DOMAIN auctions, NEW a \in Listing,
           auctions' = [auctions EXCEPT ![i] = a]
    PROVE  /\ AuctionsTyped' /\ Len(auctions') = Len(auctions)
           /\ DOMAIN auctions' = DOMAIN auctions
           /\ \A j \in DOMAIN auctions : auctions'[j] = IF j = i THEN a ELSE auctions[j]
<1>1. auctions \in Seq(Listing)
  BY DEF TypeOK
<1>2. /\ auctions' \in Seq(Listing) /\ Len(auctions') = Len(auctions)
      /\ DOMAIN auctions' = DOMAIN auctions
      /\ \A j \in DOMAIN auctions : auctions'[j] = IF j = i THEN a ELSE auctions[j]
  BY <1>1, Replace
<1> QED BY <1>2 DEF TypeOK, AuctionsTyped

LEMMA Rebooked ==
    ASSUME TypeOK, NEW i \in DOMAIN auctions, NEW book \in Seq(Bid),
           bids' = [bids EXCEPT ![i] = book], Len(auctions') = Len(auctions)
    PROVE  /\ BooksTyped'
           /\ \A j \in DOMAIN auctions : bids'[j] = IF j = i THEN book ELSE bids[j]
<1>1. bids \in Seq(Seq(Bid)) /\ DOMAIN bids = DOMAIN auctions
  BY DEF TypeOK
<1>2. /\ bids' \in Seq(Seq(Bid)) /\ Len(bids') = Len(bids)
      /\ \A j \in DOMAIN bids : bids'[j] = IF j = i THEN book ELSE bids[j]
  BY <1>1, Replace
<1> QED BY <1>1, <1>2 DEF TypeOK, BooksTyped

(* Tables an operation leaves alone stay typed.                            *)
LEMMA Untouched ==
    ASSUME TypeOK, Len(auctions') = Len(auctions)
    PROVE  /\ bids' = bids => BooksTyped'
           /\ sealed' = sealed => SealedTyped'
           /\ dutch' = dutch => DutchTyped'
           /\ strayed' = strayed => StrayTyped'
BY DEF TypeOK, BooksTyped, SealedTyped, DutchTyped, StrayTyped

-----------------------------------------------------------------------------
(* Each operation keeps the types.                                         *)

LEMMA CreateAuctionType ==
    ASSUME TypeOK, NEW u \in User, NEW n \in NFT, NEW type \in Types,
           NEW starting \in Starts, NEW reserve \in Reserves, NEW d \in 1..MaxDuration,
           NEW increment \in Increments,
           CreateAuction(u, n, type, starting, reserve, d, increment)
    PROVE  TypeOK'
<1> DEFINE a == [seller |-> u, nft |-> n, type |-> type, starting |-> starting,
                 reserve |-> reserve, increment |-> increment, highest_bid |-> 0,
                 highest_bidder |-> None, end_time |-> now + d, state |-> "Pending"]
<1>1. a \in Listing
  <2>1. now + d \in Nat
    BY DEF TypeOK, LedgerTypeOK
  <2>2. /\ type \in AuctionType /\ starting \in Nat /\ reserve \in Nat
        /\ increment \in Nat
    BY AuctionAssumption
  <2> QED BY <2>1, <2>2 DEF Listing, SomeUser, AuctionState
<1>2. LedgerTypeOK' /\ PayoutTypeOK'
  <2>1. Give(owner, Market, {n}) \in [NFT -> Account]
    BY GiveType, FiniteAccounts DEF TypeOK, LedgerTypeOK
  <2> QED BY <2>1 DEF CreateAuction, TypeOK, LedgerTypeOK, PayoutTypeOK, gateVars, termVars
<1>3. auctions' = Append(auctions, a)
  BY DEF CreateAuction
<1> HIDE DEF a
<1>4. AuctionsTyped' /\ Len(auctions') = Len(auctions) + 1
  BY <1>1, <1>3, AuctionAssumption, Extend DEF CreateAuction, TypeOK, AuctionsTyped
<1>5. BooksTyped'
  BY <1>4, Extend DEF CreateAuction, TypeOK, BooksTyped
<1>6. SealedTyped'
  <2>1. [v \in User |-> NoPromise] \in [User -> Promise \cup {NoPromise}]
    OBVIOUS
  <2> QED BY <1>4, <2>1, Extend DEF CreateAuction, TypeOK, SealedTyped
<1>7. DutchTyped'
  <2>1. [current |-> starting, updated |-> now] \in Price
    BY AuctionAssumption DEF Price, TypeOK, LedgerTypeOK
  <2> QED BY <1>4, <2>1, Extend DEF CreateAuction, TypeOK, DutchTyped
<1>8. StrayTyped'
  BY DEF CreateAuction, TypeOK, StrayTyped
<1> QED BY <1>2, <1>4, <1>5, <1>6, <1>7, <1>8, PartsPrimed

(* A bid: the purse grows by the bid less the deposit it displaces.        *)
LEMMA BidType ==
    ASSUME TypeOK, NEW i \in DOMAIN auctions, NEW u \in User, NEW amount \in Amounts,
           PlaceBid(i, u, amount)
    PROVE  /\ TypeOK' /\ DOMAIN auctions' = DOMAIN auctions
           /\ \A j \in DOMAIN auctions :
                 /\ auctions'[j] = IF j = i THEN Raised(auctions[i], u, amount)
                                   ELSE auctions[j]
                 /\ bids'[j] = IF j = i
                               THEN Append(TickOff(i, auctions[i].highest_bidder),
                                           NewBid(u, amount))
                               ELSE bids[j]
           /\ bal'[Market] = bal[Market] + amount - LeadersDeposit(i)
           /\ \A v \in User :
                 bal'[v] = bal[v] - Credit(v, u, amount)
                           + Credit(v, auctions[i].highest_bidder, LeadersDeposit(i))
<1> DEFINE paid == Pay(bal, u, Market, amount)
           book == Append(TickOff(i, auctions[i].highest_bidder), NewBid(u, amount))
<1>1. /\ amount \in Nat /\ now \in Nat /\ auctions[i] \in Listing
      /\ bal \in [Account -> Nat] /\ u \in Account /\ Market \in Account /\ u # Market
  BY AuctionAssumption, Tables, FiniteAccounts, LedgerAssumption
  DEF TypeOK, LedgerTypeOK
<1>2. paid \in [Account -> Nat]
  BY <1>1, PayType DEF PlaceBid
<1>3. paid[Market] = bal[Market] + amount
  BY <1>1 DEF Pay
<1>4. \A v \in User : paid[v] = bal[v] - Credit(v, u, amount)
  BY <1>1, FiniteAccounts DEF Pay, Credit
<1>5. bal' = PayLeader(paid, i) /\ CanPay(paid, Market, LeadersDeposit(i))
  BY DEF PlaceBid
<1> HIDE DEF paid
<1>6. /\ LeadersDeposit(i) \in Nat /\ bal' \in [Account -> Nat]
      /\ bal'[Market] = paid[Market] - LeadersDeposit(i)
      /\ \A v \in User : bal'[v] = paid[v] + Credit(v, auctions[i].highest_bidder,
                                                    LeadersDeposit(i))
  BY <1>2, <1>5, LeaderPaid
<1>7. LedgerTypeOK' /\ PayoutTypeOK'
  BY <1>6 DEF PlaceBid, TypeOK, LedgerTypeOK, PayoutTypeOK, gateVars, termVars
<1>8. auctions' = [auctions EXCEPT ![i] = Raised(auctions[i], u, amount)]
  BY <1>1 DEF PlaceBid, Raised, TypeOK
<1>9. Raised(auctions[i], u, amount) \in Listing
  BY <1>1, RaisedType
<1>10. /\ AuctionsTyped' /\ Len(auctions') = Len(auctions)
       /\ DOMAIN auctions' = DOMAIN auctions
       /\ \A j \in DOMAIN auctions :
             auctions'[j] = IF j = i THEN Raised(auctions[i], u, amount) ELSE auctions[j]
  BY <1>8, <1>9, Relisted
<1>11. book \in Seq(Bid)
  BY <1>1, TickOffType, NewBidType, Extend
<1>12. bids' = [bids EXCEPT ![i] = book]
  BY DEF PlaceBid
<1> HIDE DEF book
<1>13. /\ BooksTyped'
       /\ \A j \in DOMAIN auctions : bids'[j] = IF j = i THEN book ELSE bids[j]
  BY <1>10, <1>11, <1>12, Rebooked
<1>14. SealedTyped' /\ DutchTyped' /\ StrayTyped'
  BY <1>10, Untouched DEF PlaceBid
<1>15. TypeOK'
  BY <1>7, <1>10, <1>13, <1>14, PartsPrimed
<1>16. bal'[Market] = bal[Market] + amount - LeadersDeposit(i)
  BY <1>1, <1>3, <1>6
<1>17. \A v \in User :
           bal'[v] = bal[v] - Credit(v, u, amount)
                     + Credit(v, auctions[i].highest_bidder, LeadersDeposit(i))
  BY <1>4, <1>6
<1>18. \A j \in DOMAIN auctions :
           bids'[j] = IF j = i
                      THEN Append(TickOff(i, auctions[i].highest_bidder), NewBid(u, amount))
                      ELSE bids[j]
  BY <1>13 DEF book
<1> QED BY <1>10, <1>15, <1>16, <1>17, <1>18

LEMMA SealedBidType ==
    ASSUME TypeOK, NEW i \in DOMAIN auctions, NEW u \in User, NEW amount \in Amounts,
           NEW secret \in Amounts, PlaceSealedBid(i, u, amount, secret)
    PROVE  TypeOK'
<1> DEFINE a == [auctions[i] EXCEPT !.end_time = Extended(@)]
           s == [sealed[i] EXCEPT ![u] = [amount |-> secret, deadline |-> now + RevealPeriod]]
<1>1. /\ amount \in Nat /\ secret \in Nat /\ now \in Nat /\ now + RevealPeriod \in Nat
      /\ auctions[i] \in Listing /\ sealed[i] \in [User -> Promise \cup {NoPromise}]
  BY AuctionAssumption, Tables DEF TypeOK, LedgerTypeOK
<1>2. a \in Listing
  <2>1. Extended(auctions[i].end_time) \in Nat
    BY <1>1, ListingFields, ExtendedType
  <2> QED BY <1>1, <2>1 DEF Listing
<1>3. s \in [User -> Promise \cup {NoPromise}]
  <2>1. [amount |-> secret, deadline |-> now + RevealPeriod] \in Promise
    BY <1>1 DEF Promise
  <2> QED BY <1>1, <2>1
<1>4. LedgerTypeOK' /\ PayoutTypeOK'
  BY DEF PlaceSealedBid, TypeOK, LedgerTypeOK, PayoutTypeOK, gateVars, termVars
<1>5. auctions' = [auctions EXCEPT ![i] = a]
  BY DEF PlaceSealedBid, TypeOK
<1>6. sealed' = [sealed EXCEPT ![i] = s] /\ i \in DOMAIN sealed
  BY Tables DEF PlaceSealedBid, TypeOK
<1> HIDE DEF a, s
<1>7. AuctionsTyped' /\ Len(auctions') = Len(auctions)
  BY <1>2, <1>5, Relisted
<1>8. BooksTyped'
  <2>1. Append(bids[i], NewBid(u, amount)) \in Seq(Bid)
    BY <1>1, Tables, NewBidType, Extend
  <2>2. bids' = [bids EXCEPT ![i] = Append(bids[i], NewBid(u, amount))]
    BY DEF PlaceSealedBid
  <2> QED BY <1>7, <2>1, <2>2, Rebooked
<1>9. SealedTyped'
  BY <1>3, <1>6, <1>7, Replace DEF TypeOK, SealedTyped
<1>10. DutchTyped' /\ StrayTyped'
  BY <1>7, Untouched DEF PlaceSealedBid
<1> QED BY <1>4, <1>7, <1>8, <1>9, <1>10, PartsPrimed

LEMMA RevealType ==
    ASSUME TypeOK, NEW i \in DOMAIN auctions, NEW u \in User, RevealBid(i, u)
    PROVE  TypeOK'
<1> DEFINE amount == sealed[i][u].amount
           refund == PayLeader(bal, i)
           book == TickOff(i, auctions[i].highest_bidder)
           mine == {k \in DOMAIN book : book[k].bidder = u}
           a == [auctions[i] EXCEPT !.highest_bid = amount, !.highest_bidder = u]
<1>1. /\ auctions[i] \in Listing /\ amount \in Nat /\ bal \in [Account -> Nat]
      /\ u \in Account /\ Market \in Account /\ book \in Seq(Bid)
  <2>1. sealed[i][u] \in Promise
    BY Tables DEF RevealBid
  <2> QED BY <2>1, Tables, TickOffType, FiniteAccounts
          DEF Promise, TypeOK, LedgerTypeOK, Account
<1>2. a \in Listing
  BY <1>1 DEF Listing, SomeUser
<1>3. refund \in [Account -> Nat]
  BY <1>1, LeaderPaid DEF RevealBid
<1>4. bal' = Pay(refund, u, Market, amount) /\ CanPay(refund, u, amount)
  BY DEF RevealBid
<1>5. mine # {} /\ bids' = [bids EXCEPT ![i] = [book EXCEPT ![Min(mine)] = NewBid(u, amount)]]
  BY DEF RevealBid
<1>6. auctions' = [auctions EXCEPT ![i] = a]
  BY DEF RevealBid, TypeOK
<1>7. Min(mine) \in DOMAIN book
  <2>1. DOMAIN book \subseteq Nat
    BY <1>1
  <2>2. mine \subseteq DOMAIN book
    OBVIOUS
  <2> HIDE DEF mine, book
  <2>3. Min(mine) \in mine
    BY <1>5, <2>1, <2>2, SmallestNumber
  <2> QED BY <2>2, <2>3
<1> HIDE DEF amount, refund, book, mine, a
<1>8. bal' \in [Account -> Nat]
  BY <1>1, <1>3, <1>4, PayType
<1>9. LedgerTypeOK' /\ PayoutTypeOK'
  BY <1>8 DEF RevealBid, TypeOK, LedgerTypeOK, PayoutTypeOK, gateVars, termVars
<1>10. AuctionsTyped' /\ Len(auctions') = Len(auctions)
  BY <1>2, <1>6, Relisted
<1>11. BooksTyped'
  <2>1. [book EXCEPT ![Min(mine)] = NewBid(u, amount)] \in Seq(Bid)
    BY <1>1, <1>7, NewBidType, Replace
  <2> QED BY <1>5, <1>10, <2>1, Rebooked
<1>12. SealedTyped' /\ DutchTyped' /\ StrayTyped'
  BY <1>10, Untouched DEF RevealBid
<1> QED BY <1>9, <1>10, <1>11, <1>12, PartsPrimed

LEMMA WithdrawType ==
    ASSUME TypeOK, NEW i \in DOMAIN auctions, NEW u \in User, WithdrawLosingBid(i, u)
    PROVE  TypeOK'
<1>1. bal' \in [Account -> Nat]
  BY OutstandingType, FiniteAccounts, PayType
  DEF WithdrawLosingBid, TypeOK, LedgerTypeOK, Account
<1>2. LedgerTypeOK' /\ PayoutTypeOK'
  BY <1>1 DEF WithdrawLosingBid, TypeOK, LedgerTypeOK, PayoutTypeOK, gateVars, termVars
<1>3. auctions' = auctions /\ AuctionsTyped'
  BY DEF WithdrawLosingBid, TypeOK, AuctionsTyped
<1>4. BooksTyped'
  <2>1. bids' = [bids EXCEPT ![i] = TickOff(i, u)]
    BY DEF WithdrawLosingBid
  <2> QED BY <1>3, <2>1, TickOffType, Rebooked
<1>5. SealedTyped' /\ DutchTyped' /\ StrayTyped'
  BY <1>3, Untouched DEF WithdrawLosingBid
<1> QED BY <1>2, <1>3, <1>4, <1>5, PartsPrimed

LEMMA CleanupType ==
    ASSUME TypeOK, CleanupExpiredCommitments
    PROVE  TypeOK'
<1> DEFINE kept == [i \in DOMAIN sealed |-> [u \in User |->
                       IF now > sealed[i][u].deadline THEN NoPromise ELSE sealed[i][u]]]
<1>1. /\ sealed \in Seq([User -> Promise \cup {NoPromise}])
      /\ DOMAIN sealed = 1..Len(sealed) /\ Len(sealed) \in Nat
  BY DEF TypeOK
<1>2. \A i \in DOMAIN sealed : kept[i] \in [User -> Promise \cup {NoPromise}]
  BY <1>1
<1>3. kept \in Seq([User -> Promise \cup {NoPromise}]) /\ Len(kept) = Len(sealed)
  <2>1. kept = [i \in 1..Len(sealed) |-> kept[i]]
    BY <1>1
  <2> HIDE DEF kept
  <2> QED BY <1>1, <1>2, <2>1
<1>4. sealed' = kept
  BY DEF CleanupExpiredCommitments
<1> QED BY <1>3, <1>4 DEF CleanupExpiredCommitments, TypeOK, LedgerTypeOK, PayoutTypeOK,
        ledgerVars, termVars

LEMMA ClosedStep ==
    ASSUME TypeOK, NEW i \in DOMAIN auctions, NEW state \in AuctionState,
           auctions' = [auctions EXCEPT ![i].state = state]
    PROVE  /\ AuctionsTyped' /\ Len(auctions') = Len(auctions)
           /\ DOMAIN auctions' = DOMAIN auctions
           /\ \A j \in DOMAIN auctions :
                 auctions'[j] = IF j = i THEN Closed(auctions[i], state) ELSE auctions[j]
<1>1. auctions' = [auctions EXCEPT ![i] = Closed(auctions[i], state)]
  BY DEF Closed, TypeOK
<1>2. Closed(auctions[i], state) \in Listing
  BY Tables, ClosedType
<1> QED BY <1>1, <1>2, Relisted

(* Calling off: the leader is repaid out of the purse.                     *)
LEMMA UndoType ==
    ASSUME TypeOK, NEW i \in DOMAIN auctions, Undo(i)
    PROVE  /\ TypeOK' /\ DOMAIN auctions' = DOMAIN auctions
           /\ \A j \in DOMAIN auctions :
                 /\ auctions'[j] = IF j = i THEN Closed(auctions[i], "Cancelled")
                                   ELSE auctions[j]
                 /\ bids'[j] = IF j = i THEN TickOff(i, auctions[i].highest_bidder)
                               ELSE bids[j]
           /\ bal'[Market] = bal[Market] - LeadersDeposit(i)
           /\ \A v \in User :
                 bal'[v] = bal[v] + Credit(v, auctions[i].highest_bidder, LeadersDeposit(i))
<1>1. /\ auctions[i] \in Listing /\ bal \in [Account -> Nat]
      /\ auctions[i].seller \in Account /\ "Cancelled" \in AuctionState
  BY Tables, ListingFields DEF TypeOK, LedgerTypeOK, Account, AuctionState
<1>2. /\ LeadersDeposit(i) \in Nat /\ bal' \in [Account -> Nat]
      /\ bal'[Market] = bal[Market] - LeadersDeposit(i)
      /\ \A v \in User : bal'[v] = bal[v] + Credit(v, auctions[i].highest_bidder,
                                                   LeadersDeposit(i))
  BY <1>1, LeaderPaid DEF Undo
<1>3. Give(owner, auctions[i].seller, {auctions[i].nft}) \in [NFT -> Account]
  BY <1>1, GiveType DEF TypeOK, LedgerTypeOK
<1>4. LedgerTypeOK' /\ PayoutTypeOK'
  BY <1>2, <1>3 DEF Undo, TypeOK, LedgerTypeOK, PayoutTypeOK, gateVars, termVars
<1>5. /\ AuctionsTyped' /\ Len(auctions') = Len(auctions)
      /\ DOMAIN auctions' = DOMAIN auctions
      /\ \A j \in DOMAIN auctions :
            auctions'[j] = IF j = i THEN Closed(auctions[i], "Cancelled") ELSE auctions[j]
  BY <1>1, ClosedStep DEF Undo
<1>6. /\ BooksTyped'
      /\ \A j \in DOMAIN auctions :
            bids'[j] = IF j = i THEN TickOff(i, auctions[i].highest_bidder) ELSE bids[j]
  <2>1. bids' = [bids EXCEPT ![i] = TickOff(i, auctions[i].highest_bidder)]
    BY DEF Undo
  <2>2. TickOff(i, auctions[i].highest_bidder) \in Seq(Bid)
    BY TickOffType
  <2> QED BY <1>5, <2>1, <2>2, Rebooked
<1>7. SealedTyped' /\ DutchTyped' /\ StrayTyped'
  BY <1>5, Untouched DEF Undo
<1>8. TypeOK'
  BY <1>4, <1>5, <1>6, <1>7, PartsPrimed
<1> QED BY <1>2, <1>5, <1>6, <1>8

(* The hammer: the purse pays out the leading bid.                         *)
LEMMA SoldType ==
    ASSUME TypeOK, NEW i \in DOMAIN auctions, NEW fee \in Fees, EndSold(i, fee)
    PROVE  /\ TypeOK' /\ DOMAIN auctions' = DOMAIN auctions
           /\ \A j \in DOMAIN auctions :
                 auctions'[j] = IF j = i THEN Closed(auctions[i], "Executed")
                                ELSE auctions[j]
           /\ bal'[Market] = bal[Market] - auctions[i].highest_bid
<1> DEFINE a == auctions[i]
           shares == SaleShares(a.nft, a.highest_bid, a.seller, fee)
<1>1. /\ a \in Listing /\ bal \in [Account -> Nat] /\ a.highest_bid \in Nat
      /\ a.highest_bidder \in User /\ a.highest_bidder \in Account /\ fee \in Int
      /\ "Executed" \in AuctionState /\ a.nft \in NFT /\ a.seller \in User
  BY Tables, ListingFields, PayoutAssumption
  DEF TypeOK, LedgerTypeOK, Account, AuctionState, EndSold, ReserveMet
<1>2. CanDistribute(bal, shares, a.highest_bid)
      /\ bal' = Distribute(bal, shares, a.highest_bid)
  BY DEF EndSold
<1>3. shares \in [User -> Int] /\ shares[recipient] \in Int
  <2>1. PayoutTypeOK /\ recipient \in User /\ a.highest_bid \in Int
    BY <1>1 DEF TypeOK, PayoutTypeOK
  <2> HIDE DEF a
  <2>2. shares \in [User -> Int]
    BY <1>1, <2>1, SaleSharesType
  <2> QED BY <2>1, <2>2
<1>4. volume' = [volume EXCEPT ![a.highest_bidder] = @ + shares[recipient]]
  BY DEF EndSold, RecordVolume
<1>5. auctions' = [auctions EXCEPT ![i].state = "Executed"]
      /\ owner' = Give(owner, a.highest_bidder, {a.nft})
  BY DEF EndSold
<1> HIDE DEF shares, a
<1>6. bal' \in [Account -> Nat]
  BY <1>1, <1>2, DistributeType
<1>7. bal'[Market] = bal[Market] - a.highest_bid
  BY <1>2, FiniteAccounts DEF Distribute
<1>8. owner' \in [NFT -> Account]
  BY <1>1, <1>5, GiveType DEF TypeOK, LedgerTypeOK
<1>9. volume' \in [User -> Int]
  BY <1>1, <1>3, <1>4 DEF TypeOK, PayoutTypeOK
<1>10. LedgerTypeOK' /\ PayoutTypeOK'
  BY <1>6, <1>8, <1>9 DEF EndSold, TypeOK, LedgerTypeOK, PayoutTypeOK, gateVars, termVars
<1>11. /\ AuctionsTyped' /\ Len(auctions') = Len(auctions)
       /\ DOMAIN auctions' = DOMAIN auctions
       /\ \A j \in DOMAIN auctions :
             auctions'[j] = IF j = i THEN Closed(auctions[i], "Executed") ELSE auctions[j]
  BY <1>1, <1>5, ClosedStep
<1>12. BooksTyped' /\ SealedTyped' /\ DutchTyped' /\ StrayTyped'
  BY <1>11, Untouched DEF EndSold
<1>13. TypeOK'
  BY <1>10, <1>11, <1>12, PartsPrimed
<1> QED BY <1>7, <1>11, <1>13 DEF a

LEMMA CancelType ==
    ASSUME TypeOK, NEW i \in DOMAIN auctions, NEW u \in User, CancelAuction(i, u)
    PROVE  /\ TypeOK' /\ DOMAIN auctions' = DOMAIN auctions
           /\ \A j \in DOMAIN auctions :
                 auctions'[j] = IF j = i THEN Closed(auctions[i], "Cancelled")
                                ELSE auctions[j]
<1>1. /\ AuctionsTyped' /\ Len(auctions') = Len(auctions)
      /\ DOMAIN auctions' = DOMAIN auctions
      /\ \A j \in DOMAIN auctions :
            auctions'[j] = IF j = i THEN Closed(auctions[i], "Cancelled") ELSE auctions[j]
  <2>1. "Cancelled" \in AuctionState
    BY DEF AuctionState
  <2> QED BY <2>1, ClosedStep DEF CancelAuction
<1>2. Give(owner, u, {auctions[i].nft}) \in [NFT -> Account]
  BY GiveType DEF TypeOK, LedgerTypeOK, Account
<1>3. LedgerTypeOK' /\ PayoutTypeOK'
  BY <1>2 DEF CancelAuction, TypeOK, LedgerTypeOK, PayoutTypeOK, gateVars, termVars
<1>4. BooksTyped' /\ SealedTyped' /\ DutchTyped'
  BY <1>1, Untouched DEF CancelAuction
<1>5. StrayTyped'
  <2>1. auctions[i].nft \in NFT
    BY Tables, ListingFields
  <2> QED BY <2>1 DEF CancelAuction, TypeOK, StrayTyped
<1>6. TypeOK'
  BY <1>1, <1>3, <1>4, <1>5, PartsPrimed
<1> QED BY <1>1, <1>6

(* A reading of the Dutch price.                                           *)
LEMMA ReadingType ==
    ASSUME TypeOK, NEW i \in DOMAIN auctions, GetDutchAuctionPrice(i)
    PROVE  /\ TypeOK'
           /\ \A j \in DOMAIN dutch :
                 dutch'[j] = IF j = i
                             THEN [current |-> TimeWeighted(dutch[i].updated,
                                                  auctions[i].end_time, dutch[i].current,
                                                  auctions[i].reserve),
                                   updated |-> now]
                             ELSE dutch[j]
<1> DEFINE price == TimeWeighted(dutch[i].updated, auctions[i].end_time,
                                 dutch[i].current, auctions[i].reserve)
           p == [current |-> price, updated |-> now]
<1>1. /\ dutch[i].updated \in Nat /\ dutch[i].current \in Nat /\ now \in Nat
      /\ auctions[i].end_time \in Nat /\ auctions[i].reserve \in Nat
      /\ i \in DOMAIN dutch /\ dutch \in Seq(Price)
  BY Tables, ListingFields DEF Price, TypeOK, LedgerTypeOK
<1>2. price \in Nat
  BY <1>1, PriceBetween
<1> HIDE DEF price
<1>3. p \in Price
  BY <1>1, <1>2 DEF Price
<1>4. dutch' = [dutch EXCEPT ![i] = p]
  BY DEF GetDutchAuctionPrice, price
<1> HIDE DEF p
<1>5. /\ dutch' \in Seq(Price) /\ Len(dutch') = Len(dutch)
      /\ \A j \in DOMAIN dutch : dutch'[j] = IF j = i THEN p ELSE dutch[j]
  BY <1>1, <1>3, <1>4, Replace
<1>6. TypeOK'
  BY <1>5 DEF GetDutchAuctionPrice, TypeOK, LedgerTypeOK, PayoutTypeOK, ledgerVars, termVars
<1> QED BY <1>5, <1>6 DEF p, price

LEMMA NextType ==
    ASSUME TypeOK, [Next]_vars
    PROVE  TypeOK'
<1>1. CASE BidNext
  BY <1>1, BidType, SealedBidType, RevealType, WithdrawType DEF BidNext
<1>2. CASE SellerNext
  <2>1. ASSUME NEW i \in DOMAIN auctions, NEW u \in User,
               CancelAuction(i, u) \/ CancelAuctionWithRefund(i, u)
        PROVE  TypeOK'
    BY <2>1, CancelType, UndoType DEF CancelAuctionWithRefund
  <2> QED BY <1>2, <2>1, CreateAuctionType DEF SellerNext
<1>3. CASE AnyoneNext
  BY <1>3, SoldType, UndoType, ReadingType, CleanupType DEF AnyoneNext, EndUnsold
<1>4. CASE Around
  <2>1. CASE Surroundings /\ UNCHANGED <<auctionVars, termVars, volume>>
    <3>1. LedgerTypeOK'
      BY <2>1, SurroundingsType DEF TypeOK
    <3> QED BY <2>1, <3>1 DEF TypeOK, PayoutTypeOK, auctionVars, termVars
  <2>2. CASE TermsNext /\ UNCHANGED auctionVars
    <3>1. LedgerTypeOK' /\ PayoutTypeOK'
      BY <2>2, TermsType DEF TypeOK
    <3> QED BY <2>2, <3>1 DEF TypeOK, auctionVars
  <2> QED BY <1>4, <2>1, <2>2 DEF Around
<1>5. CASE UNCHANGED vars
  BY <1>5 DEF vars, ledgerVars, auctionVars, termVars, TypeOK, LedgerTypeOK, PayoutTypeOK
<1> QED BY <1>1, <1>2, <1>3, <1>4, <1>5 DEF Next

LEMMA InitType == Init => TypeOK
BY InitTypes, AuctionAssumption DEF Init, TypeOK

(* Every reachable state of the auction engine is well typed, whatever the *)
(* sealed bids do.                                                         *)
THEOREM AuctionTypes == Spec => []TypeOK
BY InitType, NextType, PTL DEF Spec

-----------------------------------------------------------------------------
(* The stored Dutch price stays between its last value and the reserve.    *)

LEMMA ReadingStep ==
    ASSUME Next
    PROVE  \/ dutch' = dutch
           \/ \E i \in DOMAIN auctions : GetDutchAuctionPrice(i)
           \/ \E p : dutch' = Append(dutch, p)
<1>1. ASSUME NEW i \in DOMAIN auctions, NEW u \in User
      PROVE  /\ \A amount \in Amounts : PlaceBid(i, u, amount) => dutch' = dutch
             /\ \A amount, secret \in Amounts :
                   PlaceSealedBid(i, u, amount, secret) => dutch' = dutch
             /\ RevealBid(i, u) => dutch' = dutch
             /\ WithdrawLosingBid(i, u) => dutch' = dutch
             /\ CancelAuction(i, u) => dutch' = dutch
  <2>1. \A amount \in Amounts : PlaceBid(i, u, amount) => dutch' = dutch
    BY DEF PlaceBid
  <2>2. \A amount, secret \in Amounts :
            PlaceSealedBid(i, u, amount, secret) => dutch' = dutch
    BY DEF PlaceSealedBid
  <2>3. RevealBid(i, u) => dutch' = dutch
    BY DEF RevealBid
  <2> QED BY <2>1, <2>2, <2>3 DEF WithdrawLosingBid, CancelAuction
<1>2. \A i \in DOMAIN auctions : Undo(i) => dutch' = dutch
  BY DEF Undo
<1>3. \A i \in DOMAIN auctions, fee \in Fees : EndSold(i, fee) => dutch' = dutch
  BY DEF EndSold
<1>4. ASSUME NEW u \in User, NEW n \in NFT, NEW type \in Types, NEW starting \in Starts,
             NEW reserve \in Reserves, NEW d \in 1..MaxDuration,
             NEW increment \in Increments,
             CreateAuction(u, n, type, starting, reserve, d, increment)
      PROVE  \E p : dutch' = Append(dutch, p)
  <2>1. dutch' = Append(dutch, [current |-> starting, updated |-> now])
    BY <1>4 DEF CreateAuction
  <2> QED BY <2>1
<1>5. CASE BidNext
  BY <1>1, <1>5 DEF BidNext
<1>6. CASE SellerNext
  BY <1>1, <1>2, <1>4, <1>6 DEF SellerNext, CancelAuctionWithRefund
<1>7. CASE AnyoneNext
  BY <1>2, <1>3, <1>7 DEF AnyoneNext, EndUnsold, CleanupExpiredCommitments
<1>8. CASE Around
  BY <1>8 DEF Around, auctionVars
<1> QED BY <1>5, <1>6, <1>7, <1>8 DEF Next

(* The promise of DutchNeverOvershoots, of one stored price.               *)
ReadsFairly(old, new, a) ==
    /\ old.current >= a.reserve => Between(a.reserve, new.current, old.current)
    /\ old.current <= a.reserve => Between(old.current, new.current, a.reserve)
    /\ (new.updated >= a.end_time /\ new.updated > old.updated) =>
           new.current = a.reserve

LEMMA ReadingFair ==
    ASSUME TypeOK, [Next]_vars, NEW j \in DOMAIN dutch
    PROVE  ReadsFairly(dutch[j], dutch'[j], auctions[j])
<1>1. /\ j \in DOMAIN auctions /\ dutch \in Seq(Price) /\ now \in Nat
      /\ dutch[j].current \in Nat /\ dutch[j].updated \in Nat
      /\ auctions[j].reserve \in Nat /\ auctions[j].end_time \in Nat
  <2>1. j \in DOMAIN auctions
    BY DEF TypeOK
  <2> QED BY <2>1, Tables, ListingFields DEF TypeOK, LedgerTypeOK, Price
<1>2. ASSUME dutch'[j] = dutch[j] PROVE ReadsFairly(dutch[j], dutch'[j], auctions[j])
  BY <1>1, <1>2 DEF ReadsFairly, Between
<1>3. CASE dutch' = dutch
  BY <1>2, <1>3
<1>4. ASSUME NEW i \in DOMAIN auctions, GetDutchAuctionPrice(i)
      PROVE  ReadsFairly(dutch[j], dutch'[j], auctions[j])
  <2>1. CASE i # j
    BY <1>2, <1>4, <2>1, ReadingType
  <2>2. CASE i = j
    <3> DEFINE price == TimeWeighted(dutch[j].updated, auctions[j].end_time,
                                     dutch[j].current, auctions[j].reserve)
    <3>1. dutch'[j] = [current |-> price, updated |-> now]
      BY <1>4, <2>2, ReadingType
    <3>2. /\ price \in Nat
          /\ dutch[j].current >= auctions[j].reserve
                => Between(auctions[j].reserve, price, dutch[j].current)
          /\ dutch[j].current <= auctions[j].reserve
                => Between(dutch[j].current, price, auctions[j].reserve)
          /\ now > dutch[j].updated /\ now >= auctions[j].end_time
                => price = auctions[j].reserve
      BY <1>1, PriceBetween
    <3> HIDE DEF price
    <3> QED BY <3>1, <3>2 DEF ReadsFairly
  <2> QED BY <2>1, <2>2
<1>5. ASSUME NEW p, dutch' = Append(dutch, p)
      PROVE  ReadsFairly(dutch[j], dutch'[j], auctions[j])
  BY <1>1, <1>2, <1>5
<1>6. CASE UNCHANGED vars
  BY <1>3, <1>6 DEF vars, auctionVars
<1> QED BY <1>3, <1>4, <1>5, <1>6, ReadingStep

(* Reading the Dutch price never lets it overshoot, however often and      *)
(* whenever it is read (TimeWeighted, TowardsZero).                        *)
THEOREM DutchPriceBounded == Spec => DutchNeverOvershoots
<1>1. TypeOK /\ [Next]_vars =>
          [\A i \in DOMAIN dutch :
              LET old   == dutch[i].current
                  new   == dutch'[i].current
                  floor == auctions[i].reserve
              IN  /\ old >= floor => old >= new /\ new >= floor
                  /\ old <= floor => old <= new /\ new <= floor
                  /\ (dutch'[i].updated >= auctions[i].end_time
                      /\ dutch'[i].updated > dutch[i].updated) => new = floor]_vars
  <2> SUFFICES ASSUME TypeOK, [Next]_vars, NEW i \in DOMAIN dutch
               PROVE  LET old   == dutch[i].current
                          new   == dutch'[i].current
                          floor == auctions[i].reserve
                      IN  /\ old >= floor => old >= new /\ new >= floor
                          /\ old <= floor => old <= new /\ new <= floor
                          /\ (dutch'[i].updated >= auctions[i].end_time
                              /\ dutch'[i].updated > dutch[i].updated) => new = floor
    OBVIOUS
  <2> QED BY ReadingFair DEF ReadsFairly, Between
<1> QED BY <1>1, AuctionTypes, PTL DEF DutchNeverOvershoots, Spec

-----------------------------------------------------------------------------
(* The books.  Without sealed bids a book tells the whole story of its     *)
(* auction: no bid and no lead, or a leading bid that is the last on       *)
(* record, with every earlier one repaid; the leading bid itself is repaid *)
(* exactly when the auction is called off.  The purse is what the pending  *)
(* auctions' leading bids add up to.                                       *)

Balanced(a, book) ==
    /\ a.starting > 0
    /\ a.highest_bidder = None =>
          book = <<>> /\ a.highest_bid = 0 /\ a.state # "Executed"
    /\ a.highest_bidder # None =>
          /\ Len(book) > 0 /\ a.highest_bid >= a.starting
          /\ book[Len(book)].bidder = a.highest_bidder
          /\ book[Len(book)].amount = a.highest_bid
          /\ book[Len(book)].refunded = (a.state = "Cancelled")
          /\ \A k \in 1..(Len(book) - 1) : book[k].refunded

BookInv == \A i \in DOMAIN auctions : Balanced(auctions[i], bids[i])

Highest == [i \in DOMAIN auctions |-> auctions[i].highest_bid]
Purse   == SumFunctionOnSet(Highest, Pending)

(* All that is outstanding on a book is the leading bid.                   *)
LEMMA OnlyTheLead ==
    ASSUME TypeOK, NEW i \in DOMAIN auctions, Balanced(auctions[i], bids[i]), NEW u \in User
    PROVE  /\ Unrefunded(i, u) = IF Leads(i, u) /\ auctions[i].state # "Cancelled"
                                 THEN {Len(bids[i])} ELSE {}
           /\ Outstanding(i, u) = IF Leads(i, u) /\ auctions[i].state # "Cancelled"
                                  THEN auctions[i].highest_bid ELSE 0
<1> DEFINE amounts == [k \in DOMAIN bids[i] |-> bids[i][k].amount]
           last == Len(bids[i])
<1>1. /\ bids[i] \in Seq(Bid) /\ auctions[i].highest_bid \in Nat /\ u # None
      /\ DOMAIN bids[i] = 1..last /\ last \in Nat
      /\ \A k \in DOMAIN bids[i] : bids[i][k] \in Bid
  BY Tables, ListingFields, PayoutAssumption
<1>2. CASE Leads(i, u) /\ auctions[i].state # "Cancelled"
  <2>1. /\ last > 0 /\ bids[i][last].bidder = u /\ ~bids[i][last].refunded
        /\ bids[i][last].amount = auctions[i].highest_bid
        /\ \A k \in 1..(last - 1) : bids[i][k].refunded
    BY <1>1, <1>2 DEF Balanced, Leads
  <2>2. \A k \in DOMAIN bids[i] : k # last => k \in 1..(last - 1)
    BY <1>1
  <2>3. Unrefunded(i, u) = {last}
    BY <1>1, <2>1, <2>2 DEF Unrefunded
  <2>4. amounts[last] = auctions[i].highest_bid /\ amounts[last] \in Int
    BY <1>1, <2>1
  <2> HIDE DEF amounts, last
  <2>5. SumFunctionOnSet(amounts, {last}) = amounts[last]
    BY <2>4, SumSingleton
  <2> QED BY <1>2, <2>3, <2>4, <2>5 DEF Outstanding, amounts, last
<1>3. CASE ~(Leads(i, u) /\ auctions[i].state # "Cancelled")
  <2>1. ASSUME NEW k \in DOMAIN bids[i], bids[i][k].bidder = u, ~bids[i][k].refunded
        PROVE  FALSE
    <3>1. auctions[i].highest_bidder # None
      BY <1>1, <2>1 DEF Balanced
    <3>2. k = last
      BY <1>1, <2>1, <3>1 DEF Balanced
    <3> QED BY <1>3, <2>1, <3>1, <3>2 DEF Balanced, Leads
  <2>2. Unrefunded(i, u) = {}
    BY <2>1 DEF Unrefunded
  <2> QED BY <1>3, <2>2, SumEmpty DEF Outstanding
<1> QED BY <1>2, <1>3

LEMMA DepositIsLead ==
    ASSUME TypeOK, NEW i \in Pending, Balanced(auctions[i], bids[i])
    PROVE  LeadersDeposit(i) = auctions[i].highest_bid
<1>1. i \in DOMAIN auctions /\ auctions[i].state = "Pending"
  BY DEF Pending
<1>2. auctions[i].highest_bidder = None \/ auctions[i].highest_bidder \in User
  BY <1>1, Tables, ListingFields
<1>3. CASE auctions[i].highest_bidder = None
  BY <1>3 DEF LeadersDeposit, Balanced
<1>4. CASE auctions[i].highest_bidder # None
  BY <1>1, <1>2, <1>4, OnlyTheLead DEF LeadersDeposit, Leads
<1> QED BY <1>3, <1>4

(* How the purse follows the auctions.                                     *)
LEMMA PurseFacts ==
    ASSUME TypeOK
    PROVE  /\ IsFiniteSet(Pending) /\ Pending \subseteq DOMAIN auctions
           /\ \A i \in Pending : Highest[i] = auctions[i].highest_bid /\ Highest[i] \in Int
           /\ LeadingBids = Purse
           /\ Purse \in Int
<1> DEFINE f == [i \in Pending |-> auctions[i].highest_bid]
<1>1. IsFiniteSet(DOMAIN auctions)
  <2>1. DOMAIN auctions = 1..Len(auctions) /\ Len(auctions) \in Nat
    BY DEF TypeOK
  <2>2. IsFiniteSet(1..Len(auctions))
    BY <2>1, IndicesFinite, Zenon
  <2> QED BY <2>1, <2>2
<1>2. Pending \subseteq DOMAIN auctions /\ IsFiniteSet(Pending)
  BY <1>1, FS_Subset DEF Pending
<1>3. \A i \in Pending : /\ Highest[i] = auctions[i].highest_bid /\ Highest[i] \in Int
                         /\ f[i] = Highest[i]
  BY <1>2, Tables, ListingFields DEF Highest
<1>4. DOMAIN f = Pending
  OBVIOUS
<1> HIDE DEF f
<1>5. SumFunction(f) = SumFunctionOnSet(f, Pending)
  BY <1>4 DEF SumFunction, SumFunctionOnSet, FoldFunction
<1>6. SumFunctionOnSet(f, Pending) = SumFunctionOnSet(Highest, Pending)
  BY <1>2, <1>3, SumCong
<1>7. SumFunctionOnSet(Highest, Pending) \in Int
  BY <1>2, <1>3, SumInt
<1> QED BY <1>2, <1>3, <1>5, <1>6, <1>7 DEF Purse, LeadingBids, f

LEMMA PurseSame ==
    ASSUME TypeOK, Pending' = Pending,
           \A j \in Pending : auctions'[j].highest_bid = auctions[j].highest_bid,
           DOMAIN auctions \subseteq DOMAIN auctions'
    PROVE  Purse' = Purse
<1>1. IsFiniteSet(Pending) /\ \A j \in Pending : Highest[j] = Highest'[j]
  BY PurseFacts DEF Highest
<1>2. SumFunctionOnSet(Highest, Pending) = SumFunctionOnSet(Highest', Pending)
  BY <1>1, SumCong
<1> QED BY <1>2 DEF Purse

LEMMA PurseUpdate ==
    ASSUME TypeOK, TypeOK', Pending' = Pending, NEW i \in Pending,
           \A j \in Pending \ {i} : auctions'[j].highest_bid = auctions[j].highest_bid,
           DOMAIN auctions' = DOMAIN auctions
    PROVE  Purse' = Purse + (auctions'[i].highest_bid - auctions[i].highest_bid)
<1>1. /\ IsFiniteSet(Pending)
      /\ \A j \in Pending : Highest[j] \in Int /\ Highest'[j] \in Int
      /\ \A j \in Pending \ {i} : Highest'[j] = Highest[j]
      /\ Highest[i] = auctions[i].highest_bid /\ Highest'[i] = auctions'[i].highest_bid
  <2>1. \A j \in Pending : auctions'[j] \in Listing /\ j \in DOMAIN auctions'
    BY PurseFacts DEF TypeOK
  <2>2. \A j \in Pending : /\ Highest'[j] = auctions'[j].highest_bid
                           /\ auctions'[j].highest_bid \in Nat
    BY <2>1, ListingFields DEF Highest
  <2>3. IsFiniteSet(Pending)
        /\ \A j \in Pending : Highest[j] = auctions[j].highest_bid /\ Highest[j] \in Int
    BY PurseFacts
  <2> QED BY <2>2, <2>3
<1>2. SumFunctionOnSet(Highest', Pending)
          = SumFunctionOnSet(Highest, Pending) + (Highest'[i] - Highest[i])
  BY <1>1, SumUpdate
<1> QED BY <1>1, <1>2 DEF Purse

LEMMA PurseRemove ==
    ASSUME TypeOK, NEW i \in Pending, Pending' = Pending \ {i},
           \A j \in Pending \ {i} : auctions'[j] = auctions[j],
           DOMAIN auctions' = DOMAIN auctions
    PROVE  Purse' = Purse - auctions[i].highest_bid
<1> DEFINE rest == Pending \ {i}
<1>1. /\ IsFiniteSet(Pending) /\ IsFiniteSet(rest)
      /\ \A j \in Pending : Highest[j] \in Int
      /\ Highest[i] = auctions[i].highest_bid
  BY PurseFacts, FS_Subset
<1>2. \A j \in rest : Highest'[j] = Highest[j]
  BY PurseFacts DEF Highest
<1>3. SumFunctionOnSet(Highest, Pending) = Highest[i] + SumFunctionOnSet(Highest, rest)
  BY <1>1, SumRemove
<1>4. SumFunctionOnSet(Highest, rest) \in Int
  BY <1>1, SumInt
<1>5. Pending' = rest
  OBVIOUS
<1> HIDE DEF rest
<1>6. SumFunctionOnSet(Highest', rest) = SumFunctionOnSet(Highest, rest)
  BY <1>1, <1>2, SumCong
<1>7. Purse' = SumFunctionOnSet(Highest, rest)
  BY <1>5, <1>6 DEF Purse
<1>8. Purse = auctions[i].highest_bid + SumFunctionOnSet(Highest, rest)
      /\ auctions[i].highest_bid \in Int
  BY <1>1, <1>3 DEF Purse
<1> QED BY <1>4, <1>7, <1>8

LEMMA PurseAdd ==
    ASSUME TypeOK, NEW a, a.highest_bid = 0, auctions' = Append(auctions, a),
           a.state = "Pending"
    PROVE  Purse' = Purse
<1> DEFINE k == Len(auctions) + 1
<1>1. /\ k \notin Pending /\ Pending' = Pending \cup {k}
      /\ auctions'[k] = a /\ k \in DOMAIN auctions'
      /\ \A j \in DOMAIN auctions : auctions'[j] = auctions[j] /\ j \in DOMAIN auctions'
  BY DEF TypeOK, Pending
<1>2. IsFiniteSet(Pending) /\ \A j \in Pending : Highest'[j] = Highest[j] /\ Highest[j] \in Int
  BY <1>1, PurseFacts DEF Highest
<1>3. Highest'[k] = 0
  BY <1>1 DEF Highest
<1> HIDE DEF k
<1>4. SumFunctionOnSet(Highest', Pending \cup {k})
          = Highest'[k] + SumFunctionOnSet(Highest', Pending)
  BY <1>1, <1>2, <1>3, SumAdd
<1>5. SumFunctionOnSet(Highest', Pending) = SumFunctionOnSet(Highest, Pending)
  BY <1>2, SumCong
<1>6. Purse \in Int
  BY PurseFacts
<1> QED BY <1>1, <1>3, <1>4, <1>5, <1>6 DEF Purse

-----------------------------------------------------------------------------
(* Every operation keeps the books and the purse.                          *)

PaidFor == bal[Market] = Purse
Booked  == TypeOK /\ BookInv
IInv    == Booked /\ PaidFor

(* A call changes the contract's money by what it changes the purse.       *)
PurseFollows == bal'[Market] - bal[Market] = Purse' - Purse

LEMMA MoneyInts ==
    ASSUME Booked
    PROVE  bal[Market] \in Nat /\ Purse \in Int
BY PurseFacts, FiniteAccounts DEF Booked, TypeOK, LedgerTypeOK

LEMMA CreateBooks ==
    ASSUME Booked, NEW u \in User, NEW n \in NFT, NEW type \in Types,
           NEW starting \in Starts, NEW reserve \in Reserves, NEW d \in 1..MaxDuration,
           NEW increment \in Increments,
           CreateAuction(u, n, type, starting, reserve, d, increment)
    PROVE  BookInv' /\ PurseFollows
<1> DEFINE a == [seller |-> u, nft |-> n, type |-> type, starting |-> starting,
                 reserve |-> reserve, increment |-> increment, highest_bid |-> 0,
                 highest_bidder |-> None, end_time |-> now + d, state |-> "Pending"]
<1>1. /\ auctions' = Append(auctions, a) /\ bids' = Append(bids, <<>>) /\ bal' = bal
      /\ starting > 0
  BY DEF CreateAuction, ValidParams
<1>2. a.highest_bid = 0 /\ a.state = "Pending" /\ Balanced(a, <<>>)
  BY <1>1 DEF Balanced
<1> HIDE DEF a
<1>3. Purse' = Purse
  BY <1>1, <1>2, PurseAdd DEF Booked
<1>4. ASSUME NEW j \in DOMAIN auctions'
      PROVE  Balanced(auctions'[j], bids'[j])
  <2>1. auctions \in Seq(Listing) /\ bids \in Seq(Seq(Bid)) /\ Len(bids) = Len(auctions)
    BY DEF Booked, TypeOK
  <2>2. CASE j \in DOMAIN auctions
    BY <1>1, <2>1, <2>2 DEF Booked, BookInv
  <2>3. CASE j = Len(auctions) + 1
    BY <1>1, <1>2, <2>1, <2>3
  <2> QED BY <1>1, <2>1, <2>2, <2>3
<1>5. bal'[Market] - bal[Market] = Purse' - Purse
  BY <1>1, <1>3, MoneyInts
<1> QED BY <1>4, <1>5 DEF BookInv, PurseFollows

LEMMA BidBooks ==
    ASSUME Booked, NEW i \in DOMAIN auctions, NEW u \in User, NEW amount \in Amounts,
           PlaceBid(i, u, amount)
    PROVE  /\ BookInv' /\ PurseFollows /\ i \in Pending
           /\ LeadersDeposit(i) = auctions[i].highest_bid
<1> DEFINE a == auctions[i]
           b == Raised(a, u, amount)
           book == Append(TickOff(i, a.highest_bidder), NewBid(u, amount))
<1>1. /\ TypeOK /\ TypeOK' /\ DOMAIN auctions' = DOMAIN auctions
      /\ \A j \in DOMAIN auctions :
            /\ auctions'[j] = IF j = i THEN b ELSE auctions[j]
            /\ bids'[j] = IF j = i THEN book ELSE bids[j]
      /\ bal'[Market] = bal[Market] + amount - LeadersDeposit(i)
  BY BidType DEF Booked
<1>2. /\ amount \in Nat /\ now \in Nat /\ a \in Listing /\ bids[i] \in Seq(Bid)
      /\ a.highest_bid \in Nat /\ a.starting \in Nat /\ Balanced(a, bids[i])
      /\ bal[Market] \in Nat /\ u # None
  BY <1>1, AuctionAssumption, PayoutAssumption, Tables, ListingFields, FiniteAccounts
  DEF Booked, BookInv, TypeOK, LedgerTypeOK
<1>3. a.state = "Pending" /\ HighEnough(a, amount) /\ i \in Pending
  BY DEF PlaceBid, MayBid, Pending
<1>4. /\ b.starting = a.starting /\ b.state = a.state /\ b.highest_bid = amount
      /\ b.highest_bidder = u
  BY <1>2, RaisedType
<1>5. LeadersDeposit(i) = a.highest_bid
  BY <1>1, <1>2, <1>3, DepositIsLead
<1>6. amount >= a.starting /\ amount > 0 /\ amount > a.highest_bid
  BY <1>2, <1>3 DEF HighEnough, Balanced
<1>7. Balanced(b, book)
  <2> DEFINE ticked == TickOff(i, a.highest_bidder)
  <2>1. /\ ticked \in Seq(Bid) /\ Len(ticked) = Len(bids[i])
        /\ DOMAIN bids[i] = 1..Len(bids[i])
        /\ \A k \in DOMAIN bids[i] :
              ticked[k].refunded = (bids[i][k].refunded \/ bids[i][k].bidder = a.highest_bidder)
    BY <1>1, <1>2, TickOffType
  <2>2. /\ NewBid(u, amount) \in Bid /\ NewBid(u, amount).bidder = u
        /\ NewBid(u, amount).amount = amount /\ NewBid(u, amount).refunded = FALSE
    BY <1>2, NewBidType
  <2> HIDE DEF ticked, b, a
  <2>3. \A k \in 1..Len(bids[i]) : ticked[k].refunded
    <3>1. CASE a.highest_bidder = None
      BY <1>2, <3>1 DEF Balanced
    <3>2. CASE a.highest_bidder # None
      <4>1. \A k \in 1..Len(bids[i]) : k = Len(bids[i]) \/ k \in 1..(Len(bids[i]) - 1)
        BY <1>2
      <4> QED BY <1>2, <2>1, <3>2, <4>1 DEF Balanced
    <3> QED BY <3>1, <3>2
  <2>4. /\ Len(book) = Len(bids[i]) + 1 /\ book[Len(book)] = NewBid(u, amount)
        /\ \A k \in 1..Len(bids[i]) : book[k] = ticked[k]
        /\ Len(bids[i]) \in Nat
    BY <1>2, <2>1, <2>2 DEF ticked
  <2> HIDE DEF book
  <2>5. \A k \in 1..(Len(book) - 1) : book[k].refunded
    BY <2>3, <2>4
  <2>6. /\ Len(book) > 0 /\ book[Len(book)].bidder = u
        /\ book[Len(book)].amount = amount /\ ~book[Len(book)].refunded
    BY <2>2, <2>4
  <2>7. /\ b.starting > 0 /\ b.state # "Cancelled" /\ b.highest_bidder # None
        /\ b.highest_bid >= b.starting
    BY <1>2, <1>3, <1>4, <1>6 DEF Balanced
  <2>8. book[Len(book)].refunded = FALSE
    BY <2>2, <2>4
  <2> QED BY <1>4, <2>5, <2>6, <2>7, <2>8 DEF Balanced
<1> HIDE DEF b, book, a
<1>8. BookInv'
  BY <1>1, <1>7 DEF Booked, BookInv
<1>9. Pending' = Pending
  BY <1>1, <1>4 DEF Pending, a
<1>10. Purse' = Purse + (amount - a.highest_bid)
  <2>1. auctions'[i].highest_bid = amount
    BY <1>1, <1>4
  <2>2. \A j \in Pending \ {i} : auctions'[j].highest_bid = auctions[j].highest_bid
    BY <1>1 DEF Pending
  <2> QED BY <1>1, <1>3, <1>9, <2>1, <2>2, PurseUpdate DEF a
<1>11. PurseFollows
  BY <1>1, <1>2, <1>5, <1>10, MoneyInts DEF PurseFollows
<1> QED BY <1>3, <1>5, <1>8, <1>11 DEF a

LEMMA UndoBooks ==
    ASSUME Booked, NEW i \in Pending, Undo(i)
    PROVE  BookInv' /\ PurseFollows /\ LeadersDeposit(i) = auctions[i].highest_bid
<1> DEFINE a == auctions[i]
           b == Closed(a, "Cancelled")
           book == TickOff(i, a.highest_bidder)
<1>1. /\ TypeOK /\ i \in DOMAIN auctions /\ a \in Listing /\ bids[i] \in Seq(Bid)
      /\ Balanced(a, bids[i]) /\ a.highest_bid \in Nat /\ a.state = "Pending"
  BY Tables, ListingFields DEF Booked, BookInv, Pending
<1>2. /\ DOMAIN auctions' = DOMAIN auctions
      /\ \A j \in DOMAIN auctions :
            /\ auctions'[j] = IF j = i THEN b ELSE auctions[j]
            /\ bids'[j] = IF j = i THEN book ELSE bids[j]
      /\ bal'[Market] = bal[Market] - LeadersDeposit(i)
  BY <1>1, UndoType
<1>3. /\ b.starting = a.starting /\ b.state = "Cancelled" /\ b.highest_bid = a.highest_bid
      /\ b.highest_bidder = a.highest_bidder
  <2>1. "Cancelled" \in AuctionState
    BY DEF AuctionState
  <2> QED BY <1>1, <2>1, ClosedType
<1>4. LeadersDeposit(i) = a.highest_bid
  BY <1>1, DepositIsLead
<1>5. /\ book \in Seq(Bid) /\ Len(book) = Len(bids[i]) /\ Len(bids[i]) \in Nat
      /\ DOMAIN bids[i] = 1..Len(bids[i])
      /\ \A k \in DOMAIN bids[i] :
            /\ book[k].bidder = bids[i][k].bidder /\ book[k].amount = bids[i][k].amount
            /\ book[k].refunded = (bids[i][k].refunded \/ bids[i][k].bidder = a.highest_bidder)
  BY <1>1, TickOffType
<1> HIDE DEF a, b, book
<1>6. Balanced(b, book)
  <2>1. CASE a.highest_bidder = None
    <3>1. bids[i] = <<>>
      BY <1>1, <2>1 DEF Balanced
    <3>2. book = <<>>
      BY <1>5, <3>1
    <3> QED BY <1>1, <1>3, <2>1, <3>2 DEF Balanced
  <2>2. CASE a.highest_bidder # None
    <3> DEFINE last == Len(bids[i])
    <3>1. /\ last > 0 /\ bids[i][last].bidder = a.highest_bidder
          /\ bids[i][last].amount = a.highest_bid /\ a.highest_bid >= a.starting
          /\ a.starting > 0 /\ \A k \in 1..(last - 1) : bids[i][k].refunded
      BY <1>1, <2>2 DEF Balanced
    <3>2. last \in DOMAIN bids[i] /\ \A k \in 1..(last - 1) : k \in DOMAIN bids[i]
      BY <1>5, <3>1
    <3>3. /\ book[last].bidder = a.highest_bidder /\ book[last].amount = a.highest_bid
          /\ book[last].refunded = TRUE /\ \A k \in 1..(last - 1) : book[k].refunded
      BY <1>5, <3>1, <3>2
    <3> QED BY <1>3, <1>5, <2>2, <3>1, <3>3 DEF Balanced
  <2> QED BY <2>1, <2>2
<1>7. BookInv'
  BY <1>2, <1>6 DEF Booked, BookInv
<1>8. Pending' = Pending \ {i}
  BY <1>1, <1>2, <1>3 DEF Pending
<1>9. Purse' = Purse - a.highest_bid
  BY <1>1, <1>2, <1>8, PurseRemove DEF Pending, a
<1> QED BY <1>1, <1>2, <1>4, <1>7, <1>9, MoneyInts DEF PurseFollows, a

LEMMA SoldBooks ==
    ASSUME Booked, NEW i \in DOMAIN auctions, NEW fee \in Fees, EndSold(i, fee)
    PROVE  BookInv' /\ PurseFollows /\ i \in Pending
<1> DEFINE a == auctions[i]
           b == Closed(a, "Executed")
<1>1. /\ TypeOK /\ a \in Listing /\ bids[i] \in Seq(Bid) /\ Balanced(a, bids[i])
      /\ a.highest_bid \in Nat /\ a.state = "Pending" /\ i \in Pending
      /\ a.highest_bidder # None
  BY Tables, ListingFields DEF Booked, BookInv, Pending, EndSold, Endable, ReserveMet
<1>2. /\ DOMAIN auctions' = DOMAIN auctions
      /\ \A j \in DOMAIN auctions : auctions'[j] = IF j = i THEN b ELSE auctions[j]
      /\ bal'[Market] = bal[Market] - a.highest_bid
  BY <1>1, SoldType
<1>3. /\ b.starting = a.starting /\ b.state = "Executed" /\ b.highest_bid = a.highest_bid
      /\ b.highest_bidder = a.highest_bidder
  <2>1. "Executed" \in AuctionState
    BY DEF AuctionState
  <2> QED BY <1>1, <2>1, ClosedType
<1>4. bids' = bids
  BY DEF EndSold
<1> HIDE DEF a, b
<1>5. Balanced(b, bids[i])
  BY <1>1, <1>3 DEF Balanced
<1>6. BookInv'
  BY <1>2, <1>4, <1>5 DEF Booked, BookInv
<1>7. Pending' = Pending \ {i}
  BY <1>1, <1>2, <1>3 DEF Pending
<1>8. Purse' = Purse - a.highest_bid
  BY <1>1, <1>2, <1>7, PurseRemove DEF Pending, a
<1> QED BY <1>1, <1>2, <1>6, <1>8, MoneyInts DEF PurseFollows

(* Only an auction without a lead is cancelled this way.                   *)
LEMMA CancelBooks ==
    ASSUME Booked, NEW i \in DOMAIN auctions, NEW u \in User, CancelAuction(i, u)
    PROVE  BookInv' /\ PurseFollows /\ auctions[i].highest_bidder = None
<1> DEFINE a == auctions[i]
           b == Closed(a, "Cancelled")
<1>1. /\ TypeOK /\ a \in Listing /\ bids[i] \in Seq(Bid) /\ Balanced(a, bids[i])
      /\ a.highest_bid \in Nat /\ a.starting \in Nat /\ a.highest_bid <= 0
  BY Tables, ListingFields DEF Booked, BookInv, CancelAuction
<1>2. /\ DOMAIN auctions' = DOMAIN auctions
      /\ \A j \in DOMAIN auctions : auctions'[j] = IF j = i THEN b ELSE auctions[j]
  BY <1>1, CancelType
<1>3. /\ b.starting = a.starting /\ b.state = "Cancelled" /\ b.highest_bid = a.highest_bid
      /\ b.highest_bidder = a.highest_bidder
  <2>1. "Cancelled" \in AuctionState
    BY DEF AuctionState
  <2> QED BY <1>1, <2>1, ClosedType
<1>4. bids' = bids /\ bal' = bal
  BY DEF CancelAuction
<1> HIDE DEF a, b
<1>5. a.highest_bidder = None /\ a.highest_bid = 0
  BY <1>1 DEF Balanced
<1>6. Balanced(b, bids[i])
  BY <1>1, <1>3, <1>5 DEF Balanced
<1>7. BookInv'
  BY <1>2, <1>4, <1>6 DEF Booked, BookInv
<1>8. Pending' = Pending \ {i}
  BY <1>2, <1>3 DEF Pending
<1>9. Purse' = Purse
  <2>1. CASE i \in Pending
    <3>1. Purse' = Purse - a.highest_bid
      BY <1>1, <1>2, <1>8, <2>1, PurseRemove DEF Pending, a
    <3> QED BY <1>1, <1>5, <3>1, PurseFacts
  <2>2. CASE i \notin Pending
    <3>1. \A j \in Pending : auctions'[j] = auctions[j]
      BY <1>2, <2>2 DEF Pending
    <3> QED BY <1>1, <1>2, <1>8, <2>2, <3>1, PurseSame
  <2> QED BY <2>1, <2>2
<1> QED BY <1>4, <1>5, <1>7, <1>9, MoneyInts DEF PurseFollows, a

(* Nobody ever has a losing bid left to withdraw.                          *)
LEMMA NothingToWithdraw ==
    ASSUME Booked, NEW i \in DOMAIN auctions, NEW u \in User
    PROVE  ~WithdrawLosingBid(i, u)
<1>1. TypeOK /\ Balanced(auctions[i], bids[i]) /\ auctions[i].state \in AuctionState
  BY Tables, ListingFields DEF Booked, BookInv
<1>2. Unrefunded(i, u) = IF Leads(i, u) /\ auctions[i].state # "Cancelled"
                         THEN {Len(bids[i])} ELSE {}
  BY <1>1, OnlyTheLead
<1> QED BY <1>1, <1>2 DEF WithdrawLosingBid, Leads, AuctionState

LEMMA StillBooks ==
    ASSUME Booked, UNCHANGED <<auctions, bids>>, bal'[Market] = bal[Market]
    PROVE  BookInv' /\ PurseFollows
<1>1. Pending' = Pending /\ Highest' = Highest
  BY DEF Pending, Highest
<1>2. Purse' = Purse
  BY <1>1 DEF Purse
<1> QED BY <1>1, <1>2, MoneyInts DEF Booked, BookInv, PurseFollows

(* The operations, as far as bids are not sealed: each is one of these, or *)
(* leaves the auctions, their books and the purse as they are.             *)
Aside == UNCHANGED <<auctions, bids>> /\ bal'[Market] = bal[Market]

LEMMA OpenSteps ==
    ASSUME CommitReveal = FALSE, Booked, [Next]_vars
    PROVE  \/ \E u \in User, n \in NFT, type \in Types, starting \in Starts,
                 reserve \in Reserves, d \in 1..MaxDuration, increment \in Increments :
                     CreateAuction(u, n, type, starting, reserve, d, increment)
           \/ \E i \in DOMAIN auctions, u \in User, amount \in Amounts : PlaceBid(i, u, amount)
           \/ \E i \in Pending : Undo(i)
           \/ \E i \in DOMAIN auctions, fee \in Fees : EndSold(i, fee)
           \/ \E i \in DOMAIN auctions, u \in User : CancelAuction(i, u)
           \/ Aside
<1>1. CASE BidNext
  <2>1. \A i \in DOMAIN auctions, u \in User :
            /\ \A amount, secret \in Amounts : ~PlaceSealedBid(i, u, amount, secret)
            /\ ~RevealBid(i, u) /\ ~WithdrawLosingBid(i, u)
    BY NothingToWithdraw DEF PlaceSealedBid, RevealBid
  <2> QED BY <1>1, <2>1 DEF BidNext
<1>2. CASE SellerNext
  BY <1>2 DEF SellerNext, CancelAuctionWithRefund, Pending
<1>3. CASE AnyoneNext
  <2>1. CASE CleanupExpiredCommitments
    BY <2>1 DEF CleanupExpiredCommitments, ledgerVars, Aside
  <2>2. ASSUME NEW i \in DOMAIN auctions, GetDutchAuctionPrice(i)
        PROVE  Aside
    BY <2>2 DEF GetDutchAuctionPrice, ledgerVars, Aside
  <2>3. \A i \in DOMAIN auctions : EndUnsold(i) => i \in Pending /\ Undo(i)
    BY DEF EndUnsold, Endable, Pending
  <2> QED BY <1>3, <2>1, <2>2, <2>3 DEF AnyoneNext
<1>4. CASE Around
  <2>1. Surroundings => bal' = bal
    BY DEF Surroundings, Tick, TransferOutside, SetPause, SetBlocked
  <2>2. TermsNext => bal' = bal
    BY DEF TermsNext, SetRoyaltyInfo, SetFeeRecipient, ledgerVars
  <2> QED BY <1>4, <2>1, <2>2 DEF Around, auctionVars, Aside
<1>5. CASE UNCHANGED vars
  BY <1>5 DEF vars, ledgerVars, auctionVars, Aside
<1> QED BY <1>1, <1>2, <1>3, <1>4, <1>5 DEF Next

LEMMA BookedStep ==
    ASSUME CommitReveal = FALSE, Booked, [Next]_vars
    PROVE  Booked' /\ PurseFollows
<1>1. TypeOK'
  BY NextType DEF Booked
<1>2. BookInv' /\ PurseFollows
  BY OpenSteps, CreateBooks, BidBooks, UndoBooks, SoldBooks, CancelBooks, StillBooks
  DEF Aside
<1> QED BY <1>1, <1>2 DEF Booked

LEMMA PaidForStep ==
    ASSUME TypeOK, TypeOK', PaidFor, PurseFollows, Purse' \in Int
    PROVE  PaidFor'
<1>1. bal[Market] \in Nat /\ bal'[Market] \in Nat /\ Purse \in Int
  BY FiniteAccounts, PurseFacts DEF TypeOK, LedgerTypeOK
<1> QED BY <1>1 DEF PaidFor, PurseFollows

LEMMA InitBooks == Init => IInv
<1> SUFFICES ASSUME Init PROVE IInv
  OBVIOUS
<1>1. TypeOK
  BY InitType
<1>2. auctions = <<>> /\ DOMAIN auctions = {} /\ Pending = {}
  BY DEF Init, Pending
<1>3. bal[Market] = 0
  BY FiniteAccounts DEF Init, LedgerInit
<1>4. Purse = 0
  BY <1>2, SumEmpty DEF Purse
<1> QED BY <1>1, <1>2, <1>3, <1>4 DEF IInv, Booked, BookInv, PaidFor

LEMMA BookedAlways ==
    ASSUME CommitReveal = FALSE
    PROVE  Spec => []Booked
<1>1. Init => Booked
  BY InitBooks DEF IInv
<1> QED BY <1>1, BookedStep, PTL DEF Spec

LEMMA Invariant ==
    ASSUME CommitReveal = FALSE
    PROVE  Spec => []IInv
<1>1. Booked => Purse \in Int
  BY PurseFacts DEF Booked
<1>2. IInv /\ Booked' /\ (Purse \in Int)' /\ [Next]_vars => IInv'
  BY BookedStep, PaidForStep DEF IInv, Booked
<1> QED BY <1>1, <1>2, InitBooks, BookedAlways, PTL DEF Spec

LEMMA BooksAreBalanced ==
    ASSUME IInv
    PROVE  BooksBalance
<1>1. \A i \in DOMAIN auctions, u \in User :
          Outstanding(i, u) = IF Leads(i, u) /\ auctions[i].state # "Cancelled"
                              THEN auctions[i].highest_bid ELSE 0
  BY OnlyTheLead DEF IInv, Booked, BookInv
<1>2. bal[Market] = LeadingBids
  BY PurseFacts DEF IInv, Booked, PaidFor
<1> QED BY <1>1, <1>2 DEF BooksBalance

(* Without sealed bids (the contract ships with them switched off, and no  *)
(* entry point switches them on) the bid book, the lead and the contract's *)
(* purse agree, whatever is bid, displaced, called off or withdrawn.       *)
THEOREM AuctionBooks ==
    ASSUME CommitReveal = FALSE
    PROVE  Spec => []BooksBalance
<1>1. IInv => BooksBalance
  BY BooksAreBalanced
<1> QED BY <1>1, Invariant, PTL

-----------------------------------------------------------------------------
(* What the steps promise, of one auction.                                 *)

LEMMA CreateStill ==
    ASSUME TypeOK, NEW u, NEW n, NEW type, NEW starting, NEW reserve, NEW d, NEW increment,
           CreateAuction(u, n, type, starting, reserve, d, increment),
           NEW i \in DOMAIN auctions
    PROVE  auctions'[i] = auctions[i]
BY DEF CreateAuction, TypeOK

LEMMA LeaderRepaid ==
    ASSUME CommitReveal = FALSE, Booked, [Next]_vars, NEW i \in Pending, NEW u \in User,
           Leads(i, u), auctions'[i].highest_bidder # u \/ auctions'[i].state = "Cancelled"
    PROVE  bal'[u] = bal[u] + auctions[i].highest_bid
<1>1. /\ TypeOK /\ i \in DOMAIN auctions /\ auctions[i] \in Listing /\ now \in Nat
      /\ auctions[i].state = "Pending" /\ auctions[i].highest_bidder = u /\ u # None
      /\ bal[u] \in Nat /\ auctions[i].highest_bid \in Nat
  BY Tables, ListingFields, PayoutAssumption
  DEF Booked, Pending, Leads, TypeOK, LedgerTypeOK, Account
<1>2. auctions'[i] # auctions[i]
  BY <1>1
<1>3. ASSUME NEW j \in DOMAIN auctions, NEW v \in User, NEW amount \in Amounts,
             PlaceBid(j, v, amount)
      PROVE  bal'[u] = bal[u] + auctions[i].highest_bid
  <2>1. j = i /\ auctions'[i] = Raised(auctions[i], v, amount)
    BY <1>1, <1>2, <1>3, BidType
  <2>2. amount \in Nat
    BY AuctionAssumption
  <2>3. /\ Raised(auctions[i], v, amount).highest_bidder = v
        /\ Raised(auctions[i], v, amount).state = "Pending"
    <3>1. auctions[i] \in Listing /\ now \in Nat
      BY <1>1
    <3>2. /\ Raised(auctions[i], v, amount).highest_bidder = v
          /\ Raised(auctions[i], v, amount).state = auctions[i].state
      BY <2>2, <3>1, RaisedType
    <3> QED BY <1>1, <3>2
  <2>4. v # u
    BY <2>1, <2>3
  <2>5. bal'[u] = bal[u] - Credit(u, v, amount) + Credit(u, u, LeadersDeposit(i))
    BY <1>1, <1>3, <2>1, BidType
  <2>6. LeadersDeposit(i) = auctions[i].highest_bid
    BY <1>3, <2>1, BidBooks
  <2> QED BY <1>1, <2>4, <2>5, <2>6 DEF Credit
<1>4. ASSUME NEW j \in Pending, Undo(j)
      PROVE  bal'[u] = bal[u] + auctions[i].highest_bid
  <2>1. j \in DOMAIN auctions
    BY DEF Pending
  <2>2. j = i
    BY <1>1, <1>2, <1>4, <2>1, UndoType
  <2>3. bal'[u] = bal[u] + Credit(u, u, LeadersDeposit(i))
    BY <1>1, <1>4, <2>2, UndoType
  <2>4. LeadersDeposit(i) = auctions[i].highest_bid
    BY <1>4, <2>2, UndoBooks
  <2> QED BY <1>1, <2>3, <2>4 DEF Credit
<1>5. ASSUME NEW j \in DOMAIN auctions, NEW fee \in Fees, EndSold(j, fee)
      PROVE  FALSE
  <2>1. j = i /\ auctions'[i] = Closed(auctions[i], "Executed")
    BY <1>1, <1>2, <1>5, SoldType
  <2>2. "Executed" \in AuctionState
    BY DEF AuctionState
  <2>3. auctions'[i].highest_bidder = u /\ auctions'[i].state = "Executed"
    BY <1>1, <2>1, <2>2, ClosedType
  <2> QED BY <2>3
<1>6. ASSUME NEW j \in DOMAIN auctions, NEW v \in User, CancelAuction(j, v)
      PROVE  FALSE
  <2>1. j = i
    BY <1>1, <1>2, <1>6, CancelType
  <2> QED BY <1>1, <1>6, <2>1, CancelBooks
<1> QED BY <1>1, <1>2, <1>3, <1>4, <1>5, <1>6, OpenSteps, CreateStill DEF Aside

(* Losing costs nothing: whoever is displaced or called off is repaid the  *)
(* whole bid in that very call.                                            *)
THEOREM AuctionRefunds ==
    ASSUME CommitReveal = FALSE
    PROVE  Spec => LosersMadeWhole
<1>1. Booked /\ [Next]_vars =>
          [\A i \in Pending, u \in User :
              /\ Leads(i, u)
              /\ auctions'[i].highest_bidder # u \/ auctions'[i].state = "Cancelled"
              => bal'[u] = bal[u] + auctions[i].highest_bid]_vars
  BY LeaderRepaid
<1> QED BY <1>1, BookedAlways, PTL DEF LosersMadeWhole, Spec

LEMMA HammerStep ==
    ASSUME CommitReveal = FALSE, Booked, [Next]_vars, NEW i \in Pending,
           auctions'[i].state = "Executed"
    PROVE  /\ now > auctions[i].end_time
           /\ auctions[i].highest_bid >= auctions[i].reserve
           /\ auctions[i].highest_bid >= auctions[i].starting
           /\ owner'[auctions[i].nft] = auctions[i].highest_bidder
           /\ bal[Market] - bal'[Market] = auctions[i].highest_bid
<1>1. /\ TypeOK /\ i \in DOMAIN auctions /\ auctions[i] \in Listing /\ now \in Nat
      /\ auctions[i].state = "Pending" /\ bal[Market] \in Nat
      /\ auctions[i].highest_bid \in Nat /\ auctions[i].nft \in NFT
      /\ Balanced(auctions[i], bids[i])
  BY Tables, ListingFields, FiniteAccounts
  DEF Booked, BookInv, Pending, TypeOK, LedgerTypeOK
<1>2. auctions'[i].state # auctions[i].state
  BY <1>1
<1>3. PICK j \in DOMAIN auctions, fee \in Fees : EndSold(j, fee)
  <2>1. ASSUME NEW j \in DOMAIN auctions, NEW v \in User, NEW amount \in Amounts,
               PlaceBid(j, v, amount)
        PROVE  FALSE
    <3>1. j = i /\ auctions'[i] = Raised(auctions[i], v, amount)
      BY <1>1, <1>2, <2>1, BidType
    <3>2. amount \in Nat
      BY AuctionAssumption
    <3> QED BY <1>1, <1>2, <3>1, <3>2, RaisedType
  <2>2. "Cancelled" \in AuctionState
    BY DEF AuctionState
  <2>3. \A j \in Pending : ~Undo(j)
    <3> SUFFICES ASSUME NEW j \in Pending, Undo(j) PROVE FALSE
      OBVIOUS
    <3>1. j \in DOMAIN auctions
      BY DEF Pending
    <3>2. auctions'[i] = Closed(auctions[i], "Cancelled")
      BY <1>1, <1>2, <3>1, UndoType
    <3> QED BY <1>1, <2>2, <3>2, ClosedType
  <2>4. \A j \in DOMAIN auctions, v \in User : ~CancelAuction(j, v)
    <3> SUFFICES ASSUME NEW j \in DOMAIN auctions, NEW v \in User, CancelAuction(j, v)
                 PROVE  FALSE
      OBVIOUS
    <3>1. auctions'[i] = Closed(auctions[i], "Cancelled")
      BY <1>1, <1>2, CancelType
    <3> QED BY <1>1, <2>2, <3>1, ClosedType
  <2> QED BY <1>1, <1>2, <2>1, <2>3, <2>4, OpenSteps, CreateStill DEF Aside
<1>4. j = i
  BY <1>1, <1>2, <1>3, SoldType
<1>5. bal'[Market] = bal[Market] - auctions[i].highest_bid
  BY <1>1, <1>3, <1>4, SoldType
<1>6. now > auctions[i].end_time /\ ReserveMet(auctions[i])
      /\ owner' = Give(owner, auctions[i].highest_bidder, {auctions[i].nft})
  BY <1>3, <1>4 DEF EndSold, Endable
<1> QED BY <1>1, <1>5, <1>6 DEF ReserveMet, Balanced, Give

(* A sale happens after the closing time, to the leader, at the leading    *)
(* bid, which meets reserve and starting price, and pays out exactly it.   *)
THEOREM AuctionHammer ==
    ASSUME CommitReveal = FALSE
    PROVE  Spec => HammerIsFair
<1>1. Booked /\ [Next]_vars =>
          [\A i \in Pending : auctions'[i].state = "Executed" =>
              LET auction == auctions[i]
              IN  /\ now > auction.end_time
                  /\ auction.highest_bid >= auction.reserve
                  /\ auction.highest_bid >= auction.starting
                  /\ owner'[auction.nft] = auction.highest_bidder
                  /\ bal[Market] - bal'[Market] = auction.highest_bid]_vars
  BY HammerStep
<1> QED BY <1>1, BookedAlways, PTL DEF HammerIsFair, Spec

LEMMA ClosingStep ==
    ASSUME CommitReveal = FALSE, Booked, [Next]_vars, NEW i \in DOMAIN auctions
    PROVE  /\ auctions'[i].end_time >= auctions[i].end_time
           /\ auctions'[i].highest_bidder # auctions[i].highest_bidder =>
                 auctions'[i].end_time >= now + Window
<1>1. /\ TypeOK /\ auctions[i] \in Listing /\ now \in Nat /\ auctions[i].end_time \in Nat
  BY Tables, ListingFields DEF Booked, TypeOK, LedgerTypeOK
<1>2. ASSUME auctions'[i].end_time = auctions[i].end_time,
             auctions'[i].highest_bidder = auctions[i].highest_bidder
      PROVE  /\ auctions'[i].end_time >= auctions[i].end_time
             /\ auctions'[i].highest_bidder # auctions[i].highest_bidder =>
                   auctions'[i].end_time >= now + Window
  BY <1>1, <1>2
<1>3. ASSUME NEW state \in AuctionState, auctions'[i] = Closed(auctions[i], state)
      PROVE  /\ auctions'[i].end_time = auctions[i].end_time
             /\ auctions'[i].highest_bidder = auctions[i].highest_bidder
  BY <1>1, <1>3, ClosedType
<1>4. "Executed" \in AuctionState /\ "Cancelled" \in AuctionState
  BY DEF AuctionState
<1>5. ASSUME NEW j \in DOMAIN auctions, NEW v \in User, NEW amount \in Amounts,
             PlaceBid(j, v, amount)
      PROVE  /\ auctions'[i].end_time >= auctions[i].end_time
             /\ auctions'[i].highest_bidder # auctions[i].highest_bidder =>
                   auctions'[i].end_time >= now + Window
  <2>1. CASE j # i
    BY <1>1, <1>2, <1>5, <2>1, BidType
  <2>2. CASE j = i
    <3>1. auctions'[i] = Raised(auctions[i], v, amount)
      BY <1>1, <1>5, <2>2, BidType
    <3>2. amount \in Nat
      BY AuctionAssumption
    <3>3. auctions'[i].end_time = Extended(auctions[i].end_time)
      BY <1>1, <3>1, <3>2, RaisedType
    <3> QED BY <1>1, <3>3, ExtendedType
  <2> QED BY <2>1, <2>2
<1>6. ASSUME NEW j \in Pending, Undo(j)
      PROVE  auctions'[i] = auctions[i] \/ auctions'[i] = Closed(auctions[i], "Cancelled")
  <2>1. j \in DOMAIN auctions
    BY DEF Pending
  <2> QED BY <1>1, <1>6, <2>1, UndoType
<1>7. ASSUME NEW j \in DOMAIN auctions, NEW fee \in Fees, EndSold(j, fee)
      PROVE  auctions'[i] = auctions[i] \/ auctions'[i] = Closed(auctions[i], "Executed")
  BY <1>1, <1>7, SoldType
<1>8. ASSUME NEW j \in DOMAIN auctions, NEW v \in User, CancelAuction(j, v)
      PROVE  auctions'[i] = auctions[i] \/ auctions'[i] = Closed(auctions[i], "Cancelled")
  BY <1>1, <1>8, CancelType
<1> QED BY <1>1, <1>2, <1>3, <1>4, <1>5, <1>6, <1>7, <1>8, OpenSteps, CreateStill DEF Aside

(* Whenever the lead changes the auction stays open for another Window,    *)
(* and no call brings the closing time forward.                            *)
THEOREM AuctionAnswers ==
    ASSUME CommitReveal = FALSE
    PROVE  Spec => TimeToAnswer
<1>1. Booked /\ [Next]_vars =>
          [\A i \in DOMAIN auctions :
              /\ auctions'[i].end_time >= auctions[i].end_time
              /\ auctions'[i].highest_bidder # auctions[i].highest_bidder =>
                    auctions'[i].end_time >= now + Window]_vars
  BY ClosingStep
<1> QED BY <1>1, BookedAlways, PTL DEF TimeToAnswer, Spec

-----------------------------------------------------------------------------
(* The course of a lot: in time and while it is pending, bids raise it by  *)
(* at least the configured share, from the starting price on; it is closed *)
(* once, and what is closed stays as it is.                                *)
Outbids(old, new) ==
    /\ old.state = "Pending" /\ now <= old.end_time
    /\ new = Raised(old, new.highest_bidder, new.highest_bid)
    /\ new.highest_bidder \in User
    /\ new.highest_bid > old.highest_bid /\ new.highest_bid >= old.starting
    /\ new.highest_bid >= old.highest_bid + (old.highest_bid * MinIncrementBps) \div Basis

Course(old, new) ==
    \/ new = old
    \/ Outbids(old, new)
    \/ old.state = "Pending" /\ \E s \in {"Executed", "Cancelled"} : new = Closed(old, s)

LotsTakeTheirCourse == [][\A i \in DOMAIN auctions : Course(auctions[i], auctions'[i])]_vars

LEMMA CourseStep ==
    ASSUME CommitReveal = FALSE, Booked, [Next]_vars, NEW i \in DOMAIN auctions
    PROVE  Course(auctions[i], auctions'[i])
<1>1. /\ TypeOK /\ auctions[i] \in Listing /\ now \in Nat
      /\ auctions[i].highest_bid \in Nat /\ auctions[i].starting \in Nat
      /\ auctions[i].highest_bidder \in SomeUser /\ auctions[i].state \in AuctionState
      /\ Balanced(auctions[i], bids[i])
  BY Tables, ListingFields DEF Booked, BookInv, TypeOK, LedgerTypeOK
<1>2. ASSUME NEW j \in DOMAIN auctions, NEW v \in User, NEW amount \in Amounts,
             PlaceBid(j, v, amount)
      PROVE  Course(auctions[i], auctions'[i])
  <2>1. CASE j # i
    BY <1>1, <1>2, <2>1, BidType DEF Course
  <2>2. CASE j = i
    <3>1. auctions'[i] = Raised(auctions[i], v, amount) /\ amount \in Nat
      BY <1>1, <1>2, <2>2, BidType, AuctionAssumption
    <3>2. auctions'[i].highest_bid = amount /\ auctions'[i].highest_bidder = v
      BY <1>1, <3>1, RaisedType
    <3>3. /\ auctions[i].state = "Pending" /\ now <= auctions[i].end_time
          /\ HighEnough(auctions[i], amount)
      BY <1>2, <2>2 DEF PlaceBid, MayBid
    <3>4. amount > auctions[i].highest_bid
      BY <3>3 DEF HighEnough
    <3>5. /\ amount >= auctions[i].starting
          /\ amount >= auctions[i].highest_bid
                       + (auctions[i].highest_bid * MinIncrementBps) \div Basis
      <4>1. CASE auctions[i].highest_bid > 0
        <5>1. auctions[i].highest_bidder # None
          BY <1>1, <4>1 DEF Balanced
        <5> QED BY <1>1, <3>1, <3>3, <3>4, <4>1, <5>1 DEF HighEnough, Balanced
      <4>2. CASE auctions[i].highest_bid = 0
        <5>1. (0 * MinIncrementBps) \div Basis = 0
          BY AuctionAssumption DEF Basis
        <5> QED BY <1>1, <3>1, <3>3, <4>2, <5>1 DEF HighEnough
      <4> QED BY <1>1, <4>1, <4>2
    <3> QED BY <3>1, <3>2, <3>3, <3>4, <3>5 DEF Course, Outbids
  <2> QED BY <2>1, <2>2
<1>3. ASSUME NEW j \in Pending, Undo(j) PROVE Course(auctions[i], auctions'[i])
  BY <1>1, <1>3, UndoType DEF Course, Pending
<1>4. ASSUME NEW j \in DOMAIN auctions, NEW fee \in Fees, EndSold(j, fee)
      PROVE  Course(auctions[i], auctions'[i])
  BY <1>1, <1>4, SoldType DEF Course, EndSold, Endable
<1>5. ASSUME NEW j \in DOMAIN auctions, NEW v \in User, CancelAuction(j, v)
      PROVE  Course(auctions[i], auctions'[i])
  <2>1. auctions'[i] = IF j = i THEN Closed(auctions[i], "Cancelled") ELSE auctions[i]
    BY <1>1, <1>5, CancelType
  <2>2. j = i => auctions[i].state # "Executed"
    BY <1>1, <1>5 DEF CancelAuction, Balanced
  <2>3. auctions[i].state = "Cancelled" => Closed(auctions[i], "Cancelled") = auctions[i]
    BY <1>1 DEF Closed, Listing
  <2> QED BY <1>1, <2>1, <2>2, <2>3 DEF Course, AuctionState
<1>6. auctions'[i] = auctions[i] => Course(auctions[i], auctions'[i])
  BY DEF Course
<1> QED BY <1>1, <1>2, <1>3, <1>4, <1>5, <1>6, OpenSteps, CreateStill DEF Aside

(* Without sealed bids a lot changes only by a bid in time that beats the  *)
(* lead by the configured share and the starting price, or by being closed *)
(* once; a closed one never changes again, even if it is cancelled twice   *)
(* (invariants M3, M10 and M14 of CONTRACT_INVARIANTS.md, and M11 with     *)
(* min_bid_increment_bps in place of the auction's bid_increment).         *)
THEOREM AuctionCourse ==
    ASSUME CommitReveal = FALSE
    PROVE  Spec => LotsTakeTheirCourse
<1>1. Booked /\ [Next]_vars =>
          [\A i \in DOMAIN auctions : Course(auctions[i], auctions'[i])]_vars
  BY CourseStep
<1> QED BY <1>1, BookedAlways, PTL DEF LotsTakeTheirCourse, Spec

-----------------------------------------------------------------------------
(* The refinement: lots implement Escrow.  Bids, sealed or not, leave the  *)
(* lots alone; cancelling what is already closed calls a claim.            *)

Lot(i) == [deal |-> <<"auction", i>>, item |-> auctions[i].nft, from |-> auctions[i].seller]

LEMMA EscrowVars ==
    /\ E!vars = <<owner, Lots, Ended, Claims, strayed>>
    /\ Lots = {Lot(i) : i \in Pending}
    /\ Claims = {Lot(i) : i \in DOMAIN auctions \ Pending}
    /\ \A i \in Pending : E!Of(<<"auction", i>>) = {Lot(i)}
<1>1. /\ Lots = {Lot(i) : i \in Pending}
      /\ Claims = {Lot(i) : i \in DOMAIN auctions \ Pending}
  BY DEF Lots, Claims, LotsOf, Lot
<1>2. ASSUME NEW i \in Pending PROVE E!Of(<<"auction", i>>) = {Lot(i)}
  <2>1. \A j : Lot(j).deal = <<"auction", j>>
    BY DEF Lot
  <2>2. \A j : <<"auction", i>> = <<"auction", j>> => i = j
    OBVIOUS
  <2> QED BY <1>1, <2>1, <2>2 DEF E!Of
<1> QED BY <1>1, <1>2 DEF E!vars

LEMMA LotDealsAre ==
    /\ \A i \in 1..MaxAuctions : <<"auction", i>> \in LotDeals
    /\ \A i \in DOMAIN auctions : <<"auction", i>> \in Ended => i \notin Pending
    /\ \A i : <<"auction", i>> \in Ended => i \in DOMAIN auctions
BY DEF LotDeals, Ended

LEMMA LotsStill ==
    ASSUME DOMAIN auctions' = DOMAIN auctions,
           \A j \in DOMAIN auctions : /\ auctions'[j].seller = auctions[j].seller
                                      /\ auctions'[j].nft = auctions[j].nft
                                      /\ auctions'[j].state = auctions[j].state
    PROVE  /\ Lots' = Lots /\ Ended' = Ended /\ Claims' = Claims
           /\ owner' = owner /\ strayed' = strayed => UNCHANGED E!vars
<1>1. Pending' = Pending /\ \A j \in DOMAIN auctions : Lot(j)' = Lot(j)
  BY DEF Pending, Lot
<1>2. Lots' = Lots /\ Ended' = Ended /\ Claims' = Claims
  BY <1>1 DEF Lots, Claims, LotsOf, Lot, Ended, Pending
<1> QED BY <1>2 DEF E!vars

LEMMA LotDeposited ==
    ASSUME TypeOK, NEW u \in User, NEW n \in NFT, NEW type \in Types,
           NEW starting \in Starts, NEW reserve \in Reserves, NEW d \in 1..MaxDuration,
           NEW increment \in Increments,
           CreateAuction(u, n, type, starting, reserve, d, increment)
    PROVE  E!Next
<1>1. Len(auctions) + 1 \in Nat /\ auctions \in Seq(Listing)
  BY DEF TypeOK
<1>2. PICK k \in Nat : k = Len(auctions) + 1
  BY <1>1
<1> DEFINE lot == [deal |-> <<"auction", k>>, item |-> n, from |-> u]
<1>3. k \in 1..MaxAuctions /\ k \notin DOMAIN auctions
  BY <1>1, <1>2, AuctionAssumption DEF CreateAuction
<1>4. /\ DOMAIN auctions' = DOMAIN auctions \cup {k}
      /\ auctions'[k].seller = u /\ auctions'[k].nft = n /\ auctions'[k].state = "Pending"
      /\ \A j \in DOMAIN auctions : auctions'[j] = auctions[j]
  BY <1>1, <1>2 DEF CreateAuction
<1>5. Pending' = Pending \cup {k} /\ Pending \subseteq DOMAIN auctions
  BY <1>3, <1>4 DEF Pending
<1>6. Lot(k)' = lot /\ \A j \in DOMAIN auctions : Lot(j)' = Lot(j)
  BY <1>4, <1>5 DEF Lot
<1> HIDE DEF lot
<1>7. Lots' = Lots \cup {lot} /\ Claims' = Claims
  <2>1. DOMAIN auctions' \ Pending' = DOMAIN auctions \ Pending
    BY <1>3, <1>4, <1>5
  <2> QED BY <1>5, <1>6, <2>1 DEF Lots, Claims, LotsOf, Lot
<1>8. Ended' = Ended /\ <<"auction", k>> \notin Ended
  BY <1>3, <1>4, <1>5 DEF Ended
<1>9. owner' = Give(owner, Market, {n}) /\ OwnsAll(owner, u, {n}) /\ strayed' = strayed
  BY DEF CreateAuction
<1>10. E!Deposit(<<"auction", k>>, u, {n})
  <2>1. {[deal |-> <<"auction", k>>, item |-> m, from |-> u] : m \in {n}} = {lot}
    BY DEF lot
  <2> QED BY <1>7, <1>8, <1>9, <2>1 DEF E!Deposit, Give, OwnsAll
<1>11. <<"auction", k>> \in LotDeals
  BY <1>3, LotDealsAre
<1> QED BY <1>10, <1>11 DEF E!Next

LEMMA LotEnds ==
    ASSUME TypeOK, TypeOK', NEW i \in Pending, NEW state \in {"Executed", "Cancelled"},
           NEW to \in User, DOMAIN auctions' = DOMAIN auctions,
           \A j \in DOMAIN auctions :
               auctions'[j] = IF j = i THEN Closed(auctions[i], state) ELSE auctions[j],
           owner' = Give(owner, to, {auctions[i].nft}), strayed' = strayed
    PROVE  E!Next
<1> DEFINE give == [p \in User |-> to]
<1>1. /\ i \in DOMAIN auctions /\ auctions[i] \in Listing /\ state \in AuctionState
      /\ auctions[i].nft \in NFT /\ auctions[i].seller \in User
  BY Tables, ListingFields DEF Pending, AuctionState
<1>2. auctions'[i].state = state
  BY <1>1, ClosedType
<1>3. Pending' = Pending \ {i} /\ Pending \subseteq DOMAIN auctions
  BY <1>1, <1>2 DEF Pending
<1>4. \A j \in DOMAIN auctions : Lot(j)' = Lot(j)
  <2>1. auctions'[i].nft = auctions[i].nft /\ auctions'[i].seller = auctions[i].seller
    BY <1>1, ClosedType
  <2> QED BY <2>1 DEF Lot
<1>5. Lots' = Lots \ {Lot(i)} /\ Claims' = Claims \cup {Lot(i)}
  <2>1. DOMAIN auctions' \ Pending' = (DOMAIN auctions \ Pending) \cup {i}
    BY <1>1, <1>3
  <2>2. Lots' = Lots \ {Lot(i)}
    BY <1>3, <1>4 DEF Lots, LotsOf, Lot
  <2>3. Claims' = Claims \cup {Lot(i)}
    <3>1. Claims = {Lot(j) : j \in DOMAIN auctions \ Pending}
      BY DEF Claims, LotsOf, Lot
    <3>2. Claims' = {Lot(j)' : j \in DOMAIN auctions' \ Pending'}
      BY DEF Claims, LotsOf, Lot
    <3>3. {Lot(j)' : j \in DOMAIN auctions' \ Pending'}
          = {Lot(j) : j \in (DOMAIN auctions \ Pending) \cup {i}}
      BY <1>1, <1>4, <2>1
    <3> QED BY <3>1, <3>2, <3>3
  <2> QED BY <2>2, <2>3
<1>6. Ended' = Ended \cup {<<"auction", i>>} /\ <<"auction", i>> \notin Ended
  BY <1>1, <1>3 DEF Ended
<1>7. owner' \in [NFT -> Account] /\ owner'[auctions[i].nft] = to
      /\ \A n \in NFT \ {auctions[i].nft} : owner'[n] = owner[n]
  BY <1>1 DEF Give, TypeOK, LedgerTypeOK
<1>8. give \in [User -> User] /\ give[Lot(i).from] = to /\ Lot(i).item = auctions[i].nft
  BY <1>1 DEF Lot
<1>9. i \in 1..MaxAuctions
  BY <1>1, AuctionAssumption DEF TypeOK
<1> HIDE DEF give
<1> DEFINE d == <<"auction", i>>
<1>10. E!ItemsOf(E!Of(d)) = {auctions[i].nft}
  BY <1>8, EscrowVars DEF E!ItemsOf
<1>11. E!End(d, give)
  <2>1. E!Of(d) = {Lot(i)}
    BY EscrowVars
  <2>2. \A h \in E!Of(d) : owner'[h.item] = give[h.from]
    BY <1>7, <1>8, <2>1
  <2>3. \A n \in NFT \ E!ItemsOf(E!Of(d)) : owner'[n] = owner[n]
    BY <1>7, <1>10
  <2>4. Lots' = Lots \ E!Of(d) /\ Claims' = Claims \cup E!Of(d)
    BY <1>5, <2>1
  <2> QED BY <1>6, <1>7, <2>2, <2>3, <2>4 DEF E!End, Account
<1>12. d \in LotDeals
  BY <1>9, LotDealsAre
<1> QED BY <1>8, <1>11, <1>12 DEF E!Next

(* A second cancellation: the seller calls the claim that is left.         *)
LEMMA LotStrays ==
    ASSUME TypeOK, NEW i \in DOMAIN auctions, NEW u \in User, CancelAuction(i, u),
           i \notin Pending
    PROVE  E!Next
<1>1. /\ auctions[i].nft \in NFT /\ auctions[i].seller = u
      /\ auctions[i].state \in AuctionState /\ owner \in [NFT -> Account]
  BY Tables, ListingFields DEF CancelAuction, TypeOK, LedgerTypeOK
<1>2. /\ owner[auctions[i].nft] = Market /\ owner' = [owner EXCEPT ![auctions[i].nft] = u]
      /\ strayed' = strayed \cup {auctions[i].nft}
  <2>1. owner' = Give(owner, u, {auctions[i].nft})
    BY DEF CancelAuction
  <2>2. owner' = [owner EXCEPT ![auctions[i].nft] = u]
    BY <1>1, <2>1 DEF Give
  <2> QED BY <2>2 DEF CancelAuction, OwnsAll, Pending
<1>3. /\ DOMAIN auctions' = DOMAIN auctions
      /\ \A j \in DOMAIN auctions :
            auctions'[j] = IF j = i THEN Closed(auctions[i], "Cancelled") ELSE auctions[j]
  BY CancelType
<1>4. /\ auctions'[i].seller = auctions[i].seller /\ auctions'[i].nft = auctions[i].nft
      /\ auctions'[i].state = "Cancelled"
  <2>1. auctions[i] \in Listing /\ "Cancelled" \in AuctionState
    BY Tables DEF AuctionState
  <2> QED BY <1>3, <2>1, ClosedType
<1>5. Pending' = Pending /\ \A j \in DOMAIN auctions : Lot(j)' = Lot(j)
  BY <1>3, <1>4 DEF Pending, Lot
<1>6. Lots' = Lots /\ Ended' = Ended /\ Claims' = Claims
  <2>1. Pending \subseteq DOMAIN auctions
    BY DEF Pending
  <2>2. Lots' = Lots
    BY <1>5, <2>1 DEF Lots, LotsOf, Lot
  <2>3. Claims' = Claims
    BY <1>3, <1>5 DEF Claims, LotsOf, Lot
  <2> QED BY <1>3, <1>5, <2>2, <2>3 DEF Ended
<1>7. Lot(i) \in Claims /\ Lot(i).item = auctions[i].nft /\ Lot(i).from = u
  BY <1>1, EscrowVars DEF Lot
<1>8. E!Stray(Lot(i))
  BY <1>2, <1>6, <1>7 DEF E!Stray
<1>9. Lot(i) \in E!Holding
  <2>1. i \in 1..MaxAuctions
    BY AuctionAssumption DEF TypeOK
  <2> QED BY <1>1, <2>1, LotDealsAre DEF E!Holding, Lot
<1> QED BY <1>8, <1>9 DEF E!Next

LEMMA NextRefines ==
    ASSUME TypeOK, TypeOK', [Next]_vars
    PROVE  E!Next \/ UNCHANGED E!vars
<1>1. ASSUME auctions' = auctions, owner' = owner, strayed' = strayed PROVE UNCHANGED E!vars
  BY <1>1, LotsStill
<1>2. ASSUME NEW i \in Pending, Undo(i) PROVE E!Next
  <2>1. i \in DOMAIN auctions /\ auctions[i].seller \in User
    BY Tables, ListingFields DEF Pending
  <2>2. owner' = Give(owner, auctions[i].seller, {auctions[i].nft}) /\ strayed' = strayed
    BY <1>2 DEF Undo
  <2> QED BY <1>2, <2>1, <2>2, UndoType, LotEnds
<1>3. CASE BidNext
  <2>1. ASSUME NEW i \in DOMAIN auctions, NEW u \in User, NEW amount \in Amounts,
               PlaceBid(i, u, amount)
        PROVE  UNCHANGED E!vars
    <3>1. auctions[i] \in Listing /\ now \in Nat /\ amount \in Nat
      BY Tables, AuctionAssumption DEF TypeOK, LedgerTypeOK
    <3>2. /\ Raised(auctions[i], u, amount).seller = auctions[i].seller
          /\ Raised(auctions[i], u, amount).nft = auctions[i].nft
          /\ Raised(auctions[i], u, amount).state = auctions[i].state
      BY <3>1, RaisedType
    <3>3. owner' = owner /\ strayed' = strayed
      BY <2>1 DEF PlaceBid
    <3> QED BY <2>1, <3>2, <3>3, BidType, LotsStill
  <2>2. ASSUME NEW i \in DOMAIN auctions, NEW u \in User,
               \/ \E amount, secret \in Amounts : PlaceSealedBid(i, u, amount, secret)
               \/ RevealBid(i, u)
        PROVE  UNCHANGED E!vars
    <3>1. auctions[i] \in Listing /\ auctions \in Seq(Listing)
      BY Tables DEF TypeOK
    <3>2. PICK a : /\ auctions' = [auctions EXCEPT ![i] = a]
                   /\ a.seller = auctions[i].seller /\ a.nft = auctions[i].nft
                   /\ a.state = auctions[i].state
      <4>1. ASSUME NEW amount \in Amounts, NEW secret \in Amounts,
                   PlaceSealedBid(i, u, amount, secret)
            PROVE  auctions' = [auctions EXCEPT ![i] =
                       [auctions[i] EXCEPT !.end_time = Extended(@)]]
        BY <3>1, <4>1 DEF PlaceSealedBid
      <4>2. ASSUME RevealBid(i, u)
            PROVE  auctions' = [auctions EXCEPT ![i] =
                       [auctions[i] EXCEPT !.highest_bid = sealed[i][u].amount,
                                           !.highest_bidder = u]]
        BY <3>1, <4>2 DEF RevealBid
      <4> QED BY <2>2, <3>1, <4>1, <4>2 DEF Listing
    <3>3. owner' = owner /\ strayed' = strayed
      BY <2>2 DEF PlaceSealedBid, RevealBid
    <3> QED BY <3>1, <3>2, <3>3, LotsStill
  <2>3. ASSUME NEW i \in DOMAIN auctions, NEW u \in User, WithdrawLosingBid(i, u)
        PROVE  UNCHANGED E!vars
    BY <1>1, <2>3 DEF WithdrawLosingBid
  <2> QED BY <1>3, <2>1, <2>2, <2>3 DEF BidNext
<1>4. CASE SellerNext
  <2>1. ASSUME NEW i \in DOMAIN auctions, NEW u \in User, CancelAuction(i, u)
        PROVE  E!Next
    <3>1. CASE i \in Pending
      <4>1. owner' = Give(owner, u, {auctions[i].nft}) /\ strayed' = strayed
        BY <2>1, <3>1 DEF CancelAuction, Pending
      <4> QED BY <2>1, <3>1, <4>1, CancelType, LotEnds
    <3> QED BY <2>1, <3>1, LotStrays
  <2>2. ASSUME NEW i \in DOMAIN auctions, NEW u \in User, CancelAuctionWithRefund(i, u)
        PROVE  E!Next
    BY <1>2, <2>2 DEF CancelAuctionWithRefund, Pending
  <2> QED BY <1>4, <2>1, <2>2, LotDeposited DEF SellerNext
<1>5. CASE AnyoneNext
  <2>1. ASSUME NEW i \in DOMAIN auctions, NEW fee \in Fees, EndSold(i, fee)
        PROVE  E!Next
    <3>1. /\ i \in Pending /\ strayed' = strayed
          /\ owner' = Give(owner, auctions[i].highest_bidder, {auctions[i].nft})
      BY <2>1 DEF EndSold, Endable, Pending
    <3>2. auctions[i].highest_bidder \in User
      BY <2>1, Tables, ListingFields DEF EndSold, ReserveMet
    <3> QED BY <2>1, <3>1, <3>2, SoldType, LotEnds
  <2>2. ASSUME NEW i \in DOMAIN auctions, EndUnsold(i)
        PROVE  E!Next
    BY <1>2, <2>2 DEF EndUnsold, Endable, Pending
  <2>3. ASSUME \/ CleanupExpiredCommitments
               \/ \E i \in DOMAIN auctions : GetDutchAuctionPrice(i)
        PROVE  UNCHANGED E!vars
    BY <1>1, <2>3 DEF CleanupExpiredCommitments, GetDutchAuctionPrice, ledgerVars
  <2> QED BY <1>5, <2>1, <2>2, <2>3 DEF AnyoneNext
<1>6. CASE Around
  <2>1. auctions' = auctions /\ strayed' = strayed
    BY <1>6 DEF Around, auctionVars
  <2>2. ASSUME NEW n \in NFT, NEW u \in User, TransferOutside(n, u)
        PROVE  E!Next
    <3>1. Lots' = Lots /\ Ended' = Ended /\ Claims' = Claims
      BY <2>1, LotsStill
    <3>2. E!Elsewhere(n, u)
      BY <2>1, <2>2, <3>1 DEF E!Elsewhere, TransferOutside
    <3> QED BY <3>2 DEF E!Next
  <2>3. CASE owner' = owner
    BY <1>1, <2>1, <2>3
  <2> QED BY <1>6, <2>2, <2>3 DEF Around, Surroundings, Tick, SetPause, SetBlocked,
          TermsNext, SetRoyaltyInfo, SetFeeRecipient, ledgerVars
<1>7. CASE UNCHANGED vars
  BY <1>1, <1>7 DEF vars, ledgerVars, auctionVars
<1> QED BY <1>3, <1>4, <1>5, <1>6, <1>7 DEF Next

(* The lots of the auctions implement the escrow, with everything a seller *)
(* may call: a lot enters from its owner and leaves, once, with the end of *)
(* its own auction, to its seller or to the winner.  The one call that     *)
(* takes a lot out of an auction that goes on is its seller's claim from   *)
(* an earlier auction of the same token, which is closed.                  *)
THEOREM AuctionImplementsEscrow == Spec => ImplementsEscrow
<1>1. Init => TypeOK /\ E!Init
  BY InitType DEF Init, LedgerInit, E!Init, Pending, Lots, Claims, LotsOf, Ended
<1>2. TypeOK /\ [Next]_vars => TypeOK' /\ [E!Next]_(E!vars)
  BY NextType, NextRefines
<1> QED BY <1>1, <1>2, PTL DEF Spec, ImplementsEscrow, E!Spec

-----------------------------------------------------------------------------
(* The promise keeps custody.                                              *)
InCustody == Accounted(LotDeals, owner, Lots, Ended, strayed)

LEMMA CustodyIs == InCustody => E!Custody /\ E!EndedHoldsNothing
BY DEF InCustody, Accounted, E!Custody, E!EndedHoldsNothing

LEMMA CustodyStarts == E!Init => InCustody
<1> SUFFICES ASSUME E!Init PROVE InCustody
  OBVIOUS
<1>1. owner \in [NFT -> User] /\ Lots = {} /\ Ended = {} /\ strayed = {}
  BY DEF E!Init
<1> QED BY <1>1, NothingHeld DEF InCustody

LEMMA CustodyStep == InCustody /\ [E!Next]_(E!vars) => InCustody'
<1> SUFFICES ASSUME InCustody, [E!Next]_(E!vars)
             PROVE  Accounted(LotDeals, owner', Lots', Ended', strayed')
  BY DEF InCustody, Accounted, Account
<1>1. ASSUME NEW d \in LotDeals, NEW p \in User, NEW S \in SUBSET NFT, E!Deposit(d, p, S)
      PROVE  Accounted(LotDeals, owner', Lots', Ended', strayed')
  <2>1. /\ d \notin Ended /\ Ended' = Ended /\ \A n \in S : owner[n] = p
        /\ owner' = [n \in NFT |-> IF n \in S THEN Market ELSE owner[n]]
        /\ Lots' = Lots \cup {[deal |-> d, item |-> n, from |-> p] : n \in S}
        /\ strayed' = strayed
    BY <1>1 DEF E!Deposit
  <2>2. d \in LotDeals \ Ended /\ Accounted(LotDeals, owner, Lots, Ended, strayed)
    BY <2>1 DEF InCustody
  <2> DEFINE deals == LotDeals
             more  == {[deal |-> d, item |-> n, from |-> p] : n \in S}
  <2>3. /\ d \in deals \ Ended /\ Accounted(deals, owner, Lots, Ended, strayed)
        /\ Lots' = Lots \cup more /\ more = {[deal |-> d, item |-> n, from |-> p] : n \in S}
    BY <2>1, <2>2
  <2> HIDE DEF deals
  <2>4. Accounted(deals, owner', Lots', Ended, strayed)
    BY ONLY <2>1, <2>3, DepositAccounted, p \in User, S \in SUBSET NFT
  <2> QED BY <2>1, <2>4 DEF deals
<1>2. ASSUME NEW d \in LotDeals, NEW to \in [User -> User], E!End(d, to)
      PROVE  Accounted(LotDeals, owner', Lots', Ended', strayed')
  <2>1. /\ owner' \in [NFT -> Account] /\ \A h \in HeldFor(Lots, d) : owner'[h.item] = to[h.from]
        /\ \A n \in NFT \ {h.item : h \in HeldFor(Lots, d)} : owner'[n] = owner[n]
        /\ Lots' = Lots \ HeldFor(Lots, d) /\ Ended' = Ended \cup {d}
        /\ strayed' = strayed
    BY <1>2 DEF E!End, E!Of, E!ItemsOf, Account, HeldFor
  <2> QED BY <2>1, EndAccounted DEF InCustody
<1>3. ASSUME NEW n \in NFT, NEW p \in User, E!Elsewhere(n, p)
      PROVE  Accounted(LotDeals, owner', Lots', Ended', strayed')
  <2>1. /\ owner[n] # Market /\ owner' = [owner EXCEPT ![n] = p]
        /\ Lots' = Lots /\ Ended' = Ended /\ strayed' = strayed
    BY <1>3 DEF E!Elsewhere
  <2> QED BY <2>1, ElsewhereAccounted DEF InCustody
<1>4. ASSUME NEW h \in E!Holding, E!Stray(h)
      PROVE  Accounted(LotDeals, owner', Lots', Ended', strayed')
  <2>1. /\ owner' = [owner EXCEPT ![h.item] = h.from] /\ strayed' = strayed \cup {h.item}
        /\ Lots' = Lots /\ Ended' = Ended
    BY <1>4 DEF E!Stray
  <2>2. h.item \in NFT /\ h.from \in User
    BY <1>4 DEF E!Holding
  <2> QED BY <2>1, <2>2, StrayAccounted DEF InCustody
<1>5. CASE UNCHANGED E!vars
  <2>1. owner' = owner /\ Lots' = Lots /\ Ended' = Ended /\ strayed' = strayed
    BY <1>5 DEF E!vars
  <2> QED BY <2>1 DEF InCustody
<1> QED BY <1>1, <1>2, <1>3, <1>4, <1>5 DEF E!Next

(* The lots a seller's claim has not been called on are with the contract. *)
LotsKept == \A i \in Pending : auctions[i].nft \notin strayed => owner[auctions[i].nft] = Market

(* What the escrow guarantees carries over, whatever the bids, sealed or   *)
(* not, and with sellers free to cancel closed auctions: of the tokens     *)
(* never taken out by such a second cancellation the contract holds just   *)
(* the lots of the pending auctions, each for one auction.                 *)
THEOREM AuctionCustody == Spec => [](LotsKept /\ E!Custody /\ E!EndedHoldsNothing)
<1>1. Spec => E!Spec
  BY AuctionImplementsEscrow DEF ImplementsEscrow
<1>2. InCustody => LotsKept
  <2> SUFFICES ASSUME InCustody, NEW i \in Pending, auctions[i].nft \notin strayed
               PROVE  owner[auctions[i].nft] = Market
    BY DEF LotsKept
  <2>1. Lot(i) \in Lots /\ Lot(i).item = auctions[i].nft
    BY EscrowVars DEF Lot
  <2> QED BY <2>1 DEF InCustody, Accounted
<1> QED BY <1>1, <1>2, CustodyIs, CustodyStarts, CustodyStep, PTL DEF E!Spec

-----------------------------------------------------------------------------
(* What ending an auction asks of the contract's records and holdings,     *)
(* beyond the pause and the closing time.  For a lot that has strayed the  *)
(* money is there all the same.                                            *)
PendingServed ==
    \A i \in Pending :
        LET auction == auctions[i]
            leader  == auction.highest_bidder
        IN  /\ auction.nft \notin strayed => OwnsAll(owner, Market, {auction.nft})
            /\ leader # None =>
                  /\ Unrefunded(i, leader) # {}
                  /\ \A fee \in Fees :
                        CanDistribute(bal, SaleShares(auction.nft, auction.highest_bid,
                                                      auction.seller, fee),
                                      auction.highest_bid)
            /\ CanPay(bal, Market, LeadersDeposit(i))

LEMMA PurseCovers ==
    ASSUME IInv, NEW i \in Pending
    PROVE  CanPay(bal, Market, auctions[i].highest_bid)
<1>1. /\ IsFiniteSet(Pending) /\ bal[Market] = Purse
      /\ Highest[i] = auctions[i].highest_bid
  BY PurseFacts DEF IInv, Booked, PaidFor
<1>2. \A j \in Pending : Highest[j] \in Nat
  BY Tables, ListingFields DEF IInv, Booked, Pending, Highest
<1>3. Highest[i] <= SumFunctionOnSet(Highest, Pending)
  BY <1>1, <1>2, SumAtLeast
<1>4. SumFunctionOnSet(Highest, Pending) \in Nat
  BY <1>1, <1>2, SumNat
<1> QED BY <1>1, <1>2, <1>3, <1>4 DEF CanPay, Purse

LEMMA EndingServed ==
    ASSUME IInv, LotsKept
    PROVE  PendingServed
<1> SUFFICES ASSUME NEW i \in Pending
             PROVE  LET auction == auctions[i]
                        leader  == auction.highest_bidder
                    IN  /\ auction.nft \notin strayed =>
                              OwnsAll(owner, Market, {auction.nft})
                        /\ leader # None =>
                              /\ Unrefunded(i, leader) # {}
                              /\ \A fee \in Fees :
                                    CanDistribute(bal,
                                        SaleShares(auction.nft, auction.highest_bid,
                                                   auction.seller, fee),
                                        auction.highest_bid)
                        /\ CanPay(bal, Market, LeadersDeposit(i))
  BY DEF PendingServed
<1> DEFINE auction == auctions[i]
<1>1. /\ TypeOK /\ PayoutTypeOK /\ i \in DOMAIN auctions /\ Balanced(auction, bids[i])
      /\ auction.state = "Pending" /\ auction.nft \in NFT /\ auction.seller \in User
      /\ auction.highest_bid \in Nat
      /\ auction.highest_bidder # None => auction.highest_bidder \in User
  BY Tables, ListingFields DEF IInv, Booked, BookInv, Pending, TypeOK
<1>2. CanPay(bal, Market, auction.highest_bid) /\ LeadersDeposit(i) = auction.highest_bid
  BY <1>1, PurseCovers, DepositIsLead
<1>3. auction.nft \notin strayed => OwnsAll(owner, Market, {auction.nft})
  BY DEF LotsKept, OwnsAll
<1>4. auction.highest_bidder # None => Unrefunded(i, auction.highest_bidder) # {}
  BY <1>1, OnlyTheLead DEF Leads
<1>5. ASSUME NEW fee \in Fees
      PROVE  CanDistribute(bal, SaleShares(auction.nft, auction.highest_bid,
                                           auction.seller, fee), auction.highest_bid)
  <2> DEFINE shares == SaleShares(auction.nft, auction.highest_bid, auction.seller, fee)
  <2>1. fee \in Int
    BY PayoutAssumption
  <2> HIDE DEF auction
  <2>2. shares \in Shares /\ SumFunctionOnSet(shares, User) = auction.highest_bid
    BY <1>1, <2>1, SaleSharesAddUp
  <2> HIDE DEF shares
  <2>3. SumFunction(shares) = auction.highest_bid
    BY <2>2 DEF SumFunction, Shares
  <2>4. CanDistribute(bal, shares, auction.highest_bid)
    BY <1>2, <2>2, <2>3 DEF CanDistribute
  <2> QED BY <2>4 DEF shares, auction
<1> QED BY <1>2, <1>3, <1>4, <1>5

(* Without sealed bids, whatever royalties, fees and fee recipients have   *)
(* become, whatever other auctions are open and however often sellers      *)
(* cancel: the leading bid of a pending auction can be paid out in full    *)
(* for any fee, and can be paid back, and its lot can be handed over,      *)
(* unless the seller's second cancellation of an earlier auction has taken *)
(* it.                                                                     *)
THEOREM AuctionServes ==
    ASSUME CommitReveal = FALSE
    PROVE  Spec => []PendingServed
<1>1. IInv /\ LotsKept => PendingServed
  BY EndingServed
<1> QED BY <1>1, Invariant, AuctionCustody, PTL

-----------------------------------------------------------------------------
(* The whole contract.  The other kinds of deal have their lemmas in       *)
(* SettlementProofs; they are cited here for the tables they share the     *)
(* contract with.                                                          *)

LEMMA SettleConstants ==
    /\ Market \notin User /\ Settle!IsFiniteSet(User) /\ MaxTime \in Nat /\ Funds \in Nat
    /\ PauseInfos \subseteq Settle!PauseInfo /\ BlockSets \subseteq SUBSET User
    /\ None \notin User \cup {Market} /\ Fees \subseteq Int
    /\ RoyaltyBps \subseteq 0..Settle!MaxRoyaltyBps
    /\ Recipients \subseteq User /\ Recipients # {}
    /\ Prices \subseteq Nat /\ MaxDealTime \in Nat
    /\ MaxSales \in Nat /\ MaxTrades \in Nat /\ MaxBundles \in Nat /\ AllowRescue \in BOOLEAN
<1>1. Settle!IsFiniteSet(User)
  BY LedgerAssumption, Zenon DEF Settle!IsFiniteSet, IsFiniteSet
<1> QED BY <1>1, LedgerAssumption, PayoutAssumption, MarketAssumption
       DEF PauseInfo, Settle!PauseInfo, ModuleName, Settle!ModuleName,
           MaxRoyaltyBps, Settle!MaxRoyaltyBps

(* The types of what both share are the same.                              *)
SharedTyped == LedgerTypeOK /\ PayoutTypeOK
TablesTyped == AuctionsTyped /\ BooksTyped /\ SealedTyped /\ DutchTyped /\ StrayTyped
DealsTyped  ==
    /\ Settle!SalesTyped /\ Settle!TradesTyped /\ Settle!BundlesTyped
    /\ emergency \in BOOLEAN /\ Settle!FundedHasBoth

MarketTyped == SharedTyped /\ TablesTyped /\ DealsTyped

LEMMA SharedTypes ==
    /\ Settle!LedgerTypeOK /\ Settle!PayoutTypeOK <=> SharedTyped
    /\ (Settle!LedgerTypeOK /\ Settle!PayoutTypeOK)' <=> SharedTyped'
BY DEF SharedTyped, LedgerTypeOK, PayoutTypeOK, Account, PauseInfo, ModuleName, Royalty,
       SomeUser, MaxRoyaltyBps, Settle!LedgerTypeOK, Settle!PayoutTypeOK, Settle!Account,
       Settle!PauseInfo, Settle!ModuleName, Settle!Royalty, Settle!SomeUser,
       Settle!MaxRoyaltyBps

LEMMA MarketTypeParts ==
    /\ MarketTyped => TypeOK /\ Settle!IInv /\ Settle!TypeOK
    /\ MarketTyped' => TypeOK' /\ Settle!IInv' /\ Settle!TypeOK'
    /\ Settle!TypeOK' => SharedTyped' /\ Settle!SalesTyped' /\ Settle!TradesTyped'
                         /\ Settle!BundlesTyped' /\ emergency' \in BOOLEAN
    /\ TypeOK' => SharedTyped' /\ TablesTyped'
    /\ TypeOK /\ Settle!IInv => MarketTyped
BY SharedTypes
DEF MarketTyped, SharedTyped, TablesTyped, DealsTyped, TypeOK, AuctionsTyped, BooksTyped,
    SealedTyped, DutchTyped, StrayTyped, Settle!IInv, Settle!TypeOK, Settle!SalesTyped,
    Settle!TradesTyped, Settle!BundlesTyped

LEMMA MarketInitTypes == MarketInit => MarketTyped
BY InitType, SettleConstants, Settle!InitInv, MarketTypeParts DEF MarketInit

LEMMA MarketTypeStep == MarketTyped /\ [MarketNext]_marketVars => MarketTyped'
<1> SUFFICES ASSUME MarketTyped, [MarketNext]_marketVars PROVE MarketTyped'
  OBVIOUS
<1>1. TypeOK /\ Settle!IInv /\ TablesTyped /\ DealsTyped /\ SharedTyped
  BY MarketTypeParts DEF MarketTyped
<1>2. UNCHANGED auctionVars => TablesTyped'
  BY <1>1 DEF auctionVars, TablesTyped, AuctionsTyped, BooksTyped, SealedTyped, DutchTyped,
              StrayTyped
<1>3. UNCHANGED dealTables => DealsTyped'
  BY <1>1 DEF dealTables, DealsTyped, Settle!SalesTyped, Settle!TradesTyped,
       Settle!BundlesTyped, Settle!FundedHasBoth
<1>4. CASE Settle!Next /\ UNCHANGED auctionVars
  <2>1. Settle!TypeOK'
    BY <1>1, <1>4, SettleConstants, Settle!NextType
  <2>2. Settle!FundedHasBoth'
    BY <1>1, <1>4, <2>1, SettleConstants, Settle!FundedStep DEF Settle!IInv
  <2> QED BY <1>2, <1>4, <2>1, <2>2, MarketTypeParts DEF MarketTyped, DealsTyped
<1>5. CASE Next /\ UNCHANGED dealTables
  <2>1. TypeOK'
    BY <1>1, <1>5, NextType
  <2> QED BY <1>3, <1>5, <2>1, MarketTypeParts DEF MarketTyped
<1>6. CASE UNCHANGED marketVars
  <2>1. SharedTyped'
    BY <1>1, <1>6 DEF SharedTyped, LedgerTypeOK, PayoutTypeOK, marketVars, ledgerVars, termVars
  <2> QED BY <1>2, <1>3, <1>6, <2>1 DEF MarketTyped, marketVars
<1> QED BY <1>4, <1>5, <1>6 DEF MarketNext

(* Type correctness of the whole contract, whether or not the emergency    *)
(* hatch is ever opened, bids are sealed or auctions cancelled twice.      *)
THEOREM MarketTypes == MarketSpec => [](TypeOK /\ Settle!TypeOK)
<1>1. MarketTyped => TypeOK /\ Settle!TypeOK
  BY MarketTypeParts
<1> QED BY <1>1, MarketInitTypes, MarketTypeStep, PTL DEF MarketSpec

-----------------------------------------------------------------------------
(* One promise about items.  What one kind of deal does is, for the whole  *)
(* custodian, the same deposit, end or movement elsewhere: its deals are   *)
(* not of the other kinds, and the other kinds' stay as they are.          *)

HeldNow  == Settle!escrow \cup Lots
EndedNow == Settle!ended \cup Ended
AllDeals == Settle!Deals \cup LotDeals

LEMMA KindsApart ==
    /\ \A d \in LotDeals : d \notin Settle!Deals
    /\ \A h \in Settle!escrow : h.deal \in Settle!Deals /\ h.deal \notin LotDeals
    /\ \A h \in Lots : h.deal \notin Settle!Deals
    /\ \A d \in Settle!ended : d \in Settle!Deals
    /\ \A d \in Ended : d \notin Settle!Deals
<1>1. \A d \in Settle!Deals : d[1] \in {"sale", "trade", "bundle"}
  BY DEF Settle!Deals
<1>2. \A i : <<"auction", i>> \notin Settle!Deals
  BY <1>1
<1>3. \A d \in LotDeals : d \notin Settle!Deals
  BY <1>1 DEF LotDeals
<1>4. \A h \in Settle!escrow : h.deal \in Settle!Deals
  <2> SUFFICES ASSUME NEW h \in Settle!escrow PROVE h.deal \in Settle!Deals
    OBVIOUS
  <2>1. PICK d \in Settle!Deals : h \in Settle!Holds(d)
    BY DEF Settle!escrow
  <2> QED BY <2>1, SettleConstants, Settle!HoldsOwn
<1>5. \A d \in Settle!ended : d \in Settle!Deals
  BY DEF Settle!ended
<1>6. \A h \in Lots : h.deal \notin Settle!Deals
  BY <1>2 DEF Lots, LotsOf
<1>7. \A d \in Ended : d \notin Settle!Deals
  BY <1>2 DEF Ended
<1> QED BY <1>3, <1>4, <1>5, <1>6, <1>7

LEMMA SettleLifts ==
    ASSUME Settle!E!Next \/ UNCHANGED Settle!E!vars,
           Lots' = Lots, Ended' = Ended, Claims' = Claims, strayed' = strayed
    PROVE  Custodian!Next \/ UNCHANGED Custodian!vars
<1>1. ASSUME NEW d \in Settle!Deals, NEW p \in User, NEW T \in SUBSET NFT,
             Settle!E!Deposit(d, p, T)
      PROVE  Custodian!Next
  <2>1. Custodian!Deposit(d, p, T)
    BY <1>1, KindsApart DEF Settle!E!Deposit, Custodian!Deposit
  <2> QED BY <2>1 DEF Custodian!Next
<1>2. ASSUME NEW d \in Settle!Deals, NEW to \in [User -> User], Settle!E!End(d, to)
      PROVE  Custodian!Next
  <2>1. Custodian!Of(d) = Settle!E!Of(d)
    BY KindsApart DEF Custodian!Of, Settle!E!Of
  <2>2. Custodian!ItemsOf(Custodian!Of(d)) = Settle!E!ItemsOf(Settle!E!Of(d))
    BY <2>1 DEF Custodian!ItemsOf, Settle!E!ItemsOf
  <2>3. \A h \in Lots : h \notin Settle!E!Of(d)
    BY KindsApart DEF Settle!E!Of
  <2>4. Custodian!End(d, to)
    <3>1. d \notin Settle!ended \cup Ended
      BY <1>2, KindsApart DEF Settle!E!End
    <3>2. (Settle!escrow \cup Lots)' = (Settle!escrow \cup Lots) \ Custodian!Of(d)
      BY <1>2, <2>1, <2>3 DEF Settle!E!End
    <3>3. (Settle!ended \cup Ended)' = (Settle!ended \cup Ended) \cup {d}
      BY <1>2 DEF Settle!E!End
    <3> QED BY <1>2, <2>1, <2>2, <3>1, <3>2, <3>3 DEF Settle!E!End, Custodian!End
  <2> QED BY <2>4 DEF Custodian!Next
<1>3. ASSUME NEW n \in NFT, NEW p \in User, Settle!E!Elsewhere(n, p)
      PROVE  Custodian!Next
  <2>1. Custodian!Elsewhere(n, p)
    BY <1>3 DEF Settle!E!Elsewhere, Custodian!Elsewhere
  <2> QED BY <2>1 DEF Custodian!Next
<1>4. UNCHANGED Settle!E!vars => UNCHANGED Custodian!vars
  BY DEF Settle!E!vars, Custodian!vars
<1>5. \A h \in Settle!E!Holding : ~Settle!E!Stray(h)
  BY DEF Settle!E!Stray
<1> QED BY <1>1, <1>2, <1>3, <1>4, <1>5 DEF Settle!E!Next

LEMMA LotsLift ==
    ASSUME E!Next \/ UNCHANGED E!vars,
           Settle!escrow' = Settle!escrow, Settle!ended' = Settle!ended
    PROVE  Custodian!Next \/ UNCHANGED Custodian!vars
<1>1. ASSUME NEW d \in LotDeals, NEW p \in User, NEW T \in SUBSET NFT, E!Deposit(d, p, T)
      PROVE  Custodian!Next
  <2>1. Custodian!Deposit(d, p, T)
    BY <1>1, KindsApart DEF E!Deposit, Custodian!Deposit
  <2> QED BY <2>1 DEF Custodian!Next
<1>2. ASSUME NEW d \in LotDeals, NEW to \in [User -> User], E!End(d, to)
      PROVE  Custodian!Next
  <2>1. Custodian!Of(d) = E!Of(d)
    BY KindsApart DEF Custodian!Of, E!Of
  <2>2. Custodian!ItemsOf(Custodian!Of(d)) = E!ItemsOf(E!Of(d))
    BY <2>1 DEF Custodian!ItemsOf, E!ItemsOf
  <2>3. \A h \in Settle!escrow : h \notin E!Of(d)
    BY KindsApart DEF E!Of
  <2>4. Custodian!End(d, to)
    <3>1. d \notin Settle!ended \cup Ended
      BY <1>2, KindsApart DEF E!End
    <3>2. (Settle!escrow \cup Lots)' = (Settle!escrow \cup Lots) \ Custodian!Of(d)
      BY <1>2, <2>1, <2>3 DEF E!End
    <3>3. (Settle!ended \cup Ended)' = (Settle!ended \cup Ended) \cup {d}
      BY <1>2 DEF E!End
    <3> QED BY <1>2, <2>1, <2>2, <3>1, <3>2, <3>3 DEF E!End, Custodian!End
  <2> QED BY <2>4 DEF Custodian!Next
<1>3. ASSUME NEW n \in NFT, NEW p \in User, E!Elsewhere(n, p)
      PROVE  Custodian!Next
  <2>1. Custodian!Elsewhere(n, p)
    BY <1>3 DEF E!Elsewhere, Custodian!Elsewhere
  <2> QED BY <2>1 DEF Custodian!Next
<1>4. ASSUME NEW h \in E!Holding, E!Stray(h)
      PROVE  Custodian!Next
  <2>1. Custodian!Stray(h)
    BY <1>4 DEF E!Stray, Custodian!Stray
  <2>2. h \in Custodian!Holding
    BY DEF E!Holding, Custodian!Holding
  <2> QED BY <2>1, <2>2 DEF Custodian!Next
<1>5. UNCHANGED E!vars => UNCHANGED Custodian!vars
  BY DEF E!vars, Custodian!vars
<1> QED BY <1>1, <1>2, <1>3, <1>4, <1>5 DEF E!Next

LEMMA MarketRefines ==
    ASSUME MarketTyped, MarketTyped', ~emergency, [MarketNext]_marketVars
    PROVE  Custodian!Next \/ UNCHANGED Custodian!vars
<1>1. TypeOK /\ TypeOK' /\ Settle!IInv /\ Settle!TypeOK'
  BY MarketTypeParts
<1>2. UNCHANGED auctions => Lots' = Lots /\ Ended' = Ended /\ Claims' = Claims
  BY DEF Lots, Claims, LotsOf, Ended, Pending
<1>3. UNCHANGED dealTables => Settle!escrow' = Settle!escrow /\ Settle!ended' = Settle!ended
  <2>1. UNCHANGED dealTables => UNCHANGED Settle!dealVars
    BY DEF dealTables, Settle!dealVars
  <2> QED BY <2>1, SettleConstants, Settle!DealsStill
<1>4. CASE Settle!Next /\ UNCHANGED auctionVars
  <2>1. Settle!HatchShut
    BY MarketTypeParts DEF MarketTyped, DealsTyped, Settle!HatchShut
  <2>2. Settle!E!Next \/ UNCHANGED Settle!E!vars
    BY <1>1, <1>4, <2>1, SettleConstants, Settle!NextRefines
  <2> QED BY <1>2, <1>4, <2>2, SettleLifts DEF auctionVars
<1>5. CASE Next /\ UNCHANGED dealTables
  <2>1. E!Next \/ UNCHANGED E!vars
    BY <1>1, <1>5, NextRefines
  <2> QED BY <1>3, <1>5, <2>1, LotsLift
<1>6. CASE UNCHANGED marketVars
  <2>1. Lots' = Lots /\ Ended' = Ended /\ Settle!escrow' = Settle!escrow
        /\ Settle!ended' = Settle!ended /\ owner' = owner
        /\ Claims' = Claims /\ strayed' = strayed
    BY <1>2, <1>3, <1>6 DEF marketVars, auctionVars, ledgerVars
  <2> QED BY <2>1 DEF Custodian!vars
<1> QED BY <1>4, <1>5, <1>6 DEF MarketNext

(* As long as the hatch is shut, every call, of whatever kind of deal,     *)
(* keeps the promise about items for all the deals of the contract, up to  *)
(* the claims that closed auctions leave their sellers.                    *)
THEOREM MarketKeepsPromise == MarketSpec => StepsKeepPromise
<1>1. MarketTyped /\ MarketTyped' /\ [MarketNext]_marketVars =>
          [~emergency => Custodian!Next \/ UNCHANGED Custodian!vars]_marketVars
  BY MarketRefines
<1> QED BY <1>1, MarketInitTypes, MarketTypeStep, PTL DEF MarketSpec, StepsKeepPromise

(* With the hatch never opened.                                            *)
LEMMA HatchKeptShut ==
    ASSUME AllowRescue = FALSE, MarketTyped, ~emergency, [MarketNext]_marketVars
    PROVE  ~emergency'
<1>1. CASE Settle!Next /\ UNCHANGED auctionVars
  <2>1. Settle!HatchShut /\ Settle!TypeOK
    BY MarketTypeParts DEF MarketTyped, DealsTyped, Settle!HatchShut
  <2>2. Settle!HatchShut'
    BY <1>1, <2>1, SettleConstants, Settle!HatchStaysShut
  <2> QED BY <2>2 DEF Settle!HatchShut
<1> QED BY <1>1 DEF MarketNext, marketVars, dealTables

MarketShut == MarketTyped /\ ~emergency

LEMMA MarketStaysShut ==
    ASSUME AllowRescue = FALSE
    PROVE  MarketSpec => []MarketShut
<1>1. MarketInit => ~emergency
  BY DEF MarketInit, Settle!Init
<1>2. MarketShut /\ [MarketNext]_marketVars => MarketShut'
  BY HatchKeptShut, MarketTypeStep DEF MarketShut
<1> QED BY <1>1, <1>2, MarketInitTypes, PTL DEF MarketSpec, MarketShut

LEMMA MarketInitRefines == MarketInit => Custodian!Init
<1> SUFFICES ASSUME MarketInit PROVE Custodian!Init
  OBVIOUS
<1>1. Settle!escrow = {} /\ Settle!ended = {} /\ owner \in [NFT -> User]
  BY SettleConstants, Settle!InitRefines DEF MarketInit, Settle!E!Init
<1>2. Lots = {} /\ Ended = {} /\ Claims = {} /\ strayed = {}
  BY DEF MarketInit, Init, Lots, Claims, LotsOf, Ended, Pending
<1> QED BY <1>1, <1>2 DEF Custodian!Init

(* The whole contract implements the escrow, of all its deals together:    *)
(* what takes an item out of a deal that goes on, be it a sale, a trade, a *)
(* bundle or an auction, is the claim its seller has from an auction that  *)
(* is closed.                                                              *)
THEOREM MarketImplementsEscrow ==
    ASSUME AllowRescue = FALSE
    PROVE  MarketSpec => KeepsPromise
<1>1. MarketShut /\ MarketShut' /\ [MarketNext]_marketVars => [Custodian!Next]_(Custodian!vars)
  BY MarketRefines DEF MarketShut
<1> QED BY <1>1, MarketStaysShut, MarketInitRefines, PTL DEF KeepsPromise, MarketSpec, Custodian!Spec

MarketInCustody ==
    Accounted(Settle!Deals \cup LotDeals, owner, Settle!escrow \cup Lots,
              Settle!ended \cup Ended, strayed)

LEMMA MarketCustodyStep ==
    MarketInCustody /\ [Custodian!Next]_(Custodian!vars) => MarketInCustody'
<1> DEFINE deals == Settle!Deals \cup LotDeals
           held  == Settle!escrow \cup Lots
           over  == Settle!ended \cup Ended
<1> SUFFICES ASSUME Accounted(deals, owner, held, over, strayed), [Custodian!Next]_(Custodian!vars)
             PROVE  Accounted(deals, owner', held', over', strayed')
  BY DEF MarketInCustody, Accounted, Account
<1>1. ASSUME NEW d \in deals, NEW p \in User, NEW T \in SUBSET NFT, Custodian!Deposit(d, p, T)
      PROVE  Accounted(deals, owner', held', over', strayed')
  <2> DEFINE more == {[deal |-> d, item |-> n, from |-> p] : n \in T}
  <2>1. /\ d \in deals \ over /\ over' = over /\ \A n \in T : owner[n] = p
        /\ owner' = [n \in NFT |-> IF n \in T THEN Market ELSE owner[n]]
        /\ held' = held \cup more /\ strayed' = strayed
    BY <1>1 DEF Custodian!Deposit
  <2>2. PICK c, o : c = held' /\ o = owner'
    OBVIOUS
  <2> HIDE DEF deals, held, over
  <2>3. Accounted(deals, o, c, over, strayed)
    BY <2>1, <2>2, DepositAccounted
  <2> QED BY <2>1, <2>2, <2>3
<1>2. ASSUME NEW d \in deals, NEW to \in [User -> User], Custodian!End(d, to)
      PROVE  Accounted(deals, owner', held', over', strayed')
  <2>1. /\ owner' \in [NFT -> Account] /\ \A h \in HeldFor(held, d) : owner'[h.item] = to[h.from]
        /\ \A n \in NFT \ {h.item : h \in HeldFor(held, d)} : owner'[n] = owner[n]
        /\ held' = held \ HeldFor(held, d) /\ over' = over \cup {d} /\ strayed' = strayed
    BY <1>2 DEF Custodian!End, Custodian!Of, Custodian!ItemsOf, Account, HeldFor
  <2> HIDE DEF deals, held, over
  <2> QED BY <2>1, EndAccounted
<1>3. ASSUME NEW n \in NFT, NEW p \in User, Custodian!Elsewhere(n, p)
      PROVE  Accounted(deals, owner', held', over', strayed')
  <2>1. /\ owner[n] # Market /\ owner' = [owner EXCEPT ![n] = p]
        /\ held' = held /\ over' = over /\ strayed' = strayed
    BY <1>3 DEF Custodian!Elsewhere
  <2> HIDE DEF deals, held, over
  <2> QED BY <2>1, ElsewhereAccounted
<1>4. ASSUME NEW h \in Custodian!Holding, Custodian!Stray(h)
      PROVE  Accounted(deals, owner', held', over', strayed')
  <2>1. /\ owner' = [owner EXCEPT ![h.item] = h.from] /\ strayed' = strayed \cup {h.item}
        /\ held' = held /\ over' = over
    BY <1>4 DEF Custodian!Stray
  <2>2. h.item \in NFT /\ h.from \in User
    BY <1>4 DEF Custodian!Holding
  <2> HIDE DEF deals, held, over
  <2> QED BY <2>1, <2>2, StrayAccounted
<1>5. CASE UNCHANGED Custodian!vars
  <2>1. owner' = owner /\ held' = held /\ over' = over /\ strayed' = strayed
    BY <1>5 DEF Custodian!vars
  <2> HIDE DEF deals, held, over
  <2> QED BY <2>1
<1> QED BY <1>1, <1>2, <1>3, <1>4, <1>5 DEF Custodian!Next

LEMMA MarketAlwaysInCustody ==
    ASSUME AllowRescue = FALSE
    PROVE  MarketSpec => []MarketInCustody
<1>1. Custodian!Init => MarketInCustody
  <2> SUFFICES ASSUME Custodian!Init PROVE MarketInCustody
    OBVIOUS
  <2>1. /\ owner \in [NFT -> User] /\ Settle!escrow \cup Lots = {}
        /\ Settle!ended \cup Ended = {} /\ strayed = {}
    BY DEF Custodian!Init
  <2> QED BY <2>1, NothingHeld DEF MarketInCustody
<1> QED BY <1>1, MarketImplementsEscrow, MarketCustodyStep, PTL DEF KeepsPromise, Custodian!Spec

(* What the escrow guarantees carries over: of the tokens never taken out  *)
(* by a second cancellation, the contract holds exactly the items of its   *)
(* open sales, trades, bundles and auctions, none of them promised by two  *)
(* deals; and a deal that has ended holds nothing.                         *)
THEOREM MarketCustody ==
    ASSUME AllowRescue = FALSE
    PROVE  MarketSpec => [](Custodian!Custody /\ Custodian!EndedHoldsNothing)
<1>1. MarketInCustody => Custodian!Custody /\ Custodian!EndedHoldsNothing
  BY DEF MarketInCustody, Accounted, Custodian!Custody, Custodian!EndedHoldsNothing
<1> QED BY <1>1, MarketAlwaysInCustody, PTL

-----------------------------------------------------------------------------
(* What is closed stays closed.                                            *)

MarketBooked == MarketTyped /\ BookInv

LEMMA MarketBookedStep ==
    ASSUME CommitReveal = FALSE, MarketBooked, [MarketNext]_marketVars
    PROVE  MarketBooked'
<1>1. MarketTyped' /\ TypeOK
  BY MarketTypeStep, MarketTypeParts DEF MarketBooked
<1>2. CASE Next /\ UNCHANGED dealTables
  BY <1>1, <1>2, BookedStep DEF MarketBooked, Booked
<1>3. CASE UNCHANGED <<auctions, bids>>
  BY <1>1, <1>3 DEF MarketBooked, BookInv
<1> QED BY <1>1, <1>2, <1>3 DEF MarketNext, marketVars, auctionVars

LEMMA MarketAlwaysBooked ==
    ASSUME CommitReveal = FALSE
    PROVE  MarketSpec => []MarketBooked
<1>1. MarketInit => MarketBooked
  BY MarketInitTypes, InitBooks DEF MarketInit, MarketBooked, IInv, Booked
<1> QED BY <1>1, MarketBookedStep, PTL DEF MarketSpec

LEMMA AuctionsFrozen ==
    ASSUME CommitReveal = FALSE, Booked, [Next]_vars
    PROVE  Settle!Frozen(auctions, auctions')
<1>1. \A i \in DOMAIN auctions : Course(auctions[i], auctions'[i])
  BY CourseStep
<1>2. Len(auctions) <= Len(auctions')
  <2>1. TypeOK /\ auctions \in Seq(Listing) /\ auctions' \in Seq(Listing)
    BY BookedStep DEF Booked, TypeOK
  <2>2. DOMAIN auctions' = DOMAIN auctions => Len(auctions) <= Len(auctions')
    BY <2>1
  <2>3. (\E a : auctions' = Append(auctions, a)) => Len(auctions) <= Len(auctions')
    BY <2>1
  <2>4. ASSUME NEW i \in DOMAIN auctions,
               \/ \E u \in User, amount \in Amounts : PlaceBid(i, u, amount)
               \/ \E fee \in Fees : EndSold(i, fee)
               \/ \E u \in User : CancelAuction(i, u)
               \/ Undo(i)
        PROVE  DOMAIN auctions' = DOMAIN auctions
    BY <2>1, <2>4, BidType, SoldType, CancelType, UndoType
  <2>5. ASSUME NEW u, NEW n, NEW type, NEW starting, NEW reserve, NEW d, NEW increment,
               CreateAuction(u, n, type, starting, reserve, d, increment)
        PROVE  \E a : auctions' = Append(auctions, a)
    BY <2>5 DEF CreateAuction
  <2> QED BY <2>2, <2>3, <2>4, <2>5, OpenSteps DEF Aside, Pending
<1>3. ASSUME NEW i \in DOMAIN auctions, auctions[i].state \in Settle!Closed
      PROVE  auctions'[i] = auctions[i]
  BY <1>1, <1>3 DEF Course, Outbids, Settle!Closed
<1> QED BY <1>2, <1>3 DEF Settle!Frozen

LEMMA MarketFrozen ==
    ASSUME CommitReveal = FALSE, MarketBooked, [MarketNext]_marketVars
    PROVE  /\ Settle!Frozen(sales, sales')
           /\ Settle!Frozen(trades, trades')
           /\ Settle!Frozen(bundles, bundles')
           /\ Settle!Frozen(auctions, auctions')
<1>1. /\ TypeOK /\ Settle!TypeOK /\ Booked
  BY MarketTypeParts DEF MarketBooked, Booked
<1>2. /\ sales' = sales => Settle!Frozen(sales, sales')
      /\ trades' = trades => Settle!Frozen(trades, trades')
      /\ bundles' = bundles => Settle!Frozen(bundles, bundles')
      /\ auctions' = auctions => Settle!Frozen(auctions, auctions')
  BY <1>1 DEF Settle!Frozen, Settle!TypeOK, TypeOK
<1>3. CASE Settle!Next /\ UNCHANGED auctionVars
  <2>1. Settle!Frozen(sales, sales')
    BY <1>1, <1>3, SettleConstants, Settle!SalesFrozen
  <2>2. Settle!Frozen(trades, trades')
    BY <1>1, <1>3, SettleConstants, Settle!TradesFrozen
  <2>3. Settle!Frozen(bundles, bundles')
    BY <1>1, <1>3, SettleConstants, Settle!BundlesFrozen
  <2> QED BY <1>2, <1>3, <2>1, <2>2, <2>3 DEF auctionVars
<1>4. CASE Next /\ UNCHANGED dealTables
  BY <1>1, <1>2, <1>4, AuctionsFrozen DEF dealTables
<1>5. CASE UNCHANGED marketVars
  BY <1>2, <1>5 DEF marketVars, dealTables, auctionVars
<1> QED BY <1>3, <1>4, <1>5 DEF MarketNext

(* Without sealed bids a deal of any kind that was executed or cancelled   *)
(* stays exactly as it was, whatever the emergency hatch does to its items *)
(* and however often an auction is cancelled.                              *)
THEOREM MarketFinality ==
    ASSUME CommitReveal = FALSE
    PROVE  MarketSpec => DealsStayClosed
<1>1. MarketBooked /\ [MarketNext]_marketVars =>
          [/\ Settle!Frozen(sales, sales')
           /\ Settle!Frozen(trades, trades')
           /\ Settle!Frozen(bundles, bundles')
           /\ Settle!Frozen(auctions, auctions')]_marketVars
  BY MarketFrozen
<1> QED BY <1>1, MarketAlwaysBooked, PTL DEF MarketSpec, DealsStayClosed

-----------------------------------------------------------------------------
(* Money.  An auction's calls move it between accounts, sealed bids too.   *)

LEMMA LeaderPaidTotal ==
    ASSUME TypeOK, NEW i \in DOMAIN auctions, NEW b \in [Account -> Nat]
    PROVE  Total(PayLeader(b, i)) = Total(b)
<1> DEFINE leader  == auctions[i].highest_bidder
           deposit == LeadersDeposit(i)
<1>1. CASE leader = None
  BY <1>1 DEF PayLeader
<1>2. CASE leader # None
  <2>1. leader \in User /\ leader \in Account /\ Market \in Account
    BY <1>2, Tables, ListingFields, FiniteAccounts
  <2>2. deposit \in Nat
    BY OutstandingType DEF LeadersDeposit
  <2>3. PayLeader(b, i) = Pay(b, Market, leader, deposit)
    BY <1>2 DEF PayLeader
  <2> HIDE DEF leader, deposit
  <2> QED BY <2>1, <2>2, <2>3, PayTotal
<1> QED BY <1>1, <1>2

LEMMA AuctionTotal ==
    ASSUME TypeOK, Next
    PROVE  Total(bal') = Total(bal)
<1>1. bal \in [Account -> Nat] /\ Market \in Account /\ \A u \in User : u \in Account
  BY FiniteAccounts DEF TypeOK, LedgerTypeOK
<1>2. ASSUME NEW i \in DOMAIN auctions, NEW u \in User, NEW amount \in Amounts,
             PlaceBid(i, u, amount)
      PROVE  Total(bal') = Total(bal)
  <2>1. amount \in Nat /\ CanPay(bal, u, amount)
    BY <1>2, AuctionAssumption DEF PlaceBid
  <2>2. PICK b : b = Pay(bal, u, Market, amount)
    OBVIOUS
  <2>3. b \in [Account -> Nat] /\ Total(b) = Total(bal)
    BY <1>1, <2>1, <2>2, PayType, PayTotal
  <2>4. bal' = PayLeader(b, i)
    BY <1>2, <2>2 DEF PlaceBid
  <2> QED BY <2>3, <2>4, LeaderPaidTotal
<1>3. ASSUME NEW i \in DOMAIN auctions, NEW u \in User, RevealBid(i, u)
      PROVE  Total(bal') = Total(bal)
  <2>1. PICK b : b = PayLeader(bal, i)
    OBVIOUS
  <2>2. PICK amount : amount = sealed[i][u].amount
    OBVIOUS
  <2>3. amount \in Nat
    <3>1. sealed[i][u] \in Promise
      BY <1>3, Tables DEF RevealBid
    <3> QED BY <2>2, <3>1 DEF Promise
  <2>4. b \in [Account -> Nat] /\ Total(b) = Total(bal)
    BY <1>1, <1>3, <2>1, LeaderPaid, LeaderPaidTotal DEF RevealBid
  <2>5. bal' = Pay(b, u, Market, amount)
    BY <1>3, <2>1, <2>2 DEF RevealBid
  <2> QED BY <1>1, <2>3, <2>4, <2>5, PayTotal
<1>4. ASSUME NEW i \in DOMAIN auctions, NEW u \in User, WithdrawLosingBid(i, u)
      PROVE  Total(bal') = Total(bal)
  <2>1. Outstanding(i, u) \in Nat /\ bal' = Pay(bal, Market, u, Outstanding(i, u))
    BY <1>4, OutstandingType DEF WithdrawLosingBid
  <2> QED BY <1>1, <2>1, PayTotal
<1>5. ASSUME NEW i \in DOMAIN auctions, NEW fee \in Fees, EndSold(i, fee)
      PROVE  Total(bal') = Total(bal)
  <2>1. PICK shares : shares = SaleShares(auctions[i].nft, auctions[i].highest_bid,
                                          auctions[i].seller, fee)
    OBVIOUS
  <2>2. /\ CanDistribute(bal, shares, auctions[i].highest_bid)
        /\ bal' = Distribute(bal, shares, auctions[i].highest_bid)
    BY <1>5, <2>1 DEF EndSold
  <2>3. auctions[i].highest_bid \in Nat
    BY Tables, ListingFields
  <2> QED BY <1>1, <2>2, <2>3, DistributeTotal
<1>6. ASSUME NEW i \in DOMAIN auctions, Undo(i)
      PROVE  Total(bal') = Total(bal)
  BY <1>1, <1>6, LeaderPaidTotal DEF Undo
<1>7. CASE BidNext
  BY <1>2, <1>3, <1>4, <1>7 DEF BidNext, PlaceSealedBid
<1>8. CASE SellerNext
  <2>1. ASSUME NEW u, NEW n, NEW type, NEW starting, NEW reserve, NEW d, NEW increment,
               CreateAuction(u, n, type, starting, reserve, d, increment)
        PROVE  bal' = bal
    BY <2>1 DEF CreateAuction
  <2>2. \A i, u : CancelAuction(i, u) => bal' = bal
    BY DEF CancelAuction
  <2>3. \A i, u : CancelAuctionWithRefund(i, u) => Undo(i)
    BY DEF CancelAuctionWithRefund
  <2> QED BY <1>6, <1>8, <2>1, <2>2, <2>3 DEF SellerNext
<1>9. CASE AnyoneNext
  BY <1>5, <1>6, <1>9 DEF AnyoneNext, EndUnsold, CleanupExpiredCommitments,
     GetDutchAuctionPrice, ledgerVars
<1>10. CASE Around
  BY <1>10 DEF Around, Surroundings, Tick, TransferOutside, SetPause, SetBlocked,
     TermsNext, SetRoyaltyInfo, SetFeeRecipient, ledgerVars
<1> QED BY <1>7, <1>8, <1>9, <1>10 DEF Next

LEMMA SameTotals == \A b : Settle!Total(b) = Total(b)
BY DEF Settle!Total, Total, Settle!Account, Account, Settle!SumFunctionOnSet,
   SumFunctionOnSet, Settle!FoldFunctionOnSet, FoldFunctionOnSet,
   Settle!MapThenFoldSet, MapThenFoldSet

MoneyIsKept == SumFunction(bal) = Cardinality(User) * Funds
AllKept     == Total(bal) = Cardinality(User) * Funds

(* With everything the contract can do, the hatch open, bids sealed and    *)
(* auctions cancelled twice included: no money is made or lost, what users *)
(* and contract have between them is what the users started with.          *)
THEOREM MarketMoney == MarketSpec => []MoneyIsKept
<1>1. MarketInit => AllKept
  <2> SUFFICES ASSUME MarketInit PROVE AllKept
    OBVIOUS
  <2>1. bal = [a \in Account |-> IF a = Market THEN 0 ELSE Funds] /\ Funds \in Nat
    BY LedgerAssumption DEF MarketInit, Init, LedgerInit
  <2>2. bal[Market] = 0 /\ \A u \in User : bal[u] = Funds
    BY <2>1, FiniteAccounts, LedgerAssumption
  <2>3. \A a \in Account : bal[a] \in Int
    BY <2>1
  <2>4. SumFunctionOnSet(bal, Account) = bal[Market] + SumFunctionOnSet(bal, User)
    BY <2>3, FiniteAccounts, SumRemove
  <2>5. SumFunctionOnSet(bal, User) = Cardinality(User) * Funds
    <3>1. Funds \in Int
      BY <2>1
    <3> QED BY <2>2, <3>1, FiniteAccounts, SumConstant
  <2>6. Cardinality(User) * Funds \in Int
    BY <2>1, FiniteAccounts, FS_CardinalityType
  <2> QED BY <2>2, <2>4, <2>5, <2>6 DEF AllKept, Total
<1>2. MarketTyped /\ AllKept /\ [MarketNext]_marketVars => AllKept'
  <2> SUFFICES ASSUME MarketTyped, AllKept, [MarketNext]_marketVars PROVE AllKept'
    OBVIOUS
  <2>1. TypeOK /\ Settle!TypeOK
    BY MarketTypeParts
  <2>2. Settle!Next => Total(bal') = Total(bal)
    BY <2>1, SettleConstants, Settle!TotalStays, SameTotals
  <2>3. Next => Total(bal') = Total(bal)
    BY <2>1, AuctionTotal
  <2>4. UNCHANGED marketVars => Total(bal') = Total(bal)
    BY DEF marketVars, ledgerVars
  <2>5. Total(bal') = Total(bal)
    BY <2>2, <2>3, <2>4 DEF MarketNext
  <2> QED BY <2>5 DEF AllKept, Total
<1>3. MarketTyped /\ AllKept => MoneyIsKept
  BY MarketTypeParts, TotalIsSum DEF TypeOK, LedgerTypeOK, AllKept, MoneyIsKept
<1> QED BY <1>1, <1>2, <1>3, MarketInitTypes, MarketTypeStep, PTL DEF MarketSpec

-----------------------------------------------------------------------------
(* The purse.  What it leans on: a sale that is still open has no payment  *)
(* in its swap, so that with the hatch shut no refund is money.            *)

MarketSound == MarketBooked /\ Settle!SalesSound

LEMMA MarketAlwaysSound ==
    ASSUME CommitReveal = FALSE
    PROVE  MarketSpec => []MarketSound
<1>1. MarketInit => Settle!SalesSound
  BY DEF MarketInit, Settle!Init, Settle!SalesSound
<1>2. ASSUME MarketBooked, Settle!SalesSound, [MarketNext]_marketVars
      PROVE  Settle!SalesSound'
  <2>1. Settle!TypeOK
    BY <1>2, MarketTypeParts DEF MarketBooked
  <2>2. CASE Settle!Next
    BY <1>2, <2>1, <2>2, SettleConstants, Settle!SalesSoundStep
  <2>3. CASE UNCHANGED <<sales, swaps>>
    BY <1>2, <2>3 DEF Settle!SalesSound, Settle!SharesAddUp
  <2> QED BY <1>2, <2>2, <2>3 DEF MarketNext, marketVars, dealTables
<1> QED BY <1>1, <1>2, MarketAlwaysBooked, PTL DEF MarketSpec, MarketSound

LEMMA MarketPurseStep ==
    ASSUME CommitReveal = FALSE, MarketSound, ~emergency, [MarketNext]_marketVars
    PROVE  PurseFollows
<1>1. /\ Booked /\ TypeOK /\ Settle!TypeOK /\ Settle!HatchShut
  BY MarketTypeParts
  DEF MarketSound, MarketBooked, MarketTyped, DealsTyped, Booked, Settle!HatchShut
<1>2. bal[Market] \in Nat /\ Purse \in Int
  BY <1>1, MoneyInts
<1>3. CASE Settle!Next /\ UNCHANGED auctionVars
  <2>1. bal'[Market] = bal[Market]
    BY <1>1, <1>3, SettleConstants, Settle!PurseAlone DEF MarketSound
  <2>2. Purse' = Purse
    BY <1>3 DEF auctionVars, Purse, Highest, Pending
  <2> QED BY <1>2, <2>1, <2>2 DEF PurseFollows
<1>4. CASE Next /\ UNCHANGED dealTables
  BY <1>1, <1>4, BookedStep
<1>5. CASE UNCHANGED marketVars
  <2>1. bal' = bal /\ Purse' = Purse
    BY <1>5 DEF marketVars, ledgerVars, auctionVars, Purse, Highest, Pending
  <2> QED BY <1>2, <2>1 DEF PurseFollows
<1> QED BY <1>3, <1>4, <1>5 DEF MarketNext

(* Without sealed bids and while the hatch is shut, the contract's money   *)
(* changes by what the leading bids of the pending auctions change: no     *)
(* sale, bundle or refund touches a bidder's deposit.                      *)
THEOREM MarketPurse ==
    ASSUME CommitReveal = FALSE
    PROVE  MarketSpec => PurseFollowsBids
<1>1. MarketSound => LeadingBids = Purse
  BY PurseFacts, MarketTypeParts DEF MarketSound, MarketBooked
<1>2. /\ MarketSound /\ LeadingBids = Purse /\ (LeadingBids = Purse)'
      /\ [MarketNext]_marketVars
      => [~emergency => bal'[Market] - bal[Market] = LeadingBids' - LeadingBids]_marketVars
  BY MarketPurseStep DEF PurseFollows
<1> QED BY <1>1, <1>2, MarketAlwaysSound, PTL DEF MarketSpec, PurseFollowsBids

(* If moreover the hatch is never opened, the contract's money is exactly  *)
(* the leading bids, and the invariant of the books holds in the whole     *)
(* contract as it does for auctions alone.                                 *)
LEMMA MarketPaidFor ==
    ASSUME CommitReveal = FALSE, AllowRescue = FALSE
    PROVE  MarketSpec => []IInv
<1>1. MarketInit => PaidFor
  BY InitBooks DEF MarketInit, IInv
<1>2. MarketSound => TypeOK /\ Booked /\ Purse \in Int
  BY MarketTypeParts, PurseFacts DEF MarketSound, MarketBooked, Booked
<1>3. ASSUME MarketSound, TypeOK, TypeOK', (Purse \in Int)', MarketShut, PaidFor,
             [MarketNext]_marketVars
      PROVE  PaidFor'
  <2>1. PurseFollows
    BY <1>3, MarketPurseStep DEF MarketShut
  <2> QED BY <1>3, <2>1, PaidForStep
<1>4. Booked /\ PaidFor => IInv
  BY DEF IInv
<1> QED BY <1>1, <1>2, <1>3, <1>4, MarketAlwaysSound, MarketStaysShut, PTL DEF MarketSpec

THEOREM MarketBooks ==
    ASSUME CommitReveal = FALSE, AllowRescue = FALSE
    PROVE  MarketSpec => []BooksBalance
<1>1. IInv => BooksBalance
  BY BooksAreBalanced
<1> QED BY <1>1, MarketPaidFor, PTL

-----------------------------------------------------------------------------
(* What every open deal of the contract needs is there.                    *)

OthersSound == Settle!BundlesSound /\ Settle!AcceptedByOther

LEMMA MarketOthersSound == MarketSpec => []OthersSound
<1>1. MarketInit => OthersSound
  BY DEF MarketInit, Settle!Init, OthersSound, Settle!BundlesSound, Settle!AcceptedByOther
<1>2. ASSUME MarketTyped, OthersSound, [MarketNext]_marketVars
      PROVE  OthersSound'
  <2>1. Settle!TypeOK
    BY <1>2, MarketTypeParts
  <2>2. CASE Settle!Next
    <3>1. Settle!BundlesSound'
      BY <1>2, <2>1, <2>2, SettleConstants, Settle!BundlesSoundStep DEF OthersSound
    <3>2. Settle!AcceptedByOther'
      BY <1>2, <2>1, <2>2, SettleConstants, Settle!AcceptedStep DEF OthersSound
    <3> QED BY <3>1, <3>2 DEF OthersSound
  <2>3. CASE UNCHANGED <<trades, bundles>>
    BY <1>2, <2>3 DEF OthersSound, Settle!BundlesSound, Settle!AcceptedByOther
  <2> QED BY <1>2, <2>2, <2>3 DEF MarketNext, marketVars, dealTables
<1> QED BY <1>1, <1>2, MarketInitTypes, MarketTypeStep, PTL DEF MarketSpec

LEMMA CustodyServes ==
    ASSUME MarketInCustody
    PROVE  Settle!Held(strayed) /\ LotsKept
<1>1. Settle!Held(strayed)
  BY DEF MarketInCustody, Accounted, Settle!Held
<1>2. ASSUME NEW i \in Pending, auctions[i].nft \notin strayed
      PROVE  owner[auctions[i].nft] = Market
  <2>1. Lot(i) \in Lots /\ Lot(i).item = auctions[i].nft
    BY EscrowVars DEF Lot
  <2> QED BY <1>2, <2>1 DEF MarketInCustody, Accounted
<1> QED BY <1>1, <1>2 DEF LotsKept

(* The deals whose items have not strayed, and the money of all.           *)
OthersServed == Settle!ServedBut(strayed)

(* With the hatch never opened and without sealed bids, whatever deals of  *)
(* whatever kinds are open side by side: an open sale or bundle pays out   *)
(* in full to whoever brings the price, an accepted trade hands over both  *)
(* sides, a pending auction hands over its lot and pays out or returns its *)
(* leading bid, and what an open deal took in can be returned.  The one    *)
(* exception is a token that a second cancellation took out: the deals it  *)
(* was in keep their money, not the token.                                 *)
THEOREM MarketServes ==
    ASSUME CommitReveal = FALSE, AllowRescue = FALSE, IsFiniteSet(NFT)
    PROVE  MarketSpec => [](OthersServed /\ PendingServed)
<1>1. ASSUME MarketSound, OthersSound, IInv, MarketInCustody
      PROVE  OthersServed /\ PendingServed
  <2>1. Settle!Held(strayed) /\ LotsKept
    BY <1>1, CustodyServes
  <2>2. PendingServed
    BY <1>1, <2>1, EndingServed
  <2>3. Settle!IsFiniteSet(NFT)
    BY Zenon DEF Settle!IsFiniteSet, IsFiniteSet
  <2>4. Settle!TypeOK
    BY <1>1, MarketTypeParts DEF MarketSound, MarketBooked
  <2>5. Settle!ServedBut(strayed)
    BY <1>1, <2>1, <2>3, <2>4, SettleConstants, Settle!DealsServed DEF MarketSound, OthersSound
  <2> QED BY <2>2, <2>5 DEF OthersServed
<1> QED BY <1>1, MarketAlwaysSound, MarketOthersSound, MarketPaidFor, MarketAlwaysInCustody, PTL
=============================================================================
