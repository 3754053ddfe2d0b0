---------------------------- MODULE TradingProofs ----------------------------
(* Of the marketplace kept in the backend's tables: nothing is shown       *)
(* completed, sold or settled without the transaction that did it, for any *)
(* lots, users, requests, instances, faults and ways of paying.            *)
EXTENDS MCTrading, TLAPS

Ops    == {"idle", "buy", "cancelLot", "expire", "bid", "create", "settle", "execute",
           "cancel", "recover", "view", "batch", "confirm"}
OnTx   == {"load", "sync", "check", "contract", "apply", "finish", "after", "cancel",
           "recover", "rolled", "batch", "confirm"}
Pcs    == OnTx \cup {"idle", "create", "close", "bid", "price", "highest"}
Price  == Amount \cup {0}
Kinds  == {"native", "offchain", "bundle"}
Offer  == User \X Price \X Kinds \X Lot
ReqRow == [op : Ops, pc : Pcs, lot : Lot \cup {None}, copy : LotRow, id : Nat,
           state : States, thrown : BOOLEAN, bid : {<<>>} \cup (User \X Amount) \cup Offer]
Said   == SUBSET {"done", "failed"}

(* What a request knows: of the lot it works on, of the transaction it     *)
(* made or found, and of what the contract said to it.                     *)
KnowsLot(r) ==
    /\ r.pc \in {"bid", "price"} =>
          /\ r.op = "bid" => r.copy.status = "ACTIVE"
          /\ r.lot \in Auction /\ r.bid \in User \X Amount
    /\ r.pc = "close" => r.lot \in Lot
    /\ r.pc = "highest" => r.op = "settle" /\ r.lot \in Auction
    /\ r.pc = "create" =>
          /\ r.bid \in Offer
          /\ \/ r.op = "buy" /\ r.lot \in Listing /\ r.bid[4] \in Listing
             \/ r.op = "settle" /\ r.lot \in Auction /\ r.bid[3] = "native"

KnowsTx(r) ==
    r.pc \in OnTx =>
        /\ r.id \in DOMAIN tx
        /\ r.op # "batch" => r.lot = tx[r.id].lot
        /\ r.op = "settle" => r.bid \in Offer /\ tx[r.id].buyer = r.bid[1]
        /\ r.op = "buy" => r.lot \in Listing
        /\ r.op = "confirm" => tx[r.id].kind = "offchain"

KnowsAnswer(r) ==
    /\ r.state = "COMPLETED" => r.id \in DOMAIN tx /\ "done" \in answered[r.id]
    /\ r.pc \in {"apply", "finish"} => "done" \in answered[r.id]
    /\ r.pc = "after" /\ ~r.thrown => answered[r.id] # {}

Stage(r) ==
    /\ r.thrown \/ r.pc = "after" => r.op \in {"buy", "settle", "confirm"}
    /\ r.pc \in {"contract", "apply", "finish"} =>
          r.op \in {"buy", "settle", "execute", "confirm"}
    /\ r.pc = "batch" => r.op = "batch"
    /\ r.op = "batch" => r.pc = "batch"
    /\ r.pc \notin OnTx => r.state = "PENDING"

ReqOk(r) == KnowsLot(r) /\ KnowsTx(r) /\ KnowsAnswer(r) /\ Stage(r)

TxOk(id) ==
    /\ tx[id].state = "COMPLETED" => "done" \in answered[id]
    /\ tx[id].kind # "native" => tx[id].lot \in Listing /\ tx[id].item \in Listing

Sells(id, l, winner) ==
    /\ id \in DOMAIN tx /\ l \in {tx[id].lot, tx[id].item}
    /\ answered[id] # {} /\ (tx[id].kind = "native" => "done" \in answered[id])
    /\ l \in Auction => winner = tx[id].buyer

Sold(l) == lot[l].status \in {"SOLD", "SETTLED"} => \E id \in Nat : Sells(id, l, lot[l].winner)

TxsOk  == /\ tx \in Seq(TxRow) /\ answered \in [DOMAIN tx -> Said]
          /\ \A id \in DOMAIN tx : TxOk(id)
LotsOk == lot \in [Lot -> LotRow] /\ \A l \in Lot : Sold(l)
BidsOk == bids \in [Auction -> SUBSET Bid]
TradeInv == /\ TxsOk /\ LotsOk /\ BidsOk
            /\ req \in [Worker -> ReqRow] /\ \A p \in Worker : ReqOk(req[p])

-----------------------------------------------------------------------------
(* The rows of transactions only gain: none is removed, what was agreed on *)
(* stays, what the contract said stays said.                               *)
Grown ==
    /\ DOMAIN tx \subseteq DOMAIN tx'
    /\ \A id \in DOMAIN tx :
          /\ tx'[id].lot = tx[id].lot /\ tx'[id].item = tx[id].item
          /\ tx'[id].buyer = tx[id].buyer /\ tx'[id].kind = tx[id].kind
          /\ answered[id] \subseteq answered'[id]

TxsTo == TxsOk' /\ Grown

LEMMA ReqStays ==
    ASSUME Grown, TxsOk, NEW r \in ReqRow, ReqOk(r)
    PROVE  ReqOk(r)'
<1>1. KnowsLot(r)' /\ Stage(r)'
  BY DEF ReqOk, KnowsLot, Stage
<1>2. KnowsTx(r)'
  BY DEF ReqOk, KnowsTx, Grown
<1>3. KnowsAnswer(r)'
  <2>1. r.pc \in {"apply", "finish", "after"} => r.id \in DOMAIN tx
    BY DEF ReqOk, KnowsTx, OnTx
  <2>2. r.id \in DOMAIN tx => answered[r.id] \subseteq answered'[r.id]
                              /\ r.id \in DOMAIN tx'
    BY DEF Grown
  <2> QED BY <2>1, <2>2 DEF ReqOk, KnowsAnswer
<1> QED BY <1>1, <1>2, <1>3 DEF ReqOk

LEMMA SellsStays ==
    ASSUME Grown, NEW id, NEW l, NEW winner, Sells(id, l, winner)
    PROVE  Sells(id, l, winner)'
BY DEF Grown, Sells

LEMMA TradeMoves ==
    ASSUME TradeInv, TxsTo, LotsOk', BidsOk', NEW p \in Worker, NEW o \in ReqRow,
           Become(p, o), ReqOk(o)'
    PROVE  TradeInv'
<1>1. req' \in [Worker -> ReqRow] /\ req'[p] = o
      /\ \A q \in Worker \ {p} : req'[q] = req[q]
  BY DEF TradeInv, Become
<1>2. ASSUME NEW q \in Worker PROVE ReqOk(req[q])'
  <2>1. CASE q = p
    BY <1>1, <2>1 DEF ReqOk, KnowsLot, KnowsTx, KnowsAnswer, Stage
  <2>2. CASE q # p
    <3> DEFINE r == req[q]
    <3>1. r \in ReqRow /\ ReqOk(r)
      BY DEF TradeInv
    <3>2. req'[q] = r
      BY <1>1, <2>2
    <3>3. PICK c \in ReqRow : c = r
      BY <3>1
    <3>4. ReqOk(c)
      BY <3>1, <3>3
    <3>5. ReqOk(c)'
      BY <3>4, ReqStays DEF TxsTo, TradeInv
    <3> QED BY <3>2, <3>3, <3>5 DEF ReqOk, KnowsLot, KnowsTx, KnowsAnswer, Stage
  <2> QED BY <2>1, <2>2
<1> QED BY <1>1, <1>2 DEF TradeInv, TxsTo

LEMMA TxsStay ==
    ASSUME TradeInv, UNCHANGED <<tx, answered>>
    PROVE  TxsTo
BY DEF TradeInv, TxsTo, TxsOk, TxOk, Grown

LEMMA LotsStay ==
    ASSUME TradeInv, Grown, UNCHANGED lot
    PROVE  LotsOk'
<1> SUFFICES ASSUME NEW l \in Lot PROVE Sold(l)'
  BY DEF TradeInv, LotsOk
<1>1. Sold(l)
  BY DEF TradeInv, LotsOk
<1> SUFFICES ASSUME lot[l].status \in {"SOLD", "SETTLED"}
             PROVE  \E id \in Nat : Sells(id, l, lot[l].winner)'
  BY DEF Sold, Sells
<1>2. PICK id \in Nat : Sells(id, l, lot[l].winner)
  BY <1>1 DEF Sold
<1> QED BY <1>2 DEF Grown, Sells

LEMMA LotsSave ==
    ASSUME TradeInv, Grown, NEW l \in Lot, NEW row \in LotRow, SaveLot(l, row),
           row.status \in {"SOLD", "SETTLED"} => \E id \in Nat : Sells(id, l, row.winner)'
    PROVE  LotsOk'
<1>1. lot' \in [Lot -> LotRow] /\ lot'[l] = row /\ \A m \in Lot \ {l} : lot'[m] = lot[m]
  BY DEF TradeInv, LotsOk, SaveLot
<1>2. Sold(l)'
  BY <1>1 DEF Sold, Sells
<1>3. ASSUME NEW m \in Lot \ {l} PROVE Sold(m)'
  <2>1. SUFFICES ASSUME lot[m].status \in {"SOLD", "SETTLED"}
                 PROVE  \E id \in Nat : Sells(id, m, lot[m].winner)'
    BY <1>1 DEF Sold, Sells
  <2>2. PICK id \in Nat : Sells(id, m, lot[m].winner)
    BY <2>1 DEF TradeInv, LotsOk, Sold
  <2>3. lot'[m] = lot[m]
    BY <1>1
  <2> QED BY <2>2, <2>3 DEF Grown, Sells
<1> QED BY <1>1, <1>2, <1>3 DEF LotsOk
(* A state is saved in one row, whatever else the contract said.           *)
LEMMA TxsSave ==
    ASSUME TradeInv, NEW id \in DOMAIN tx, NEW s \in States, SaveState(id, s),
           answered' \in [DOMAIN tx -> Said],
           \A i \in DOMAIN tx : answered[i] \subseteq answered'[i],
           s = "COMPLETED" => "done" \in answered'[id]
    PROVE  TxsTo
<1>1. tx \in Seq(TxRow) /\ DOMAIN tx = 1..Len(tx) /\ \A i \in DOMAIN tx : tx[i] \in TxRow
  BY DEF TradeInv, TxsOk
<1> DEFINE row == [tx[id] EXCEPT !.state = s]
<1>2. /\ row \in TxRow /\ row.state = s /\ row.lot = tx[id].lot /\ row.item = tx[id].item
      /\ row.buyer = tx[id].buyer /\ row.kind = tx[id].kind
  BY <1>1 DEF TxRow
<1>3. tx' = [tx EXCEPT ![id] = row]
  BY DEF SaveState
<1> HIDE DEF row
<1>4. tx' \in Seq(TxRow) /\ DOMAIN tx' = DOMAIN tx /\ tx'[id] = row
      /\ \A i \in DOMAIN tx \ {id} : tx'[i] = tx[i]
  <2>1. tx \in [1..Len(tx) -> TxRow] /\ Len(tx) \in Nat
    BY <1>1
  <2>2. tx' \in [1..Len(tx) -> TxRow] /\ tx'[id] = row
        /\ \A i \in DOMAIN tx \ {id} : tx'[i] = tx[i]
    BY <1>1, <1>2, <1>3, <2>1
  <2>3. tx' \in Seq(TxRow) /\ DOMAIN tx' = 1..Len(tx)
    BY <2>1, <2>2
  <2> QED BY <1>1, <2>2, <2>3
<1>5. Grown
  BY <1>2, <1>4 DEF Grown
<1>6. ASSUME NEW i \in DOMAIN tx PROVE TxOk(i)'
  <2>1. TxOk(i) /\ answered[i] \subseteq answered'[i]
    BY DEF TradeInv, TxsOk
  <2>2. CASE i = id
    BY <1>2, <1>4, <2>1, <2>2 DEF TxOk
  <2>3. CASE i # id
    BY <1>4, <2>1, <2>3 DEF TxOk
  <2> QED BY <2>2, <2>3
<1> QED BY <1>4, <1>5, <1>6 DEF TxsTo, TxsOk

LEMMA TxsSaved ==
    ASSUME TradeInv, NEW id \in DOMAIN tx, NEW s \in States, SaveState(id, s),
           answered' = answered, s = "COMPLETED" => "done" \in answered[id]
    PROVE  TxsTo
<1>1. answered \in [DOMAIN tx -> Said]
  BY DEF TradeInv, TxsOk
<1> QED BY <1>1, TxsSave

LEMMA TxsAnswered ==
    ASSUME TradeInv, NEW p \in Worker, req[p].id \in DOMAIN tx,
           NEW a \in {"done", "failed"}, Answer(p, a)
    PROVE  /\ answered' \in [DOMAIN tx -> Said] /\ a \in answered'[req[p].id]
           /\ \A i \in DOMAIN tx : answered[i] \subseteq answered'[i]
<1>1. answered \in [DOMAIN tx -> Said]
  BY DEF TradeInv, TxsOk
<1>2. answered' = [answered EXCEPT ![req[p].id] = answered[req[p].id] \cup {a}]
  BY DEF Answer
<1> QED BY <1>1, <1>2 DEF Said

LEMMA TxsCreated ==
    ASSUME TradeInv, NEW l \in Lot, NEW item \in Lot, NEW who \in User,
           NEW amount \in Price, NEW kind \in Kinds, Created(l, item, who, amount, kind),
           kind # "native" => l \in Listing /\ item \in Listing
    PROVE  /\ TxsTo /\ Len(tx) + 1 \in DOMAIN tx' /\ Len(tx) + 1 \in Nat
           /\ tx'[Len(tx) + 1].lot = l /\ tx'[Len(tx) + 1].buyer = who
           /\ tx'[Len(tx) + 1].kind = kind
<1> DEFINE row == NewTx(l, item, who, amount, kind)
           n == Len(tx)
<1>1. row \in TxRow
  BY DEF NewTx, TxRow, States, Price, Kinds
<1>2. tx \in Seq(TxRow) /\ n \in Nat /\ DOMAIN tx = 1..n
      /\ answered \in [1..n -> Said]
  BY DEF TradeInv, TxsOk
<1>3. tx' = Append(tx, row) /\ answered' = Append(answered, {})
  BY DEF Created
<1>4. /\ row.lot = l /\ row.item = item /\ row.buyer = who /\ row.kind = kind
      /\ row.state = "PENDING"
  BY DEF NewTx
<1> HIDE DEF row
<1>5. /\ tx' \in Seq(TxRow) /\ DOMAIN tx' = 1..(n + 1) /\ tx'[n + 1] = row
      /\ \A i \in 1..n : tx'[i] = tx[i]
  BY <1>1, <1>2, <1>3
<1>6. /\ answered' \in [1..(n + 1) -> Said]
      /\ \A i \in 1..n : answered'[i] = answered[i]
  <2> DEFINE z == Append(answered, {})
  <2>1. answered \in Seq(Said) /\ Len(answered) = n /\ {} \in Said
    BY <1>2 DEF Said
  <2>2. /\ z \in Seq(Said) /\ Len(z) = n + 1
        /\ \A i \in 1..n : z[i] = answered[i]
    BY <1>2, <2>1
  <2>3. answered' = z
    BY <1>3
  <2> HIDE DEF z
  <2>4. z \in [1..Len(z) -> Said]
    BY <2>2
  <2>5. z \in [1..(n + 1) -> Said]
    BY <2>2, <2>4
  <2> QED BY <2>2, <2>3, <2>5
<1> HIDE DEF n
<1>7. 1..(n + 1) = (1..n) \cup {n + 1} /\ n + 1 \in Nat /\ n + 1 \notin 1..n
  BY <1>2
<1>8. Grown
  BY <1>2, <1>5, <1>6, <1>7 DEF Grown
<1>9. ASSUME NEW i \in DOMAIN tx' PROVE TxOk(i)'
  <2>1. CASE i \in 1..n
    <3>1. TxOk(i)
      BY <1>2, <2>1 DEF TradeInv, TxsOk
    <3> QED BY <1>5, <1>6, <2>1, <3>1 DEF TxOk
  <2>2. CASE i = n + 1
    BY <1>4, <1>5, <2>2 DEF TxOk
  <2> QED BY <1>5, <1>7, <2>1, <2>2
<1>10. TxsTo
  BY <1>5, <1>6, <1>8, <1>9 DEF TxsTo, TxsOk
<1> QED BY <1>4, <1>5, <1>7, <1>10 DEF n

-----------------------------------------------------------------------------
(* A request moves on to another step.                                     *)
LEMMA ReqIs ==
    ASSUME TradeInv, NEW p \in Worker
    PROVE  /\ req[p] \in ReqRow /\ ReqOk(req[p])
           /\ req[p].op \in Ops /\ req[p].pc \in Pcs /\ req[p].lot \in Lot \cup {None}
           /\ req[p].copy \in LotRow /\ req[p].id \in Nat /\ req[p].state \in States
           /\ req[p].thrown \in BOOLEAN
           /\ req[p].bid \in {<<>>} \cup (User \X Amount) \cup Offer
BY DEF TradeInv, ReqRow

LEMMA Went ==
    ASSUME TradeInv, NEW p \in Worker, NEW pc \in Pcs, Goto(p, pc)
    PROVE  \E o \in ReqRow :
              /\ Become(p, o) /\ o.pc = pc /\ o.op = req[p].op /\ o.lot = req[p].lot
              /\ o.copy = req[p].copy /\ o.id = req[p].id /\ o.state = req[p].state
              /\ o.thrown = req[p].thrown /\ o.bid = req[p].bid
<1> DEFINE o == [req[p] EXCEPT !.pc = pc]
<1>1. /\ o \in ReqRow /\ o.pc = pc /\ o.op = req[p].op /\ o.lot = req[p].lot
      /\ o.copy = req[p].copy /\ o.id = req[p].id /\ o.state = req[p].state
      /\ o.thrown = req[p].thrown /\ o.bid = req[p].bid
  BY ReqIs DEF ReqRow
<1>2. Become(p, o)
  BY DEF Goto, Become
<1> HIDE DEF o
<1> QED BY <1>1, <1>2

LEMMA IdleOk == /\ Idle \in ReqRow /\ Idle.pc = "idle" /\ NoLot \in LotRow
                /\ NoLot.status = "NONE" /\ Idle.state = "PENDING" /\ Idle.thrown = FALSE
                /\ Idle.op = "idle"
<1>1. NoLot \in LotRow /\ NoLot.status = "NONE"
  BY DEF NoLot, LotRow, LotStatus
<1>2. Idle \in ReqRow
  BY <1>1 DEF Idle, ReqRow, Ops, Pcs, States
<1> QED BY <1>1, <1>2 DEF Idle

(* A request is over, or left in a state it cannot go on from.             *)
LEMMA Ends ==
    ASSUME TradeInv, TxsTo, LotsOk', BidsOk', NEW p \in Worker, Done(p)
    PROVE  TradeInv'
<1>1. ReqOk(Idle)'
  BY IdleOk DEF ReqOk, KnowsLot, KnowsTx, KnowsAnswer, Stage, OnTx
<1> QED BY <1>1, IdleOk, TradeMoves DEF Done

LEMMA RequestIs ==
    ASSUME TradeInv, NEW op \in Ops, NEW pc \in Pcs, NEW l \in Lot
    PROVE  \E r \in ReqRow :
              /\ r = Request(op, pc, l) /\ r.op = op /\ r.pc = pc /\ r.lot = l
              /\ r.copy = lot[l] /\ r.state = "PENDING" /\ ~r.thrown /\ r.id = 0
<1>1. lot[l] \in LotRow
  BY DEF TradeInv, LotsOk
<1> DEFINE r == Request(op, pc, l)
<1>2. r \in ReqRow
  BY <1>1 DEF Request, Idle, ReqRow, States
<1>3. /\ r.op = op /\ r.pc = pc /\ r.lot = l /\ r.copy = lot[l]
  BY DEF Request, Idle
<1>4. /\ r.state = "PENDING" /\ ~r.thrown /\ r.id = 0
  BY DEF Request, Idle
<1> HIDE DEF r
<1>5. r = Request(op, pc, l)
  BY DEF r
<1> QED BY <1>2, <1>3, <1>4, <1>5

LEMMA TxsSame ==
    ASSUME TradeInv, UNCHANGED <<tx, answered>>
    PROVE  TxsTo /\ Grown
BY TxsStay DEF TxsTo

LEMMA NoneMoves ==
    ASSUME TradeInv, TxsTo, LotsOk', BidsOk', UNCHANGED req
    PROVE  TradeInv'
<1> SUFFICES ASSUME NEW p \in Worker PROVE ReqOk(req[p])'
  BY DEF TradeInv, TxsTo
<1>1. PICK c \in ReqRow : c = req[p] /\ c = req'[p]
  BY DEF TradeInv
<1>2. ReqOk(c)
  BY <1>1 DEF TradeInv
<1>3. ReqOk(c)'
  BY <1>2, ReqStays DEF TxsTo, TradeInv
<1> QED BY <1>1, <1>3 DEF ReqOk, KnowsLot, KnowsTx, KnowsAnswer, Stage

(* A request on a transaction stays on it.                                 *)
LEMMA OnTxOk ==
    ASSUME TradeInv, TxsTo, NEW p \in Worker, req[p].pc \in OnTx, NEW o \in ReqRow,
           o.pc \in OnTx, o.id = req[p].id, o.lot = req[p].lot, o.op = req[p].op,
           o.bid = req[p].bid, KnowsAnswer(o)', Stage(o)
    PROVE  ReqOk(o)'
<1>1. KnowsTx(req[p])
  BY ReqIs DEF ReqOk
<1>2. KnowsTx(o)'
  BY <1>1 DEF KnowsTx, TxsTo, Grown
<1>3. KnowsLot(o)'
  BY DEF KnowsLot, OnTx
<1> QED BY <1>2, <1>3 DEF ReqOk, Stage

-----------------------------------------------------------------------------
(* Lots: time, offers, purchases, closings.                                *)
LEMMA KeepSold ==
    ASSUME TradeInv, Grown, NEW l \in Lot, NEW row \in LotRow,
           row.status = lot[l].status, row.winner = lot[l].winner
    PROVE  row.status \in {"SOLD", "SETTLED"} => \E id \in Nat : Sells(id, l, row.winner)'
<1> SUFFICES ASSUME row.status \in {"SOLD", "SETTLED"}
             PROVE  \E id \in Nat : Sells(id, l, row.winner)'
  OBVIOUS
<1>1. PICK id \in Nat : Sells(id, l, lot[l].winner)
  BY DEF TradeInv, LotsOk, Sold
<1> QED BY <1>1 DEF Grown, Sells

LEMMA AtMenus ==
    /\ Listing \subseteq Lot /\ Auction \subseteq Lot /\ None \notin Lot
    /\ Listing \cap Auction = {} /\ Amount \subseteq Price /\ Price \subseteq Nat
    /\ Buyer \subseteq User /\ Willing \subseteq Bid /\ Methods \subseteq Kinds
    /\ Proc \subseteq Worker /\ Cron \subseteq Worker
BY TradingAssumption DEF Lot, Price, Bid, Kinds, Worker

LEMMA LapseKeeps == ASSUME TradeInv, NEW l \in Lot, Lapse(l) PROVE TradeInv'
<1>1. TxsTo /\ Grown
  BY TxsSame DEF Lapse
<1>2. LotsOk' /\ BidsOk'
  BY <1>1, LotsStay DEF Lapse, TradeInv, BidsOk
<1> QED BY <1>1, <1>2, NoneMoves DEF Lapse

(* A request is taken up: nothing is written yet.                          *)
LEMMA TakenUp ==
    ASSUME TradeInv, NEW p \in Worker, NEW o \in ReqRow, Become(p, o),
           UNCHANGED <<lot, bids, tx, answered>>, ReqOk(o)
    PROVE  TradeInv'
<1>1. TxsTo /\ Grown
  BY TxsSame
<1>2. LotsOk' /\ BidsOk'
  BY <1>1, LotsStay DEF TradeInv, BidsOk
<1>3. ReqOk(o)'
  BY <1>1, ReqStays DEF TradeInv
<1> QED BY <1>1, <1>2, <1>3, TradeMoves

LEMMA BuyKeeps ==
    ASSUME TradeInv, NEW p \in Worker, NEW l \in Lot, NEW item \in Lot, NEW who \in Buyer,
           NEW method \in Methods, Buy(p, l, who, method, item)
    PROVE  TradeInv'
<1>1. PICK r \in ReqRow :
         /\ r = Request("buy", "create", l) /\ r.op = "buy" /\ r.pc = "create" /\ r.lot = l
         /\ r.copy = lot[l] /\ r.state = "PENDING" /\ ~r.thrown /\ r.id = 0
  <2>1. "buy" \in Ops /\ "create" \in Pcs /\ l \in Lot
    BY AtMenus DEF Ops, Pcs
  <2> QED BY <2>1, RequestIs
<1> DEFINE o == [r EXCEPT !.bid = <<who, 0, method, item>>]
<1>2. <<who, 0, method, item>> \in Offer /\ <<who, 0, method, item>>[4] = item
  BY AtMenus DEF Offer, Price
<1>3. Become(p, o)
  BY <1>1 DEF Buy
<1>4. /\ o \in ReqRow /\ o.op = "buy" /\ o.pc = "create" /\ o.lot = l /\ o.state = "PENDING"
      /\ ~o.thrown /\ o.bid = <<who, 0, method, item>>
  BY <1>1, <1>2 DEF ReqRow
<1> HIDE DEF o
<1>5. ReqOk(o)
  BY <1>2, <1>4 DEF ReqOk, KnowsLot, KnowsTx, KnowsAnswer, Stage, OnTx, Buy
<1> QED BY <1>3, <1>4, <1>5, TakenUp DEF Buy

LEMMA CloseBegins ==
    ASSUME TradeInv, NEW p \in Worker, NEW l \in Lot, NEW op \in {"cancelLot", "expire"},
           Become(p, Request(op, "close", l)), UNCHANGED <<lot, bids, tx, answered>>
    PROVE  TradeInv'
<1>1. PICK o \in ReqRow :
         /\ o = Request(op, "close", l) /\ o.op = op /\ o.pc = "close" /\ o.lot = l
         /\ o.copy = lot[l] /\ o.state = "PENDING" /\ ~o.thrown /\ o.id = 0
  <2>1. op \in Ops /\ "close" \in Pcs /\ l \in Lot
    BY AtMenus DEF Ops, Pcs
  <2> QED BY <2>1, RequestIs
<1>2. ReqOk(o)
  BY <1>1 DEF ReqOk, KnowsLot, KnowsTx, KnowsAnswer, Stage, OnTx
<1>3. Become(p, o)
  BY <1>1
<1> QED BY <1>1, <1>2, <1>3, TakenUp

LEMMA BidBegins ==
    ASSUME TradeInv, NEW p \in Worker, NEW a \in Auction, NEW b \in Willing,
           NEW op \in {"bid", "create"}, op = "bid" => Active(a),
           Become(p, [Request(op, "bid", a) EXCEPT !.bid = <<b.bidder, b.amount>>]),
           UNCHANGED <<lot, bids, tx, answered>>
    PROVE  TradeInv'
<1>1. PICK r \in ReqRow :
         /\ r = Request(op, "bid", a) /\ r.op = op /\ r.pc = "bid" /\ r.lot = a
         /\ r.copy = lot[a] /\ r.state = "PENDING" /\ ~r.thrown /\ r.id = 0
  <2>1. op \in Ops /\ "bid" \in Pcs /\ a \in Lot
    BY AtMenus DEF Ops, Pcs
  <2> QED BY <2>1, RequestIs
<1> DEFINE o == [r EXCEPT !.bid = <<b.bidder, b.amount>>]
<1>2. <<b.bidder, b.amount>> \in User \X Amount
  BY AtMenus DEF Bid
<1>3. Become(p, o)
  BY <1>1
<1>4. /\ o \in ReqRow /\ o.op = op /\ o.pc = "bid" /\ o.lot = a /\ o.copy = lot[a]
      /\ o.state = "PENDING" /\ ~o.thrown /\ o.bid \in User \X Amount
  BY <1>1, <1>2 DEF ReqRow
<1> HIDE DEF o
<1>5. ReqOk(o)
  BY <1>4 DEF ReqOk, KnowsLot, KnowsTx, KnowsAnswer, Stage, OnTx, Active
<1> QED BY <1>3, <1>4, <1>5, TakenUp

LEMMA SettleKeeps ==
    ASSUME TradeInv, NEW p \in Worker, NEW a \in Lot, Settle(p, a)
    PROVE  TradeInv'
<1>1. PICK o \in ReqRow :
         /\ o = Request("settle", "highest", a) /\ o.op = "settle" /\ o.pc = "highest" /\ o.lot = a
         /\ o.copy = lot[a] /\ o.state = "PENDING" /\ ~o.thrown /\ o.id = 0
  <2>1. "settle" \in Ops /\ "highest" \in Pcs /\ a \in Lot
    BY AtMenus DEF Ops, Pcs
  <2> QED BY <2>1, RequestIs
<1>3. Become(p, o)
  BY <1>1 DEF Settle
<1>5. ReqOk(o)
  BY <1>1 DEF ReqOk, KnowsLot, KnowsTx, KnowsAnswer, Stage, OnTx, Settle
<1> QED BY <1>1, <1>3, <1>5, TakenUp DEF Settle

-----------------------------------------------------------------------------
(* The steps of purchases, closings and bids.                              *)
LEMMA ReqKnown ==
    ASSUME TradeInv, NEW p \in Worker
    PROVE  \E r \in ReqRow : r = req[p] /\ ReqOk(r)
BY DEF TradeInv

LEMMA CreateAndExecuteKeeps ==
    ASSUME TradeInv, NEW p \in Worker, CreateAndExecute(p) PROVE TradeInv'
<1>1. PICK r \in ReqRow : r = req[p] /\ ReqOk(r)
  BY ReqKnown
<1>2. r.pc = "create" /\ Created(r.lot, r.bid[4], r.bid[1], r.bid[2], r.bid[3])
  BY <1>1 DEF CreateAndExecute, At
<1>3. r.bid \in Offer /\ r.state = "PENDING"
      /\ \/ r.op = "buy" /\ r.lot \in Listing /\ r.bid[4] \in Listing
         \/ r.op = "settle" /\ r.lot \in Auction /\ r.bid[3] = "native"
  BY <1>1, <1>2 DEF ReqOk, KnowsLot, Stage, OnTx
<1>4. r.bid[1] \in User /\ r.bid[2] \in Price /\ r.bid[3] \in Kinds /\ r.bid[4] \in Lot
  BY <1>3 DEF Offer
<1> DEFINE id == Len(tx) + 1
<1>5. TxsTo /\ id \in DOMAIN tx' /\ id \in Nat /\ tx'[id].lot = r.lot
      /\ tx'[id].buyer = r.bid[1]
  <2>1. r.lot \in Lot /\ (r.bid[3] # "native" => r.lot \in Listing /\ r.bid[4] \in Listing)
    BY <1>3, AtMenus
  <2> QED BY <1>2, <1>4, <2>1, TxsCreated
<1>6. LotsOk' /\ BidsOk'
  BY <1>5, LotsStay DEF TxsTo, CreateAndExecute, TradeInv, BidsOk
<1>7. CASE Done(p)
  BY <1>5, <1>6, <1>7, Ends
<1>8. CASE Become(p, [req[p] EXCEPT !.pc = "load", !.id = id])
  <2>1. PICK i \in Nat : i = id
    BY <1>5
  <2> DEFINE o == [r EXCEPT !.pc = "load", !.id = i]
  <2>2. Become(p, o)
    BY <1>1, <1>8, <2>1
  <2>3. /\ o \in ReqRow /\ o.pc = "load" /\ o.id = i /\ o.lot = r.lot /\ o.op = r.op
        /\ o.bid = r.bid /\ o.state = "PENDING" /\ o.thrown = r.thrown
    BY <1>3 DEF ReqRow, Pcs, OnTx
  <2> HIDE DEF o
  <2>4. i \in DOMAIN tx' /\ tx'[i].lot = r.lot /\ tx'[i].buyer = r.bid[1]
    BY <1>5, <2>1
  <2>5. KnowsTx(o)'
    BY <1>3, <2>3, <2>4 DEF KnowsTx
  <2>6. ReqOk(o)'
    BY <1>3, <2>3, <2>5 DEF ReqOk, KnowsLot, KnowsAnswer, Stage, OnTx
  <2> QED BY <1>5, <1>6, <2>2, <2>3, <2>6, TradeMoves
<1> QED BY <1>7, <1>8 DEF CreateAndExecute

LEMMA CreateRefusedKeeps ==
    ASSUME TradeInv, NEW p \in Worker, CreateRefused(p) PROVE TradeInv'
<1>1. TxsTo /\ Grown
  BY TxsSame DEF CreateRefused
<1>2. LotsOk' /\ BidsOk'
  BY <1>1, LotsStay DEF CreateRefused, TradeInv, BidsOk
<1> QED BY <1>1, <1>2, Ends DEF CreateRefused

(* A row is written with a status that is no sale, and the request is over.*)
LEMMA Unsold ==
    ASSUME TradeInv, NEW p \in Worker, NEW l \in Lot, NEW row \in LotRow, SaveLot(l, row),
           row.status \notin {"SOLD", "SETTLED"}, Done(p), UNCHANGED bids, TxsTo
    PROVE  TradeInv'
<1>1. LotsOk' /\ BidsOk'
  BY LotsSave DEF TxsTo, TradeInv, BidsOk
<1> QED BY <1>1, Ends

LEMMA CloseLotKeeps ==
    ASSUME TradeInv, NEW p \in Worker, CloseLot(p) PROVE TradeInv'
<1>1. PICK r \in ReqRow : r = req[p] /\ ReqOk(r)
  BY ReqKnown
<1> DEFINE row == [r.copy EXCEPT !.status = Closing(r.op)]
<1>2. r.lot \in Lot
  BY <1>1 DEF CloseLot, At, ReqOk, KnowsLot
<1>3. row \in LotRow /\ row.status \notin {"SOLD", "SETTLED"}
  BY DEF Closing, ReqRow, LotRow, LotStatus
<1>4. SaveLot(r.lot, row)
  BY <1>1 DEF CloseLot
<1> HIDE DEF row
<1>5. TxsTo
  BY TxsStay DEF CloseLot
<1> QED BY <1>2, <1>3, <1>4, <1>5, Unsold DEF CloseLot

LEMMA SaveBidKeeps ==
    ASSUME TradeInv, NEW p \in Worker, SaveBid(p) PROVE TradeInv'
<1>1. PICK r \in ReqRow : r = req[p] /\ ReqOk(r)
  BY ReqKnown
<1>2. /\ r.pc = "bid" /\ (r.op = "bid" => r.copy.status = "ACTIVE") /\ r.lot \in Auction
      /\ r.bid \in User \X Amount /\ r.state = "PENDING"
  BY <1>1 DEF SaveBid, At, ReqOk, KnowsLot, Stage, OnTx
<1>3. "price" \in Pcs /\ Goto(p, "price")
  BY DEF Pcs, SaveBid
<1>4. PICK o \in ReqRow :
         /\ Become(p, o) /\ o.pc = "price" /\ o.op = r.op /\ o.lot = r.lot
         /\ o.copy = r.copy /\ o.state = r.state /\ o.thrown = r.thrown /\ o.bid = r.bid
  BY <1>1, <1>3, Went
<1>5. ReqOk(o)'
  BY <1>1, <1>2, <1>4 DEF ReqOk, KnowsLot, KnowsTx, KnowsAnswer, Stage, OnTx
<1>6. TxsTo /\ Grown
  BY TxsSame DEF SaveBid
<1>7. LotsOk'
  BY <1>6, LotsStay DEF SaveBid
<1>8. BidsOk'
  <2> DEFINE b == [bidder |-> r.bid[1], amount |-> r.bid[2]]
  <2>1. bids' = [bids EXCEPT ![r.lot] = bids[r.lot] \cup {b}] /\ bids \in [Auction -> SUBSET Bid]
    BY <1>1 DEF SaveBid, TradeInv, BidsOk
  <2>2. b \in Bid
    <3>1. r.bid[1] \in User /\ r.bid[2] \in Amount
      BY <1>2
    <3> QED BY <3>1 DEF Bid
  <2> HIDE DEF b
  <2> QED BY <1>2, <2>1, <2>2 DEF BidsOk
<1> QED BY <1>4, <1>5, <1>6, <1>7, <1>8, TradeMoves

LEMMA SavePriceKeeps ==
    ASSUME TradeInv, NEW p \in Worker, SavePrice(p) PROVE TradeInv'
<1>1. PICK r \in ReqRow : r = req[p] /\ ReqOk(r)
  BY ReqKnown
<1>2. /\ r.lot \in Auction /\ (r.op = "bid" => r.copy.status = "ACTIVE")
      /\ r.bid \in User \X Amount
  BY <1>1 DEF SavePrice, At, ReqOk, KnowsLot
<1>3. r.bid[2] \in Price /\ r.copy \in LotRow /\ r.lot \in Lot /\ lot[r.lot] \in LotRow
  BY <1>2, AtMenus DEF ReqRow, TradeInv, LotsOk
<1>4. PICK old \in LotRow : old = IF r.op = "bid" THEN r.copy ELSE lot[r.lot]
  BY <1>3
<1> DEFINE row == [old EXCEPT !.price = r.bid[2]]
<1>5. row \in LotRow /\ row.status = old.status /\ row.winner = old.winner
  BY <1>3 DEF LotRow, Price
<1>6. SaveLot(r.lot, row)
  BY <1>1, <1>4 DEF SavePrice
<1> HIDE DEF row
<1>7. PICK c \in LotRow : c = row
  BY <1>5
<1>8. TxsTo /\ Grown
  BY TxsSame DEF SavePrice
<1>9. CASE r.op = "bid"
  <2>1. c.status \notin {"SOLD", "SETTLED"}
    BY <1>2, <1>4, <1>5, <1>7, <1>9
  <2> QED BY <1>3, <1>6, <1>7, <1>8, <2>1, Unsold DEF SavePrice
<1>10. CASE r.op # "bid"
  <2>1. c.status = lot[r.lot].status /\ c.winner = lot[r.lot].winner
    BY <1>4, <1>5, <1>7, <1>10
  <2>2. c.status \in {"SOLD", "SETTLED"} => \E id \in Nat : Sells(id, r.lot, c.winner)'
    BY <1>3, <1>8, <2>1, KeepSold
  <2>3. SaveLot(r.lot, c)
    BY <1>6, <1>7 DEF SaveLot
  <2>4. LotsOk' /\ BidsOk'
    BY <1>3, <1>8, <2>2, <2>3, LotsSave DEF SavePrice, TradeInv, BidsOk
  <2> QED BY <1>8, <2>4, Ends DEF SavePrice
<1> QED BY <1>9, <1>10

LEMMA NoSaleKeeps ==
    ASSUME TradeInv, NEW p \in Worker, NoSale(p) PROVE TradeInv'
<1>1. PICK r \in ReqRow : r = req[p] /\ ReqOk(r)
  BY ReqKnown
<1> DEFINE row == [r.copy EXCEPT !.status = "COMPLETED"]
<1>2. r.lot \in Lot
  BY <1>1, AtMenus DEF NoSale, At, ReqOk, KnowsLot
<1>3. row \in LotRow /\ row.status = "COMPLETED"
  BY DEF ReqRow, LotRow, LotStatus
<1>4. SaveLot(r.lot, row)
  BY <1>1 DEF NoSale
<1> HIDE DEF row
<1>5. TxsTo
  BY TxsStay DEF NoSale
<1> QED BY <1>2, <1>3, <1>4, <1>5, Unsold DEF NoSale

LEMMA HighestKeeps ==
    ASSUME TradeInv, NEW p \in Worker, Highest(p) PROVE TradeInv'
<1>1. PICK r \in ReqRow : r = req[p] /\ ReqOk(r)
  BY ReqKnown
<1>2. r.lot \in Auction /\ r.op = "settle" /\ r.state = "PENDING"
  BY <1>1 DEF Highest, At, ReqOk, KnowsLot, Stage, OnTx
<1>3. PICK b \in bids[r.lot] :
         Become(p, [r EXCEPT !.pc = "create", !.bid = <<b.bidder, b.amount, "native", r.lot>>])
  BY <1>1 DEF Highest
<1>4. b \in Bid
  BY <1>2 DEF TradeInv, BidsOk
<1>5. <<b.bidder, b.amount, "native", r.lot>> \in Offer
  BY <1>2, <1>4, AtMenus DEF Offer, Bid, Kinds
<1> DEFINE o == [r EXCEPT !.pc = "create", !.bid = <<b.bidder, b.amount, "native", r.lot>>]
<1>6. /\ o \in ReqRow /\ o.pc = "create" /\ o.op = "settle" /\ o.lot = r.lot
      /\ o.bid \in Offer /\ o.bid[3] = "native" /\ o.state = "PENDING" /\ o.thrown = r.thrown
  BY <1>2, <1>5 DEF ReqRow, Pcs
<1>7. Become(p, o)
  BY <1>3
<1> HIDE DEF o
<1>8. ReqOk(o)
  BY <1>2, <1>6 DEF ReqOk, KnowsLot, KnowsTx, KnowsAnswer, Stage, OnTx
<1> QED BY <1>6, <1>7, <1>8, TakenUp DEF Highest

-----------------------------------------------------------------------------
(* Requests on transactions.                                               *)
LEMMA RowsOfTx ==
    ASSUME TradeInv, NEW id \in DOMAIN tx
    PROVE  /\ id \in Nat /\ tx[id] \in TxRow /\ TxOk(id) /\ tx[id].lot \in Lot
           /\ tx[id].item \in Lot /\ tx[id].state \in States /\ tx[id].buyer \in User
           /\ tx[id].amount \in Price /\ tx[id].kind \in Kinds
<1>1. tx \in Seq(TxRow) /\ TxOk(id)
  BY DEF TradeInv, TxsOk
<1>2. id \in Nat /\ tx[id] \in TxRow
  BY <1>1
<1> QED BY <1>1, <1>2 DEF TxRow, Price, Kinds

LEMMA Working ==
    ASSUME TradeInv, NEW p \in Worker, req[p].pc \in OnTx
    PROVE  \E r \in ReqRow :
              /\ r = req[p] /\ ReqOk(r) /\ r.id \in DOMAIN tx /\ r.pc \in OnTx
              /\ (r.op # "batch" => r.lot = tx[r.id].lot /\ r.lot \in Lot)
              /\ (r.state = "COMPLETED" => "done" \in answered[r.id])
<1>1. PICK r \in ReqRow : r = req[p] /\ ReqOk(r)
  BY ReqKnown
<1>2. /\ r.id \in DOMAIN tx /\ (r.op # "batch" => r.lot = tx[r.id].lot)
      /\ (r.state = "COMPLETED" => "done" \in answered[r.id])
  BY <1>1 DEF ReqOk, KnowsTx, KnowsAnswer
<1> QED BY <1>1, <1>2, RowsOfTx

LEMMA OperateKeeps ==
    ASSUME TradeInv, NEW p \in Worker, NEW op \in Operations, NEW id, Operate(p, op, id)
    PROVE  TradeInv'
<1>1. op \in {"execute", "cancel", "recover", "view"} /\ id \in DOMAIN tx
  BY TradingAssumption DEF Operate
<1>2. id \in Nat /\ tx[id].lot \in Lot
  BY <1>1, RowsOfTx
<1>3. PICK l \in Lot : l = tx[id].lot
  BY <1>2
<1> DEFINE o == [Idle EXCEPT !.op = op, !.pc = "load", !.id = id, !.lot = l]
<1>4. /\ o \in ReqRow /\ o.op = op /\ o.pc = "load" /\ o.id = id /\ o.lot = l
      /\ o.state = "PENDING" /\ ~o.thrown
  BY <1>1, <1>2, IdleOk DEF ReqRow, Ops, Pcs, OnTx
<1>5. Become(p, o)
  BY <1>3 DEF Operate
<1> HIDE DEF o
<1>6. ReqOk(o)
  BY <1>1, <1>3, <1>4 DEF ReqOk, KnowsLot, KnowsTx, KnowsAnswer, Stage, OnTx
<1> QED BY <1>4, <1>5, <1>6, TakenUp DEF Operate

LEMMA BatchExecuteKeeps ==
    ASSUME TradeInv, NEW p \in Worker, NEW id, BatchExecute(p, id)
    PROVE  TradeInv'
<1>1. id \in DOMAIN tx
  BY DEF BatchExecute
<1>2. id \in Nat /\ tx[id].state \in States /\ TxOk(id)
  BY <1>1, RowsOfTx
<1>3. PICK s \in States : s = tx[id].state
  BY <1>2
<1> DEFINE o == [Idle EXCEPT !.op = "batch", !.pc = "batch", !.id = id, !.state = s]
<1>4. /\ o \in ReqRow /\ o.op = "batch" /\ o.pc = "batch" /\ o.id = id
      /\ o.state = s /\ ~o.thrown
  BY <1>2, IdleOk DEF ReqRow, Ops, Pcs, OnTx
<1>5. Become(p, o)
  BY <1>3 DEF BatchExecute
<1> HIDE DEF o
<1>6. ReqOk(o)
  BY <1>1, <1>2, <1>3, <1>4 DEF ReqOk, KnowsLot, KnowsTx, KnowsAnswer, Stage, OnTx, TxOk
<1> QED BY <1>4, <1>5, <1>6, TakenUp DEF BatchExecute

LEMMA ConfirmOffchainPaymentKeeps ==
    ASSUME TradeInv, NEW p \in Worker, NEW id, ConfirmOffchainPayment(p, id)
    PROVE  TradeInv'
<1>1. id \in DOMAIN tx /\ tx[id].kind = "offchain"
  BY DEF ConfirmOffchainPayment
<1>2. id \in Nat /\ tx[id].lot \in Lot
  BY <1>1, RowsOfTx
<1>3. PICK l \in Lot : l = tx[id].lot
  BY <1>2
<1>4. PICK r \in ReqRow :
         /\ r = Request("confirm", "confirm", l) /\ r.op = "confirm" /\ r.pc = "confirm"
         /\ r.lot = l /\ r.copy = lot[l] /\ r.state = "PENDING" /\ ~r.thrown /\ r.id = 0
  <2>1. "confirm" \in Ops /\ "confirm" \in Pcs
    BY DEF Ops, Pcs, OnTx
  <2> QED BY <2>1, RequestIs
<1> DEFINE o == [r EXCEPT !.id = id]
<1>5. /\ o \in ReqRow /\ o.op = "confirm" /\ o.pc = "confirm" /\ o.id = id /\ o.lot = l
      /\ o.state = "PENDING" /\ ~o.thrown
  BY <1>2, <1>4 DEF ReqRow
<1>6. Become(p, o)
  BY <1>3, <1>4 DEF ConfirmOffchainPayment
<1> HIDE DEF o
<1>7. ReqOk(o)
  BY <1>1, <1>3, <1>5 DEF ReqOk, KnowsLot, KnowsTx, KnowsAnswer, Stage, OnTx
<1> QED BY <1>5, <1>6, <1>7, TakenUp DEF ConfirmOffchainPayment

LEMMA LoadKeeps == ASSUME TradeInv, NEW p \in Worker, Load(p) PROVE TradeInv'
<1>1. req[p].pc = "load" /\ req[p].pc \in OnTx
  BY DEF Load, At, OnTx
<1>2. PICK r \in ReqRow :
         /\ r = req[p] /\ ReqOk(r) /\ r.id \in DOMAIN tx /\ r.pc \in OnTx
  BY <1>1, Working
<1>3. PICK s \in States : s = tx[r.id].state /\ (s = "COMPLETED" => "done" \in answered[r.id])
  BY <1>2, RowsOfTx DEF TxOk
<1> DEFINE o == [r EXCEPT !.pc = "sync", !.state = s]
<1>4. /\ o \in ReqRow /\ o.op = r.op /\ o.pc = "sync" /\ o.id = r.id /\ o.lot = r.lot
      /\ o.state = s /\ o.thrown = r.thrown /\ o.bid = r.bid
  BY DEF ReqRow, Pcs, OnTx
<1>5. Become(p, o)
  BY <1>2, <1>3 DEF Load, Become
<1> HIDE DEF o
<1>6. TxsTo /\ Grown
  BY TxsSame DEF Load
<1>7. KnowsAnswer(o)
  BY <1>2, <1>3, <1>4 DEF KnowsAnswer
<1>8. Stage(o)
  BY <1>1, <1>2, <1>4 DEF Stage, OnTx, ReqOk
<1>9. KnowsTx(o) /\ KnowsLot(o)
  BY <1>2, <1>4 DEF ReqOk, KnowsTx, KnowsLot, OnTx
<1> QED BY <1>4, <1>5, <1>7, <1>8, <1>9, TakenUp DEF Load, ReqOk

(* A step on a transaction that leaves the lots alone.                     *)
LEMMA OnTxMoves ==
    ASSUME TradeInv, TxsTo, UNCHANGED <<lot, bids>>, NEW p \in Worker, req[p].pc \in OnTx,
           NEW o \in ReqRow, Become(p, o), o.pc \in OnTx, o.id = req[p].id,
           o.lot = req[p].lot, o.op = req[p].op, o.bid = req[p].bid, KnowsAnswer(o)', Stage(o)
    PROVE  TradeInv'
<1>1. LotsOk' /\ BidsOk'
  BY LotsStay DEF TxsTo, TradeInv, BidsOk
<1>2. ReqOk(o)'
  BY OnTxOk
<1> QED BY <1>1, <1>2, TradeMoves

LEMMA OnTxEnds ==
    ASSUME TradeInv, TxsTo, UNCHANGED <<lot, bids>>, NEW p \in Worker, Done(p)
    PROVE  TradeInv'
<1>1. LotsOk' /\ BidsOk'
  BY LotsStay DEF TxsTo, TradeInv, BidsOk
<1> QED BY <1>1, Ends

(* An exception is caught by the purchase or the confirmation, if any.     *)
LEMMA Throws ==
    ASSUME TradeInv, TxsTo, UNCHANGED <<lot, bids>>, NEW p \in Worker, req[p].pc \in OnTx,
           Threw(p)
    PROVE  TradeInv'
<1>1. PICK r \in ReqRow :
         /\ r = req[p] /\ ReqOk(r) /\ r.id \in DOMAIN tx /\ r.pc \in OnTx
         /\ (r.state = "COMPLETED" => "done" \in answered[r.id])
  BY Working
<1>2. ASSUME NEW pc \in {"load", "after"}, r.op \in {"buy", "settle", "confirm"},
             Become(p, [r EXCEPT !.pc = pc, !.thrown = TRUE])
      PROVE  TradeInv'
  <2> DEFINE o == [r EXCEPT !.pc = pc, !.thrown = TRUE]
  <2>1. /\ o \in ReqRow /\ o.op = r.op /\ o.pc = pc /\ o.id = r.id /\ o.lot = r.lot
        /\ o.state = r.state /\ o.thrown /\ o.bid = r.bid
    BY DEF ReqRow, Pcs, OnTx
  <2>2. Become(p, o)
    BY <1>2
  <2> HIDE DEF o
  <2>3. o.pc \in OnTx /\ Stage(o)
    BY <1>2, <2>1 DEF Stage, OnTx
  <2>4. KnowsAnswer(o)'
    BY <1>1, <1>2, <2>1 DEF KnowsAnswer, TxsTo, Grown
  <2> QED BY <1>1, <2>1, <2>2, <2>3, <2>4, OnTxMoves
<1>3. CASE r.op \in {"buy", "settle"}
  BY <1>1, <1>2, <1>3 DEF Threw
<1>4. CASE r.op = "confirm"
  BY <1>1, <1>2, <1>4 DEF Threw
<1>5. CASE r.op \notin {"buy", "settle", "confirm"}
  <2>1. Done(p)
    BY <1>1, <1>5 DEF Threw, Done
  <2> QED BY <2>1, OnTxEnds
<1> QED BY <1>3, <1>4, <1>5

LEMMA SaysNothingNew ==
    ASSUME TradeInv, NEW p \in Worker, req[p].pc \in OnTx, NEW s \in States,
           s = "COMPLETED" => "done" \in answered[req[p].id],
           SaveState(req[p].id, s), UNCHANGED answered
    PROVE  TxsTo
<1>1. PICK id \in DOMAIN tx : id = req[p].id
  BY Working
<1> QED BY <1>1, TxsSaved

LEMMA SyncContractStateKeeps ==
    ASSUME TradeInv, NEW p \in Worker, SyncContractState(p) PROVE TradeInv'
<1>1. req[p].pc = "sync" /\ req[p].pc \in OnTx /\ "check" \in Pcs /\ "check" \in OnTx
  BY DEF SyncContractState, At, OnTx, Pcs
<1>2. PICK r \in ReqRow :
         /\ r = req[p] /\ ReqOk(r) /\ r.id \in DOMAIN tx /\ r.pc \in OnTx
         /\ (r.state = "COMPLETED" => "done" \in answered[r.id])
  BY <1>1, Working
<1>3. ASSUME NEW s \in {r.state, "FAILED"}, TxsTo,
             Become(p, [r EXCEPT !.pc = "check", !.state = s])
      PROVE  TradeInv'
  <2> DEFINE o == [r EXCEPT !.pc = "check", !.state = s]
  <2>1. /\ o \in ReqRow /\ o.op = r.op /\ o.pc = "check" /\ o.id = r.id /\ o.lot = r.lot
        /\ o.state = s /\ o.thrown = r.thrown /\ o.bid = r.bid
    BY <1>1 DEF ReqRow, States
  <2>2. Become(p, o)
    BY <1>3
  <2> HIDE DEF o
  <2>3. o.pc \in OnTx /\ Stage(o)
    BY <1>1, <1>2, <2>1 DEF Stage, OnTx, ReqOk
  <2>4. KnowsAnswer(o)'
    BY <1>2, <1>3, <2>1 DEF KnowsAnswer, TxsTo, Grown
  <2> QED BY <1>1, <1>2, <1>3, <2>1, <2>2, <2>3, <2>4, OnTxMoves DEF SyncContractState
<1>4. CASE Goto(p, "check") /\ UNCHANGED tx
  <2>1. TxsTo
    BY <1>4, TxsSame DEF SyncContractState
  <2>2. Become(p, [r EXCEPT !.pc = "check", !.state = r.state])
    BY <1>2, <1>4 DEF Goto, Become, ReqRow
  <2> QED BY <2>1, <2>2, <1>3
<1>5. CASE \E s \in {r.state, "FAILED"} :
              /\ req' = [req EXCEPT ![p].pc = "check", ![p].state = s]
              /\ SaveState(r.id, s)
  <2>1. PICK s \in {r.state, "FAILED"} :
           /\ req' = [req EXCEPT ![p].pc = "check", ![p].state = s]
           /\ SaveState(r.id, s)
    BY <1>5
  <2>2. Become(p, [r EXCEPT !.pc = "check", !.state = s])
    BY <1>2, <2>1 DEF Become
  <2>3. s \in States
    BY DEF ReqRow, States
  <2>4. TxsTo
    BY <1>1, <1>2, <2>1, <2>3, SaysNothingNew DEF SyncContractState
  <2> QED BY <1>3, <2>2, <2>4
<1> QED BY <1>2, <1>4, <1>5 DEF SyncContractState

LEMMA GoesOn ==
    ASSUME TradeInv, TxsTo, UNCHANGED <<lot, bids>>, NEW p \in Worker, req[p].pc \in OnTx,
           req[p].op # "batch", NEW pc \in OnTx \ {"batch"}, Goto(p, pc),
           pc \in {"apply", "finish"} => "done" \in answered'[req[p].id],
           pc = "after" => req[p].thrown,
           pc \in {"contract", "apply", "finish"} =>
               req[p].op \in {"buy", "settle", "execute", "confirm"}
    PROVE  TradeInv'
<1>1. PICK r \in ReqRow :
         /\ r = req[p] /\ ReqOk(r) /\ r.id \in DOMAIN tx /\ r.pc \in OnTx
         /\ (r.state = "COMPLETED" => "done" \in answered[r.id])
  BY Working
<1>2. PICK o \in ReqRow :
         /\ Become(p, o) /\ o.pc = pc /\ o.op = r.op /\ o.lot = r.lot /\ o.id = r.id
         /\ o.state = r.state /\ o.thrown = r.thrown /\ o.bid = r.bid
  <2>1. pc \in Pcs
    BY DEF Pcs
  <2> QED BY <1>1, <2>1, Went
<1>3. Stage(o)
  BY <1>1, <1>2 DEF ReqOk, Stage
<1>4. KnowsAnswer(o)'
  BY <1>1, <1>2 DEF KnowsAnswer, TxsTo, Grown
<1> QED BY <1>1, <1>2, <1>3, <1>4, OnTxMoves

LEMMA NotBatch ==
    ASSUME TradeInv, NEW p \in Worker, req[p].pc \in OnTx \ {"batch"}
    PROVE  req[p].op # "batch"
BY DEF TradeInv, ReqOk, Stage

LEMMA CheckKeeps == ASSUME TradeInv, NEW p \in Worker, Check(p) PROVE TradeInv'
<1>1. /\ req[p].pc = "check" /\ req[p].pc \in OnTx /\ req[p].op # "batch"
      /\ {"after", "cancel", "recover"} \subseteq OnTx \ {"batch"}
  BY NotBatch DEF Check, At, OnTx
<1>2. TxsTo /\ UNCHANGED <<lot, bids>>
  BY TxsSame DEF Check
<1>3. CASE Done(p)
  BY <1>2, <1>3, OnTxEnds
<1>4. CASE req[p].thrown /\ Goto(p, "after")
  BY <1>1, <1>2, <1>4, GoesOn
<1>5. CASE Threw(p)
  BY <1>1, <1>2, <1>5, Throws
<1>6. CASE req[p].op \in {"cancel", "recover"} /\ Goto(p, req[p].op)
  <2>1. PICK pc \in {"cancel", "recover"} : pc = req[p].op
    BY <1>6
  <2> QED BY <1>1, <1>2, <1>6, <2>1, GoesOn
<1> QED BY <1>3, <1>4, <1>5, <1>6 DEF Check

LEMMA ExecuteKeeps == ASSUME TradeInv, NEW p \in Worker, Execute(p) PROVE TradeInv'
<1>1. /\ req[p].pc = "check" /\ req[p].pc \in OnTx /\ req[p].op # "batch"
      /\ "contract" \in OnTx \ {"batch"} /\ "EXECUTING" \in States
  BY NotBatch DEF Execute, At, OnTx, States
<1>2. TxsTo
  BY <1>1, SaysNothingNew DEF Execute
<1> QED BY <1>1, <1>2, GoesOn DEF Execute

(* The contract's answer is recorded with the state it leads to.           *)
LEMMA Told ==
    ASSUME TradeInv, NEW p \in Worker, req[p].pc \in OnTx, NEW a \in {"done", "failed"},
           Answer(p, a), NEW s \in States, SaveState(req[p].id, s), s # "COMPLETED"
    PROVE  TxsTo /\ a \in answered'[req[p].id]
<1>1. PICK id \in DOMAIN tx : id = req[p].id
  BY Working
<1>2. /\ answered' \in [DOMAIN tx -> Said] /\ a \in answered'[req[p].id]
      /\ \A i \in DOMAIN tx : answered[i] \subseteq answered'[i]
  BY <1>1, TxsAnswered
<1> QED BY <1>1, <1>2, TxsSave

(* Executing comes back: a purchase or a confirmation looks at the outcome.*)
LEMMA Returns ==
    ASSUME TradeInv, TxsTo, UNCHANGED <<lot, bids>>, NEW p \in Worker,
           req[p].pc \in {"contract", "finish"}, NEW s \in States, Returned(p, s),
           answered'[req[p].id] # {}, s = "COMPLETED" => "done" \in answered'[req[p].id]
    PROVE  TradeInv'
<1>1. req[p].pc \in OnTx
  BY DEF OnTx
<1>2. PICK r \in ReqRow : r = req[p] /\ ReqOk(r) /\ r.id \in DOMAIN tx
  BY <1>1, Working
<1>3. r.op \in {"buy", "settle", "execute", "confirm"}
  BY <1>2 DEF ReqOk, Stage
<1>4. CASE r.op = "execute"
  <2>1. Done(p)
    BY <1>2, <1>4 DEF Returned, Done
  <2> QED BY <2>1, OnTxEnds
<1>5. CASE r.op # "execute"
  <2> DEFINE o == [r EXCEPT !.pc = "after", !.state = s]
  <2>1. /\ o \in ReqRow /\ o.op = r.op /\ o.pc = "after" /\ o.id = r.id /\ o.lot = r.lot
        /\ o.state = s /\ o.thrown = r.thrown /\ o.bid = r.bid
    BY DEF ReqRow, Pcs, OnTx
  <2>2. Become(p, o)
    BY <1>2, <1>5 DEF Returned
  <2> HIDE DEF o
  <2>3. o.pc \in OnTx /\ Stage(o)
    BY <1>3, <1>5, <2>1 DEF Stage, OnTx
  <2>4. KnowsAnswer(o)'
    BY <1>2, <2>1 DEF KnowsAnswer, TxsTo, Grown
  <2> QED BY <1>1, <1>2, <2>1, <2>2, <2>3, <2>4, OnTxMoves
<1> QED BY <1>4, <1>5

LEMMA ExecutionFailsKeeps ==
    ASSUME TradeInv, NEW p \in Worker, ExecutionFails(p) PROVE TradeInv'
<1>1. /\ req[p].pc = "contract" /\ req[p].pc \in OnTx /\ "FAILED" \in States
  BY DEF ExecutionFails, At, OnTx, States
<1>2. CASE Answer(p, "failed") /\ Returned(p, "FAILED")
  <2>1. TxsTo /\ "failed" \in answered'[req[p].id]
    BY <1>1, <1>2, Told DEF ExecutionFails
  <2> QED BY <1>1, <1>2, <2>1, Returns DEF ExecutionFails
<1>3. CASE Threw(p) /\ UNCHANGED answered
  <2>1. TxsTo
    BY <1>1, <1>3, SaysNothingNew DEF ExecutionFails
  <2> QED BY <1>1, <1>3, <2>1, Throws DEF ExecutionFails
<1> QED BY <1>2, <1>3 DEF ExecutionFails

LEMMA ExecutedKeeps == ASSUME TradeInv, NEW p \in Worker, Executed(p) PROVE TradeInv'
<1>1. /\ req[p].pc = "contract" /\ req[p].pc \in OnTx /\ req[p].op # "batch"
      /\ "apply" \in OnTx \ {"batch"}
  BY NotBatch DEF Executed, At, OnTx
<1>2. PICK r \in ReqRow : r = req[p] /\ ReqOk(r) /\ r.id \in DOMAIN tx
  BY <1>1, Working
<1>3. r.op \in {"buy", "settle", "execute", "confirm"}
  BY <1>1, <1>2 DEF ReqOk, Stage
<1>4. /\ answered' \in [DOMAIN tx -> Said] /\ "done" \in answered'[r.id]
      /\ \A i \in DOMAIN tx : answered[i] \subseteq answered'[i]
  BY <1>2, TxsAnswered DEF Executed
<1>5. TxsTo
  BY <1>4 DEF Executed, TxsTo, TxsOk, TxOk, Grown, TradeInv
<1> QED BY <1>1, <1>2, <1>3, <1>4, <1>5, GoesOn DEF Executed

LEMMA ApplySettlementKeeps ==
    ASSUME TradeInv, NEW p \in Worker, ApplySettlement(p) PROVE TradeInv'
<1>1. /\ req[p].pc = "apply" /\ req[p].pc \in OnTx /\ req[p].op # "batch"
      /\ "finish" \in OnTx /\ "finish" \in Pcs
  BY NotBatch DEF ApplySettlement, At, OnTx, Pcs
<1>2. PICK r \in ReqRow :
         /\ r = req[p] /\ ReqOk(r) /\ r.id \in DOMAIN tx /\ r.pc \in OnTx
         /\ (r.op # "batch" => r.lot = tx[r.id].lot /\ r.lot \in Lot)
         /\ (r.state = "COMPLETED" => "done" \in answered[r.id])
  BY <1>1, Working
<1>3. TxsTo /\ Grown
  BY TxsSame DEF ApplySettlement
<1>4. /\ r.op \in {"buy", "settle", "execute", "confirm"} /\ r.lot = tx[r.id].lot
      /\ r.lot \in Lot /\ "done" \in answered[r.id]
  BY <1>1, <1>2 DEF ReqOk, Stage, KnowsAnswer
<1>5. PICK row \in LotRow : row = Settled(tx[r.id])
  <2>1. /\ tx[r.id].amount \in Price /\ tx[r.id].buyer \in User
        /\ lot[tx[r.id].lot] \in LotRow
    BY <1>2, <1>4, RowsOfTx DEF TradeInv, LotsOk
  <2> QED BY <2>1 DEF Settled, LotRow, LotStatus, Price
<1>6. SaveLot(r.lot, row)
  BY <1>2, <1>5 DEF ApplySettlement
<1>7. r.lot \in Auction => row.winner = tx[r.id].buyer
  BY <1>4, <1>5, AtMenus DEF Settled
<1>8. Sells(r.id, r.lot, row.winner)'
  BY <1>2, <1>3, <1>4, <1>7 DEF Sells, ApplySettlement
<1>9. r.id \in Nat
  BY <1>2, RowsOfTx
<1>10. LotsOk' /\ BidsOk'
  BY <1>3, <1>4, <1>6, <1>8, <1>9, LotsSave DEF ApplySettlement, TradeInv, BidsOk
<1>11. PICK o \in ReqRow :
         /\ Become(p, o) /\ o.pc = "finish" /\ o.op = r.op /\ o.lot = r.lot /\ o.id = r.id
         /\ o.state = r.state /\ o.thrown = r.thrown /\ o.bid = r.bid
  BY <1>1, <1>2, Went DEF ApplySettlement
<1>12. Stage(o)
  BY <1>1, <1>2, <1>4, <1>11 DEF ReqOk, Stage
<1>13. KnowsAnswer(o)'
  BY <1>2, <1>3, <1>4, <1>11 DEF KnowsAnswer, Grown
<1>14. ReqOk(o)'
  BY <1>1, <1>2, <1>3, <1>11, <1>12, <1>13, OnTxOk
<1> QED BY <1>3, <1>10, <1>11, <1>14, TradeMoves

LEMMA FinishKeeps == ASSUME TradeInv, NEW p \in Worker, Finish(p) PROVE TradeInv'
<1>1. req[p].pc = "finish" /\ req[p].pc \in OnTx /\ "COMPLETED" \in States
  BY DEF Finish, At, OnTx, States
<1>2. "done" \in answered[req[p].id]
  BY <1>1 DEF TradeInv, ReqOk, KnowsAnswer
<1>3. TxsTo
  BY <1>1, <1>2, SaysNothingNew DEF Finish
<1> QED BY <1>1, <1>2, <1>3, Returns DEF Finish

LEMMA ApplyFailsKeeps == ASSUME TradeInv, NEW p \in Worker, ApplyFails(p) PROVE TradeInv'
<1>1. req[p].pc \in OnTx /\ "FAILED" \in States
  BY DEF ApplyFails, At, OnTx, States
<1>2. TxsTo
  BY <1>1, SaysNothingNew DEF ApplyFails
<1> QED BY <1>1, <1>2, Throws DEF ApplyFails

LEMMA AfterKeeps == ASSUME TradeInv, NEW p \in Worker, After(p) PROVE TradeInv'
<1>1. req[p].pc = "after" /\ req[p].pc \in OnTx /\ req[p].op # "batch" /\ "FAILED" \in States
  BY NotBatch DEF After, At, OnTx, States
<1>2. PICK r \in ReqRow :
         /\ r = req[p] /\ ReqOk(r) /\ r.id \in DOMAIN tx /\ r.pc \in OnTx
         /\ (r.op # "batch" => r.lot = tx[r.id].lot /\ r.lot \in Lot)
         /\ (r.state = "COMPLETED" => "done" \in answered[r.id])
  BY <1>1, Working
<1>3. /\ r.op \in {"buy", "settle", "confirm"} /\ r.lot = tx[r.id].lot /\ r.lot \in Lot
      /\ (~r.thrown => answered[r.id] # {})
      /\ (r.op = "settle" => r.bid \in Offer /\ tx[r.id].buyer = r.bid[1])
      /\ (r.op = "buy" => r.lot \in Listing)
      /\ (r.op = "confirm" => tx[r.id].kind = "offchain")
  BY <1>1, <1>2 DEF ReqOk, Stage, KnowsAnswer, KnowsTx
<1>4. /\ r.id \in Nat /\ tx[r.id].lot \in Lot /\ tx[r.id].item \in Lot
      /\ (tx[r.id].kind # "native" => tx[r.id].lot \in Listing /\ tx[r.id].item \in Listing)
  BY <1>2, RowsOfTx DEF TxOk
<1>5. lot' = Outcome(r) /\ Done(p) /\ UNCHANGED <<bids, answered>>
  BY <1>2 DEF After
<1>6. TxsTo
  <2>1. CASE r.op = "confirm" /\ r.thrown
    BY <1>1, <1>2, <2>1, SaysNothingNew DEF After
  <2>2. CASE ~(r.op = "confirm" /\ r.thrown)
    BY <1>2, <2>2, TxsSame DEF After
  <2> QED BY <2>1, <2>2
<1>7. Grown /\ BidsOk'
  BY <1>5, <1>6 DEF TxsTo, TradeInv, BidsOk
<1>8. CASE r.op = "settle"
  <2> DEFINE s == IF r.state = "COMPLETED" THEN "SETTLED" ELSE "COMPLETED"
             row == [status |-> s, price |-> r.bid[2], winner |-> r.bid[1]]
  <2>1. r.bid[1] \in User /\ r.bid[2] \in Price
    BY <1>3, <1>8 DEF Offer
  <2>2. row \in LotRow /\ row.status = s /\ row.winner = r.bid[1]
    BY <2>1 DEF LotRow, LotStatus, Price
  <2>3. SaveLot(r.lot, row)
    BY <1>5, <1>8 DEF Outcome, SaveLot
  <2> HIDE DEF row
  <2>4. row.status \in {"SOLD", "SETTLED"} => Sells(r.id, r.lot, row.winner)'
    BY <1>2, <1>3, <1>5, <1>7, <1>8, <2>2 DEF Sells, Grown
  <2>5. LotsOk'
    BY <1>3, <1>4, <1>7, <2>2, <2>3, <2>4, LotsSave
  <2> QED BY <1>5, <1>6, <1>7, <2>5, Ends
<1>9. CASE r.op = "buy"
  <2>1. ASSUME NEW l \in Lot
        PROVE  /\ lot'[l] \in LotRow /\ lot'[l].winner = lot[l].winner
               /\ \/ lot'[l].status = lot[l].status
                  \/ l = r.lot /\ r.state = "COMPLETED"
                  \/ l = tx[r.id].item /\ tx[r.id].kind = "bundle" /\ ~r.thrown
    <3>1. lot[l] \in LotRow
      BY DEF TradeInv, LotsOk
    <3>2. lot'[l] = IF \/ l = r.lot /\ r.state = "COMPLETED"
                       \/ l = tx[r.id].item /\ tx[r.id].kind = "bundle" /\ ~r.thrown
                    THEN [lot[l] EXCEPT !.status = "SOLD"] ELSE lot[l]
      BY <1>5, <1>9 DEF Outcome
    <3> QED BY <3>1, <3>2 DEF LotRow, LotStatus
  <2>2. lot' \in [Lot -> LotRow]
    <3>1. lot' = [l \in Lot |-> lot'[l]]
      BY <1>5, <1>9 DEF Outcome
    <3> QED BY <2>1, <3>1
  <2>3. ASSUME NEW l \in Lot, lot'[l].status \in {"SOLD", "SETTLED"}
        PROVE  \E id \in Nat : Sells(id, l, lot[l].winner)'
    <3>1. CASE lot'[l].status = lot[l].status
      <4>1. PICK id \in Nat : Sells(id, l, lot[l].winner)
        BY <2>3, <3>1 DEF TradeInv, LotsOk, Sold
      <4> QED BY <1>7, <2>1, <4>1 DEF Grown, Sells
    <3>2. CASE \/ l = r.lot /\ r.state = "COMPLETED"
               \/ l = tx[r.id].item /\ tx[r.id].kind = "bundle" /\ ~r.thrown
      <4>1. l \in Listing /\ l \notin Auction
        BY <1>3, <1>4, <1>9, <3>2, AtMenus
      <4>2. /\ answered[r.id] # {} /\ (tx[r.id].kind = "native" => "done" \in answered[r.id])
            /\ l \in {tx[r.id].lot, tx[r.id].item}
        BY <1>2, <1>3, <3>2
      <4>3. Sells(r.id, l, lot[l].winner)'
        BY <1>2, <1>7, <4>1, <4>2 DEF Sells, Grown
      <4> QED BY <1>4, <4>3
    <3> QED BY <2>1, <3>1, <3>2
  <2>4. LotsOk'
    BY <2>2, <2>3 DEF LotsOk, Sold
  <2> QED BY <1>5, <1>6, <1>7, <2>4, Ends
<1>10. CASE r.op = "confirm" /\ r.thrown
  <2>1. UNCHANGED lot
    BY <1>5, <1>10 DEF Outcome
  <2> QED BY <1>5, <1>6, <1>7, <2>1, LotsStay, Ends
<1>11. CASE r.op = "confirm" /\ ~r.thrown
  <2>1. lot[r.lot] \in LotRow
    BY <1>3 DEF TradeInv, LotsOk
  <2>2. PICK row \in LotRow : row = [lot[r.lot] EXCEPT !.status = "SOLD"]
    BY <2>1 DEF LotRow, LotStatus
  <2>3. SaveLot(r.lot, row)
    BY <1>5, <1>11, <2>2 DEF Outcome, SaveLot
  <2>4. r.lot \notin Auction /\ tx[r.id].kind # "native"
    BY <1>3, <1>4, <1>11, AtMenus
  <2>5. Sells(r.id, r.lot, row.winner)'
    BY <1>2, <1>3, <1>5, <1>7, <1>11, <2>4 DEF Sells, Grown
  <2>6. LotsOk'
    BY <1>3, <1>4, <1>7, <2>3, <2>5, LotsSave
  <2> QED BY <1>5, <1>6, <1>7, <2>6, Ends
<1> QED BY <1>3, <1>8, <1>9, <1>10, <1>11

(* The last step of a request that only saves a state.                     *)
LEMMA SavesAndEnds ==
    ASSUME TradeInv, NEW p \in Worker, req[p].pc \in OnTx, NEW s \in States \ {"COMPLETED"},
           SaveState(req[p].id, s), Done(p), UNCHANGED <<lot, bids, answered>>
    PROVE  TradeInv'
<1>1. TxsTo
  BY SaysNothingNew
<1> QED BY <1>1, OnTxEnds

LEMMA RollbackLotKeeps == ASSUME TradeInv, NEW p \in Worker, RollbackLot(p) PROVE TradeInv'
<1>1. /\ req[p].pc = "recover" /\ req[p].pc \in OnTx /\ req[p].op # "batch"
      /\ "rolled" \in OnTx /\ "rolled" \in Pcs
  BY NotBatch DEF RollbackLot, At, OnTx, Pcs
<1>2. PICK r \in ReqRow :
         /\ r = req[p] /\ ReqOk(r) /\ r.id \in DOMAIN tx /\ r.pc \in OnTx /\ r.lot \in Lot
         /\ (r.state = "COMPLETED" => "done" \in answered[r.id])
  BY <1>1, Working
<1>3. PICK o \in ReqRow :
         /\ Become(p, o) /\ o.pc = "rolled" /\ o.op = r.op /\ o.lot = r.lot /\ o.id = r.id
         /\ o.state = r.state /\ o.thrown = r.thrown /\ o.bid = r.bid
  <2>1. Goto(p, "rolled")
    BY DEF RollbackLot
  <2> QED BY <1>1, <1>2, <2>1, Went
<1>4. lot[r.lot] \in LotRow
  BY <1>2 DEF TradeInv, LotsOk
<1>5. PICK row \in LotRow : row = [lot[r.lot] EXCEPT !.status = "ACTIVE"]
  BY <1>4 DEF LotRow, LotStatus
<1>6. SaveLot(r.lot, row) /\ row.status = "ACTIVE"
  BY <1>2, <1>4, <1>5 DEF RollbackLot, SaveLot, LotRow
<1>7. TxsTo /\ Grown
  BY TxsSame DEF RollbackLot
<1>8. LotsOk' /\ BidsOk'
  BY <1>2, <1>6, <1>7, LotsSave DEF RollbackLot, TradeInv, BidsOk
<1>9. Stage(o)
  BY <1>1, <1>2, <1>3 DEF ReqOk, Stage
<1>10. KnowsAnswer(o)'
  BY <1>2, <1>3, <1>7 DEF KnowsAnswer, Grown
<1>11. ReqOk(o)'
  BY <1>1, <1>2, <1>3, <1>7, <1>9, <1>10, OnTxOk
<1> QED BY <1>3, <1>7, <1>8, <1>11, TradeMoves

LEMMA RequestFailsKeeps == ASSUME TradeInv, NEW p \in Worker, RequestFails(p) PROVE TradeInv'
<1>1. TxsTo /\ UNCHANGED <<lot, bids>>
  BY TxsSame DEF RequestFails
<1>2. CASE Done(p)
  BY <1>1, <1>2, OnTxEnds
<1>3. CASE Caught(req[p]) /\ Threw(p)
  BY <1>1, <1>3, Throws DEF Caught, OnTx
<1> QED BY <1>2, <1>3 DEF RequestFails

LEMMA ConfirmSaveKeeps == ASSUME TradeInv, NEW p \in Worker, ConfirmSave(p) PROVE TradeInv'
<1>1. /\ req[p].pc = "confirm" /\ req[p].pc \in OnTx /\ req[p].op # "batch"
      /\ {"FAILED", "EXECUTING"} \subseteq States \ {"COMPLETED"} /\ "load" \in OnTx \ {"batch"}
  BY NotBatch DEF ConfirmSave, At, OnTx, States
<1>2. CASE SaveState(req[p].id, "FAILED") /\ Done(p)
  BY <1>1, <1>2, SavesAndEnds DEF ConfirmSave
<1>3. CASE SaveState(req[p].id, "EXECUTING") /\ Goto(p, "load")
  <2>1. TxsTo
    BY <1>1, <1>3, SaysNothingNew DEF ConfirmSave
  <2> QED BY <1>1, <1>3, <2>1, GoesOn DEF ConfirmSave
<1> QED BY <1>2, <1>3 DEF ConfirmSave

-----------------------------------------------------------------------------
(* One process takes a step.                                               *)
LEMMA StepKeeps == ASSUME TradeInv, NEW p \in Worker, Step(p) PROVE TradeInv'
<1>1. CASE CreateAndExecute(p) \/ CreateRefused(p) \/ CloseLot(p) \/ SaveBid(p)
           \/ SavePrice(p) \/ NoSale(p) \/ Highest(p)
  BY <1>1, CreateAndExecuteKeeps, CreateRefusedKeeps, CloseLotKeeps, SaveBidKeeps,
     SavePriceKeeps, NoSaleKeeps, HighestKeeps
<1>2. CASE Load(p) \/ SyncContractState(p) \/ Check(p) \/ Execute(p)
           \/ ExecutionFails(p) \/ Executed(p)
  BY <1>2, LoadKeeps, SyncContractStateKeeps, CheckKeeps, ExecuteKeeps,
     ExecutionFailsKeeps, ExecutedKeeps
<1>3. CASE ApplySettlement(p) \/ Finish(p) \/ ApplyFails(p) \/ After(p)
           \/ RollbackLot(p) \/ ConfirmSave(p) \/ RequestFails(p)
  BY <1>3, ApplySettlementKeeps, FinishKeeps, ApplyFailsKeeps, AfterKeeps,
     RollbackLotKeeps, ConfirmSaveKeeps, RequestFailsKeeps
<1>4. CASE Cancel(p)
  <2>1. req[p].pc \in OnTx /\ "CANCELLED" \in States \ {"COMPLETED"}
    BY <1>4 DEF Cancel, At, OnTx, States
  <2> QED BY <1>4, <2>1, SavesAndEnds DEF Cancel
<1>5. CASE Retry(p)
  <2>1. req[p].pc \in OnTx /\ "PENDING" \in States \ {"COMPLETED"}
    BY <1>5 DEF Retry, At, OnTx, States
  <2> QED BY <1>5, <2>1, SavesAndEnds DEF Retry
<1>6. CASE BatchSave(p)
  <2>1. req[p].pc \in OnTx /\ "EXECUTING" \in States \ {"COMPLETED"}
    BY <1>6 DEF BatchSave, At, OnTx, States
  <2> QED BY <1>6, <2>1, SavesAndEnds DEF BatchSave
<1>7. CASE ContractRefuses(p)
  <2>1. TxsTo
    BY <1>7, TxsSame DEF ContractRefuses
  <2> QED BY <1>7, <2>1, OnTxEnds DEF ContractRefuses
<1>8. CASE RolledBack(p)
  <2>1. req[p].pc \in OnTx /\ "ROLLED_BACK" \in States \ {"COMPLETED"}
    BY <1>8 DEF RolledBack, At, OnTx, States
  <2> QED BY <1>8, <2>1, SavesAndEnds DEF RolledBack
<1> QED BY <1>1, <1>2, <1>3, <1>4, <1>5, <1>6, <1>7, <1>8 DEF Step

LEMMA OpenKeeps == ASSUME TradeInv, NEW p \in Worker, Open(p) PROVE TradeInv'
<1>1. CASE \E l, item \in Lot, who \in Buyer, m \in Methods : Buy(p, l, who, m, item)
  BY <1>1, BuyKeeps
<1>2. CASE \E l \in Lot : CancelListing(p, l) \/ CancelAuction(p, l)
                          \/ (p \in Proc /\ Settle(p, l))
  <2>1. PICK l \in Lot : CancelListing(p, l) \/ CancelAuction(p, l) \/ Settle(p, l)
    BY <1>2
  <2>2. CASE Settle(p, l)
    BY <2>2, SettleKeeps
  <2>3. CASE CancelListing(p, l) \/ CancelAuction(p, l)
    BY <2>3, CloseBegins DEF CancelListing, CancelAuction
  <2> QED BY <2>1, <2>2, <2>3
<1>3. CASE \E a \in Auction, b \in Willing : PlaceBid(p, a, b) \/ CreateBid(p, a, b)
  <2>1. PICK a \in Auction, b \in Willing : PlaceBid(p, a, b) \/ CreateBid(p, a, b)
    BY <1>3
  <2>2. CASE PlaceBid(p, a, b)
    <3>1. "bid" \in {"bid", "create"}
      OBVIOUS
    <3> QED BY <2>2, <3>1, BidBegins DEF PlaceBid
  <2>3. CASE CreateBid(p, a, b)
    <3>1. "create" \in {"bid", "create"}
      OBVIOUS
    <3> QED BY <2>3, <3>1, BidBegins DEF CreateBid
  <2> QED BY <2>1, <2>2, <2>3
<1>4. CASE \E op \in Operations, id \in 1..MaxTx :
              Operate(p, op, id) \/ BatchExecute(p, id) \/ ConfirmOffchainPayment(p, id)
  BY <1>4, OperateKeeps, BatchExecuteKeeps, ConfirmOffchainPaymentKeeps
<1> QED BY <1>1, <1>2, <1>3, <1>4 DEF Open

LEMMA CronKeeps == ASSUME TradeInv, NEW c \in Cron, CronRun(c) PROVE TradeInv'
<1>1. c \in Worker
  BY DEF Worker
<1>2. PICK l \in Lot : ExpireListings(c, l) \/ Settle(c, l)
  BY DEF CronRun
<1>3. CASE ExpireListings(c, l)
  BY <1>1, <1>3, CloseBegins DEF ExpireListings
<1>4. CASE Settle(c, l)
  BY <1>1, <1>4, SettleKeeps
<1> QED BY <1>2, <1>3, <1>4

LEMMA TradeStep == ASSUME TradeInv, [Next]_vars PROVE TradeInv'
<1>1. CASE UNCHANGED vars
  <2>1. TxsTo
    BY <1>1, TxsSame DEF vars
  <2>2. LotsOk' /\ BidsOk'
    BY <1>1, <2>1, LotsStay DEF vars, TxsTo, TradeInv, BidsOk
  <2> QED BY <1>1, <2>1, <2>2, NoneMoves DEF vars
<1>2. CASE Next
  BY <1>2, LapseKeeps, StepKeeps, OpenKeeps, CronKeeps DEF Next
<1> QED BY <1>1, <1>2

LEMMA TradeStarts == Init => TradeInv
<1> SUFFICES ASSUME Init PROVE TradeInv
  OBVIOUS
<1>1. TxsOk
  <2>1. CASE tx = <<>> /\ answered = <<>>
    <3>1. tx \in Seq(TxRow) /\ DOMAIN tx = {}
      BY <2>1
    <3>2. answered \in [{} -> Said]
      BY <2>1
    <3> QED BY <3>1, <3>2 DEF TxsOk
  <2>2. ASSUME NEW l \in Listing, NEW who \in Buyer,
               tx = <<NewTx(l, l, who, 0, "offchain")>>, answered = <<{}>>
        PROVE  TxsOk
    <3> DEFINE row == NewTx(l, l, who, 0, "offchain")
    <3>1. l \in Lot /\ who \in User
      BY AtMenus
    <3>2. row \in TxRow /\ row.state = "PENDING" /\ row.lot = l /\ row.item = l
      BY <3>1 DEF NewTx, TxRow, States
    <3>3. tx = <<row>>
      BY <2>2
    <3> HIDE DEF row
    <3>4. tx \in Seq(TxRow) /\ DOMAIN tx = {1} /\ tx[1] = row
      BY <3>2, <3>3
    <3>5. answered \in [{1} -> Said]
      BY <2>2 DEF Said
    <3>6. TxOk(1)
      BY <3>2, <3>4 DEF TxOk
    <3> QED BY <3>4, <3>5, <3>6 DEF TxsOk
  <2> QED BY <2>1, <2>2 DEF Init
<1>2. LotsOk
  <2>1. PICK here \in Menus :
           lot = [l \in Lot |-> IF l \in here THEN [NoLot EXCEPT !.status = "ACTIVE"] ELSE NoLot]
    BY DEF Init
  <2>2. [NoLot EXCEPT !.status = "ACTIVE"] \in LotRow
        /\ [NoLot EXCEPT !.status = "ACTIVE"].status = "ACTIVE"
    BY IdleOk DEF LotRow, LotStatus
  <2>3. \A l \in Lot : lot[l] \in LotRow /\ lot[l].status \notin {"SOLD", "SETTLED"}
    BY <2>1, <2>2, IdleOk
  <2>4. lot \in [Lot -> LotRow]
    BY <2>1, <2>2, IdleOk
  <2> QED BY <2>3, <2>4 DEF LotsOk, Sold
<1>3. BidsOk
  BY DEF Init, BidsOk
<1>4. req = [p \in Worker |-> Idle]
  BY DEF Init
<1>5. ReqOk(Idle)
  BY IdleOk DEF ReqOk, KnowsLot, KnowsTx, KnowsAnswer, Stage, OnTx
<1> QED BY <1>1, <1>2, <1>3, <1>4, <1>5, IdleOk DEF TradeInv

(* A transaction is shown completed only if the contract reported it done, *)
(* however requests on it are interleaved, fail, are retried or overtaken: *)
(* findById, execute, recover, cancel and confirmOffchainPayment.          *)
THEOREM TradesReported == Spec => []CompletedWasReported
<1>1. TradeInv => CompletedWasReported
  BY DEF TradeInv, TxsOk, TxOk, CompletedWasReported
<1> QED BY <1>1, TradeStarts, TradeStep, PTL DEF Spec

(* A listing is sold, an auction settled, only by a transaction about it   *)
(* that the contract answered (a native payment: as done), and an auction  *)
(* only for that transaction's buyer.                                      *)
THEOREM TradesSold == Spec => []SoldByATransaction
<1>1. TradeInv => SoldByATransaction
  BY DEF TradeInv, LotsOk, Sold, Sells, SoldByATransaction
<1> QED BY <1>1, TradeStarts, TradeStep, PTL DEF Spec
=============================================================================
