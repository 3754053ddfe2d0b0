------------------------------ MODULE Trading ------------------------------
(* The marketplace kept in the backend's own tables: listings, auctions    *)
(* with their bids, and the transactions that settle both.  A request is a *)
(* sequence of awaited steps over private copies of rows; saving a copy    *)
(* writes every column of the row, whatever happened to it meanwhile.      *)
(* The transaction contract is called without submitting (invokeContract   *)
(* simulates), so its answers are taken to be any.                         *)
EXTENDS Naturals, Sequences, FiniteSets, FiniteSetsExt

CONSTANTS Listing, Auction, \* ids
          Menus,     \* which lots a behaviour has on offer
          User,      \* who sells, buys and bids
          Seller,    \* the seller of each lot
          Buyer,     \* those who buy from listings
          Willing,   \* who bids how much: a set of bids
          None,
          Amount, Reserve,  \* the amounts bid; the reserve price, 0 for none
          Methods,   \* the ways of paying: "native", "offchain", "bundle"
          Operations,\* the requests on transactions that are made
          Proc,      \* concurrent requests
          Cron,      \* instances running the minute crons
          MaxCalls, MaxTx, MaxFaults  \* bounds

ASSUME TradingAssumption ==
    /\ Listing \cap Auction = {} /\ None \notin Listing \cup Auction \cup User
    /\ \A here \in Menus : here \subseteq Listing \cup Auction
    /\ Seller \in [Listing \cup Auction -> User]
    /\ Buyer \subseteq User /\ Willing \subseteq [bidder : User, amount : Amount]
    /\ Amount \subseteq Nat /\ Reserve \in Nat
    /\ Methods \subseteq {"native", "offchain", "bundle"}
    /\ Operations \subseteq {"execute", "cancel", "recover", "view", "batch", "confirm"}

VARIABLES lot,      \* listing and auction rows
          over,     \* the lots past expiresAt or endTime
          bids,     \* the bid rows of each auction
          tx,       \* transaction rows
          answered, \* history: what the contract said when tx was executed
          req,      \* the request each process is working on
          calls, faults

vars == <<lot, over, bids, tx, answered, req, calls, faults>>

Lot    == Listing \cup Auction
Worker == Proc \cup Cron
States == {"PENDING", "EXECUTING", "COMPLETED", "FAILED", "CANCELLED", "ROLLED_BACK"}
LotStatus == {"NONE", "ACTIVE", "SOLD", "CANCELLED", "EXPIRED", "COMPLETED", "SETTLED"}
LotRow == [status : LotStatus, price : Amount \cup {0}, winner : User \cup {None}]
TxRow  == [lot : Lot, item : Lot, buyer : User, amount : Amount \cup {0},
           kind : {"native", "offchain", "bundle"}, state : States]
Bid    == [bidder : User, amount : Amount]
NoLot  == [status |-> "NONE", price |-> 0, winner |-> None]
Idle   == [op |-> "idle", pc |-> "idle", lot |-> None, copy |-> NoLot, id |-> 0,
           state |-> "PENDING", thrown |-> FALSE, bid |-> <<>>]

TypeOK ==
    /\ lot \in [Lot -> LotRow] /\ over \subseteq Lot
    /\ \A a \in Auction : bids[a] \subseteq Bid
    /\ tx \in Seq(TxRow) /\ Len(tx) <= MaxTx
    /\ answered \in [1..Len(tx) -> SUBSET {"done", "failed"}]
    /\ \A p \in Worker : req[p].copy \in LotRow /\ req[p].state \in States
    /\ calls \in 0..MaxCalls /\ faults \in 0..MaxFaults

NewTx(l, item, who, amount, kind) ==
    [lot |-> l, item |-> item, buyer |-> who, amount |-> amount,
     kind |-> kind, state |-> "PENDING"]

(* Lots on offer, and perhaps a purchase whose payment is awaited.         *)
Init ==
    /\ \E here \in Menus :
          lot = [l \in Lot |-> IF l \in here THEN [NoLot EXCEPT !.status = "ACTIVE"]
                               ELSE NoLot]
    /\ over = {} /\ bids = [a \in Auction |-> {}]
    /\ \/ tx = <<>> /\ answered = <<>>
       \/ /\ "offchain" \in Methods
          /\ \E l \in Listing, who \in Buyer :
                lot[l].status = "ACTIVE" /\ tx = <<NewTx(l, l, who, 0, "offchain")>>
          /\ answered = <<{}>>
    /\ req = [p \in Worker |-> Idle] /\ calls = 0 /\ faults = 0

-----------------------------------------------------------------------------
(* The processes.                                                          *)
Fault   == faults < MaxFaults /\ faults' = faults + 1
At(p, pc) == req[p].pc = pc
Call(p) == p \in Proc /\ At(p, "idle") /\ calls < MaxCalls /\ calls' = calls + 1
Become(p, r) == req' = [req EXCEPT ![p] = r]
Goto(p, pc)  == req' = [req EXCEPT ![p].pc = pc]
Done(p)      == Become(p, Idle)
Active(l)    == lot[l].status = "ACTIVE"
Request(op, pc, l) == [Idle EXCEPT !.op = op, !.pc = pc, !.lot = l, !.copy = lot[l]]
SaveLot(l, row)    == lot' = [lot EXCEPT ![l] = row]
SaveState(id, s)   == tx' = [tx EXCEPT ![id].state = s]

Created(l, item, who, amount, kind) ==
    /\ Len(tx) < MaxTx
    /\ tx' = Append(tx, NewTx(l, item, who, amount, kind))
    /\ answered' = Append(answered, {})

(* Time passes a listing's expiry or an auction's end.                     *)
Lapse(l) ==
    /\ lot[l].status # "NONE" /\ l \notin over /\ over' = over \cup {l}
    /\ UNCHANGED <<lot, bids, tx, answered, req, calls, faults>>

-----------------------------------------------------------------------------
(* ListingService.                                                         *)
Buy(p, l, who, method, item) ==
    /\ l \in Listing /\ Call(p) /\ Active(l) /\ l \notin over /\ method \in Methods
    /\ item \in Listing /\ (method # "bundle" => item = l)
    /\ Become(p, [Request("buy", "create", l) EXCEPT !.bid = <<who, 0, method, item>>])
    /\ UNCHANGED <<lot, over, bids, tx, answered, faults>>

(* The listing (and a bundle's item) is looked up again before the row is  *)
(* written; an auction is not.  A native purchase is refused to the seller,*)
(* who may be the buyer of the other kinds.                                *)
Available(r) ==
    /\ r.op = "settle" \/ (Active(r.lot) /\ Active(r.bid[4]))
    /\ r.bid[3] = "native" => r.bid[1] # Seller[r.lot]

(* An off-chain payment leaves a pending transaction and ends there.       *)
CreateAndExecute(p) ==
    /\ At(p, "create") /\ Available(req[p])
    /\ Created(req[p].lot, req[p].bid[4], req[p].bid[1], req[p].bid[2], req[p].bid[3])
    /\ IF req[p].bid[3] = "offchain" THEN Done(p)
       ELSE Become(p, [req[p] EXCEPT !.pc = "load", !.id = Len(tx) + 1])
    /\ UNCHANGED <<lot, over, bids, calls, faults>>

CreateRefused(p) ==
    /\ At(p, "create")
    /\ \/ ~Available(req[p]) /\ UNCHANGED faults
       \/ Len(tx) = MaxTx /\ UNCHANGED faults
       \/ Fault
    /\ Done(p)
    /\ UNCHANGED <<lot, over, bids, tx, answered, calls>>

CancelListing(p, l) ==
    /\ l \in Listing /\ Call(p) /\ Active(l)
    /\ Become(p, Request("cancelLot", "close", l))
    /\ UNCHANGED <<lot, over, bids, tx, answered, faults>>

(* expireListings; a failed save is logged and comes round again.          *)
ExpireListings(c, l) ==
    /\ c \in Cron /\ At(c, "idle") /\ l \in Listing /\ Active(l) /\ l \in over
    /\ Become(c, Request("expire", "close", l))
    /\ UNCHANGED <<lot, over, bids, tx, answered, calls, faults>>

Closing(op) == IF op = "expire" THEN "EXPIRED" ELSE "CANCELLED"
CloseLot(p) ==
    /\ At(p, "close")
    /\ SaveLot(req[p].lot, [req[p].copy EXCEPT !.status = Closing(req[p].op)])
    /\ Done(p)
    /\ UNCHANGED <<over, bids, tx, answered, calls, faults>>

-----------------------------------------------------------------------------
(* AuctionService and BidService.                                          *)
Best(a) == Max({b.amount : b \in bids[a]} \cup {0})

(* Two services take bids: one compares with the price in the row it read  *)
(* and takes the seller's too, the other with the highest bid on record.   *)
Enough(a, b) == \/ b.amount > lot[a].price
                \/ b.amount > Best(a) /\ b.bidder # Seller[a]
PlaceBid(p, a, b) ==
    /\ a \in Auction /\ Call(p) /\ Active(a) /\ a \notin over
    /\ Enough(a, b)
    /\ Become(p, [Request("bid", "bid", a) EXCEPT !.bid = <<b.bidder, b.amount>>])
    /\ UNCHANGED <<lot, over, bids, tx, answered, faults>>

(* The GraphQL mutation checks nothing.                                    *)
CreateBid(p, a, b) ==
    /\ a \in Auction /\ Call(p) /\ lot[a].status # "NONE"
    /\ Become(p, [Request("create", "bid", a) EXCEPT !.bid = <<b.bidder, b.amount>>])
    /\ UNCHANGED <<lot, over, bids, tx, answered, faults>>

SaveBid(p) ==
    /\ At(p, "bid")
    /\ bids' = [bids EXCEPT ![req[p].lot] =
                   @ \cup {[bidder |-> req[p].bid[1], amount |-> req[p].bid[2]]}]
    /\ Goto(p, "price")
    /\ UNCHANGED <<lot, over, tx, answered, calls, faults>>

(* A bid placed saves its copy of the auction, one created the price only. *)
SavePrice(p) ==
    LET row == IF req[p].op = "bid" THEN req[p].copy ELSE lot[req[p].lot] IN
    /\ At(p, "price")
    /\ SaveLot(req[p].lot, [row EXCEPT !.price = req[p].bid[2]])
    /\ Done(p)
    /\ UNCHANGED <<over, bids, tx, answered, calls, faults>>

CancelAuction(p, a) ==
    /\ a \in Auction /\ Call(p) /\ Active(a)
    /\ Become(p, Request("cancelLot", "close", a))
    /\ UNCHANGED <<lot, over, bids, tx, answered, faults>>

(* settleAuction: by the seller at any time, by the cron after the end.    *)
Settle(p, a) ==
    /\ a \in Auction /\ Active(a)
    /\ \/ Call(p)
       \/ p \in Cron /\ At(p, "idle") /\ a \in over /\ UNCHANGED calls
    /\ Become(p, Request("settle", "highest", a))
    /\ UNCHANGED <<lot, over, bids, tx, answered, faults>>

ReserveMet(a) == bids[a] # {} /\ Best(a) >= Reserve

(* Mutant: an auction nobody won is left as it is.                         *)
NoSaleForgotten(p) ==
    /\ At(p, "highest") /\ ~ReserveMet(req[p].lot) /\ Done(p)
    /\ UNCHANGED <<lot, over, bids, tx, answered, calls, faults>>

NoSale(p) ==
    /\ At(p, "highest") /\ ~ReserveMet(req[p].lot)
    /\ SaveLot(req[p].lot, [req[p].copy EXCEPT !.status = "COMPLETED"])
    /\ Done(p)
    /\ UNCHANGED <<over, bids, tx, answered, calls, faults>>

Highest(p) ==
    /\ At(p, "highest") /\ ReserveMet(req[p].lot)
    /\ \E b \in bids[req[p].lot] :
         /\ b.amount = Best(req[p].lot)
         /\ Become(p, [req[p] EXCEPT !.pc = "create",
                                     !.bid = <<b.bidder, b.amount, "native", req[p].lot>>])
    /\ UNCHANGED <<lot, over, bids, tx, answered, calls, faults>>

-----------------------------------------------------------------------------
(* TransactionService.  Every request on a transaction begins with         *)
(* findById: the row is read, the contract asked, the copy saved back.     *)
Operate(p, op, id) ==
    /\ op \in Operations \ {"confirm", "batch"}
    /\ Call(p) /\ id \in DOMAIN tx
    /\ Become(p, [Idle EXCEPT !.op = op, !.pc = "load", !.id = id, !.lot = tx[id].lot])
    /\ UNCHANGED <<lot, over, bids, tx, answered, faults>>

Load(p) ==
    /\ At(p, "load")
    /\ req' = [req EXCEPT ![p].pc = "sync", ![p].state = tx[req[p].id].state]
    /\ UNCHANGED <<lot, over, bids, tx, answered, calls, faults>>

(* syncContractState: FAILED if the contract says so, and the copy saved;  *)
(* nothing is saved when the contract cannot be asked.  A save that fails  *)
(* is not caught there (RequestFails).                                     *)
SyncContractState(p) ==
    /\ At(p, "sync")
    /\ \/ Goto(p, "check") /\ UNCHANGED tx
       \/ \E s \in {req[p].state, "FAILED"} :
            /\ req' = [req EXCEPT ![p].pc = "check", ![p].state = s]
            /\ SaveState(req[p].id, s)
    /\ UNCHANGED <<lot, over, bids, answered, calls, faults>>

Finalised(s) == s \in {"COMPLETED", "CANCELLED"}
Refused(r) == /\ r.op # "view" /\ ~r.thrown
              /\ IF r.op = "recover" THEN r.state = "CANCELLED" ELSE Finalised(r.state)

(* Where an exception out of execute ends: a purchase reads the row again, *)
(* a confirmation saves its copy as failed, other requests are over.       *)
Threw(p) ==
    Become(p, CASE req[p].op \in {"buy", "settle"} -> [req[p] EXCEPT !.pc = "load", !.thrown = TRUE]
                [] req[p].op = "confirm" -> [req[p] EXCEPT !.pc = "after", !.thrown = TRUE]
                [] OTHER -> Idle)
Returned(p, s) ==
    Become(p, IF req[p].op = "execute" THEN Idle
              ELSE [req[p] EXCEPT !.pc = "after", !.state = s])

Check(p) ==
    /\ At(p, "check")
    /\ \/ req[p].op = "view" /\ Done(p)
       \/ req[p].thrown /\ Goto(p, "after")
       \/ Refused(req[p]) /\ Threw(p)
       \/ req[p].op \in {"cancel", "recover"} /\ ~Refused(req[p]) /\ Goto(p, req[p].op)
    /\ UNCHANGED <<lot, over, bids, tx, answered, calls, faults>>

Execute(p) ==
    /\ At(p, "check") /\ ~req[p].thrown
    /\ req[p].op \in {"buy", "settle", "execute", "confirm"} /\ ~Refused(req[p])
    /\ SaveState(req[p].id, "EXECUTING") /\ Goto(p, "contract")
    /\ UNCHANGED <<lot, over, bids, answered, calls, faults>>

Answer(p, a) == answered' = [answered EXCEPT ![req[p].id] = @ \cup {a}]

ExecutionFails(p) ==
    /\ At(p, "contract") /\ SaveState(req[p].id, "FAILED")
    /\ \/ Answer(p, "failed") /\ Returned(p, "FAILED") /\ UNCHANGED faults
       \/ Fault /\ Threw(p) /\ UNCHANGED answered
    /\ UNCHANGED <<lot, over, bids, calls>>

Executed(p) ==
    /\ At(p, "contract") /\ Answer(p, "done") /\ Goto(p, "apply")
    /\ UNCHANGED <<lot, over, bids, tx, calls, faults>>

(* applySettlement writes the listing or the auction; the rest of it (the  *)
(* owner's address, the metadata) can throw afterwards.                    *)
Settled(t) == IF t.lot \in Listing THEN [lot[t.lot] EXCEPT !.status = "SOLD"]
              ELSE [status |-> "SETTLED", price |-> t.amount, winner |-> t.buyer]
ApplySettlement(p) ==
    /\ At(p, "apply") /\ SaveLot(req[p].lot, Settled(tx[req[p].id])) /\ Goto(p, "finish")
    /\ UNCHANGED <<over, bids, tx, answered, calls, faults>>

Finish(p) ==
    /\ At(p, "finish") /\ SaveState(req[p].id, "COMPLETED") /\ Returned(p, "COMPLETED")
    /\ UNCHANGED <<lot, over, bids, answered, calls, faults>>

ApplyFails(p) ==
    /\ At(p, "apply") \/ At(p, "finish")
    /\ Fault /\ SaveState(req[p].id, "FAILED") /\ Threw(p)
    /\ UNCHANGED <<lot, over, bids, answered, calls>>

(* What the caller of a purchase writes when it is over: buy() its listing,*)
(* a bundle its item however it went, settleAuction its old copy.          *)
(* Mutant: the purchase's result is not looked at.                         *)
OutcomeUnpaid(r) ==
    CASE r.op = "settle" -> [lot EXCEPT ![r.lot] = [status |-> "SETTLED",
                                                    price |-> r.bid[2], winner |-> r.bid[1]]]
      [] r.op = "buy" -> [lot EXCEPT ![r.lot].status = "SOLD"]
      [] r.op = "confirm" -> IF r.thrown THEN lot ELSE [lot EXCEPT ![r.lot].status = "SOLD"]

Outcome(r) ==
    LET t == tx[r.id]  paid == r.state = "COMPLETED" IN
    CASE r.op = "settle" -> [lot EXCEPT ![r.lot] = [status |-> IF paid THEN "SETTLED" ELSE "COMPLETED",
                                                    price |-> r.bid[2], winner |-> r.bid[1]]]
      [] r.op = "buy" -> [l \in Lot |->
             IF (l = r.lot /\ paid) \/ (l = t.item /\ t.kind = "bundle" /\ ~r.thrown)
             THEN [lot[l] EXCEPT !.status = "SOLD"] ELSE lot[l]]
      [] r.op = "confirm" -> IF r.thrown THEN lot ELSE [lot EXCEPT ![r.lot].status = "SOLD"]

After(p) ==
    /\ At(p, "after") /\ lot' = Outcome(req[p])
    /\ IF req[p].op = "confirm" /\ req[p].thrown
       THEN SaveState(req[p].id, "FAILED") ELSE UNCHANGED tx
    /\ Done(p)
    /\ UNCHANGED <<over, bids, answered, calls, faults>>

(* cancel, and recover with either strategy.  Rolling back puts the lot up *)
(* again; a winner set to undefined is not written.                        *)
Cancel(p) ==
    /\ At(p, "cancel") /\ SaveState(req[p].id, "CANCELLED") /\ Done(p)
    /\ UNCHANGED <<lot, over, bids, answered, calls, faults>>

Retry(p) ==
    /\ At(p, "recover") /\ SaveState(req[p].id, "PENDING") /\ Done(p)
    /\ UNCHANGED <<lot, over, bids, answered, calls, faults>>

RollbackLot(p) ==
    /\ At(p, "recover") /\ Goto(p, "rolled")
    /\ lot' = [lot EXCEPT ![req[p].lot].status = "ACTIVE"]
    /\ UNCHANGED <<over, bids, tx, answered, calls, faults>>

RolledBack(p) ==
    /\ At(p, "rolled") /\ SaveState(req[p].id, "ROLLED_BACK") /\ Done(p)
    /\ UNCHANGED <<lot, over, bids, answered, calls, faults>>

ContractRefuses(p) ==
    /\ req[p].pc \in {"cancel", "recover"} /\ Done(p)
    /\ UNCHANGED <<lot, over, bids, tx, answered, calls, faults>>

(* batchExecute looks only for cancelled rows and leaves them executing.   *)
BatchExecute(p, id) ==
    /\ "batch" \in Operations /\ Call(p) /\ id \in DOMAIN tx /\ tx[id].state # "CANCELLED"
    /\ Become(p, [Idle EXCEPT !.op = "batch", !.pc = "batch", !.id = id, !.state = tx[id].state])
    /\ UNCHANGED <<lot, over, bids, tx, answered, faults>>

BatchSave(p) ==
    /\ At(p, "batch") /\ SaveState(req[p].id, "EXECUTING") /\ Done(p)
    /\ UNCHANGED <<lot, over, bids, answered, calls, faults>>

(* confirmOffchainPayment: the webhook, which may be delivered twice.      *)
ConfirmOffchainPayment(p, id) ==
    /\ "confirm" \in Operations /\ Call(p)
    /\ id \in DOMAIN tx /\ tx[id].kind = "offchain" /\ tx[id].state = "PENDING"
    /\ Become(p, [Request("confirm", "confirm", tx[id].lot) EXCEPT !.id = id])
    /\ UNCHANGED <<lot, over, bids, tx, answered, faults>>

(* Mutant: the payment's success is taken for the transaction's.           *)
ConfirmCompletes(p) ==
    /\ At(p, "confirm") /\ SaveState(req[p].id, "COMPLETED") /\ Goto(p, "load")
    /\ UNCHANGED <<lot, over, bids, answered, calls, faults>>

ConfirmSave(p) ==
    /\ At(p, "confirm")
    /\ \/ SaveState(req[p].id, "FAILED") /\ Done(p)
       \/ SaveState(req[p].id, "EXECUTING") /\ Goto(p, "load")
    /\ UNCHANGED <<lot, over, bids, answered, calls, faults>>

(* A row cannot be read or saved: the request is over, unless the error is *)
(* caught around the execution.                                            *)
Caught(r) == /\ r.pc \in {"load", "sync", "check", "after"} /\ ~r.thrown
             /\ r.pc = "after" => r.op = "confirm" \/ tx[r.id].kind = "bundle"

RequestFails(p) ==
    /\ req[p].pc \in {"close", "bid", "price", "highest", "load", "sync", "check",
                      "after", "rolled", "batch", "confirm"}
    /\ Fault
    /\ IF Caught(req[p]) THEN Threw(p) ELSE Done(p)
    /\ UNCHANGED <<lot, over, bids, tx, answered, calls>>

-----------------------------------------------------------------------------
Step(p) == \/ CreateAndExecute(p) \/ CreateRefused(p) \/ CloseLot(p)
           \/ SaveBid(p) \/ SavePrice(p) \/ NoSale(p) \/ Highest(p)
           \/ Load(p) \/ SyncContractState(p) \/ Check(p) \/ Execute(p)
           \/ ExecutionFails(p) \/ Executed(p) \/ ApplySettlement(p)
           \/ Finish(p) \/ ApplyFails(p) \/ After(p)
           \/ Cancel(p) \/ Retry(p) \/ RollbackLot(p) \/ RolledBack(p)
           \/ ContractRefuses(p) \/ BatchSave(p) \/ ConfirmSave(p) \/ RequestFails(p)

CronRun(c) == \E l \in Lot : ExpireListings(c, l) \/ (c \in Cron /\ Settle(c, l))

Open(p) ==
    \/ \E l, item \in Lot, who \in Buyer, m \in Methods : Buy(p, l, who, m, item)
    \/ \E l \in Lot : CancelListing(p, l) \/ CancelAuction(p, l) \/ (p \in Proc /\ Settle(p, l))
    \/ \E a \in Auction, b \in Willing : PlaceBid(p, a, b) \/ CreateBid(p, a, b)
    \/ \E op \in Operations, id \in 1..MaxTx :
          Operate(p, op, id) \/ BatchExecute(p, id) \/ ConfirmOffchainPayment(p, id)

Next == \/ \E l \in Lot : Lapse(l)
        \/ \E p \in Worker : Step(p) \/ Open(p)
        \/ \E c \in Cron : CronRun(c)

(* Requests run to their end, and the crons come round every minute.       *)
Fairness == /\ \A p \in Worker : WF_vars(Step(p))
            /\ \A c \in Cron : WF_vars(CronRun(c))

Spec == Init /\ [][Next]_vars /\ Fairness
=============================================================================
