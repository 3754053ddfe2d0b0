---------------------------- MODULE Transactions ----------------------------
(* The transaction contract: transactions of operations that depend on     *)
(* each other, executed as a whole, alone or in a batch, and recovered.    *)
(* A call that returns an error leaves nothing behind, except inside a     *)
(* batch, which swallows the error of one transaction and keeps what had   *)
(* been saved of it.  Signatures are left out: no step reads them.         *)
EXTENDS Naturals, Sequences, FiniteSets, SequencesExt

CONSTANTS Operations, \* what may be added: records of an id, dependencies and gas
          Ceilings,   \* the gas limits callers pass
          DefaultGasCeiling,
          Initial,    \* the operations a transaction may be created with
          MaxOperations, MaxTx  \* the contract's limit; a bound

TransactionConstants ==
    /\ \A op \in Operations : op.id \in Nat /\ op.deps \subseteq Nat /\ op.gas \in Nat
    /\ Initial \subseteq Seq(Operations)
    /\ Ceilings \subseteq Nat /\ DefaultGasCeiling \in Nat
    /\ MaxOperations \in Nat /\ MaxTx \in Nat

VARIABLE txs  \* the transactions, by id

States == {"Draft", "Pending", "Executing", "PartiallyComplete", "Completed",
           "Failed", "Cancelled", "RolledBack"}

(* "recorded" is the last entry of the audit trail; "runs" is history:     *)
(* the orders in which the operations were run to completion.              *)
TypeOK ==
    /\ Len(txs) <= MaxTx
    /\ \A t \in DOMAIN txs :
          /\ txs[t].operations \in Seq(Operations)
          /\ txs[t].state \in States /\ txs[t].recorded \in States

Init == txs = <<>>

New(ops) == [operations |-> ops, state |-> "Draft", recorded |-> "Draft",
             runs |-> <<>>]
Save(t, row)    == txs' = [txs EXCEPT ![t] = row]
Enter(row, s)   == [row EXCEPT !.state = s, !.recorded = s]
FinalFor(s)     == s \in {"Completed", "Cancelled", "RolledBack"}

CreateTransaction(ops) ==
    /\ Len(txs) < MaxTx /\ Len(ops) <= MaxOperations
    /\ txs' = Append(txs, New(ops))

BatchCreateTransactions(batch) ==
    /\ Len(txs) + Len(batch) <= MaxTx
    /\ \A i \in DOMAIN batch : Len(batch[i]) <= MaxOperations
    /\ txs' = txs \o [i \in DOMAIN batch |-> New(batch[i])]

(* An id may be taken already: that is found when the transaction runs.    *)
AddOperation(t, op) ==
    /\ txs[t].state \in {"Draft", "Pending"} /\ op.id # 0
    /\ Len(txs[t].operations) < MaxOperations
    /\ Save(t, [txs[t] EXCEPT !.operations = Append(@, op)])

-----------------------------------------------------------------------------
(* validation_engine::preflight.                                           *)
Ids(ops) == {ops[i].id : i \in DOMAIN ops}
Preflight(row) ==
    LET ops == row.operations IN
    /\ row.state \in {"Draft", "Pending"}
    /\ ops # <<>> /\ 0 \notin Ids(ops)
    /\ Cardinality(Ids(ops)) = Len(ops)
    /\ \A i \in DOMAIN ops : ops[i].deps \subseteq Ids(ops)

(* The operations in the order they were added.                            *)
InsertionOrder(ops) == [i \in DOMAIN ops |-> i]

(* Of the operations not placed yet whose dependencies have been, the      *)
(* lowest numbered is next.                                                *)
Ready(ops, placed) ==
    {i \in (DOMAIN ops) \ ToSet(placed) :
        ops[i].deps \subseteq {ops[k].id : k \in ToSet(placed)}}
PlaceNext(ops, placed) ==
    LET ready == Ready(ops, placed) IN
    IF ready = {} THEN placed
    ELSE Append(placed, CHOOSE i \in ready : \A j \in ready : ops[i].id <= ops[j].id)
PlaceLeft(placed, i) == IF i \in ToSet(placed) THEN placed ELSE Append(placed, i)

(* resolve_execution_order: what cannot be placed comes at the end.        *)
ResolveExecutionOrder(ops) ==
    LET Placed[n \in 0..Len(ops)] ==
            IF n = 0 THEN <<>> ELSE PlaceNext(ops, Placed[n - 1])
        Ordered[n \in 0..Len(ops)] ==
            IF n = 0 THEN Placed[Len(ops)] ELSE PlaceLeft(Ordered[n - 1], n)
    IN  Ordered[Len(ops)]

(* Running the operations in that order stops at the first whose           *)
(* dependencies have not run or that takes the gas over the ceiling.       *)
Used(ops, order) ==
    LET Sum[n \in 0..Len(order)] == IF n = 0 THEN 0 ELSE Sum[n - 1] + ops[order[n]].gas
    IN  Sum
Unmet(ops, order, n) ==
    ~(ops[order[n]].deps \subseteq {ops[order[k]].id : k \in 1..(n - 1)})
Stops(ops, order, ceiling) ==
    {n \in DOMAIN order : Unmet(ops, order, n) \/ Used(ops, order)[n] > ceiling}

(* What executing leaves in storage.  When a dependency is missing the     *)
(* transaction is saved as rolled back, but the trail is not told.         *)
Executed(row, ceiling) ==
    LET ops   == row.operations
        order == ResolveExecutionOrder(ops)
        stops == Stops(ops, order, ceiling)
        first == CHOOSE n \in stops : \A m \in stops : n <= m
    IN  IF ~Preflight(row) THEN row
        ELSE IF stops = {}
        THEN [Enter(row, "Completed") EXCEPT
                 !.runs = Append(@, [k \in DOMAIN order |-> ops[order[k]].id])]
        ELSE IF Unmet(ops, order, first)
        THEN [row EXCEPT !.state = "RolledBack", !.recorded = "Executing"]
        ELSE Enter(row, "RolledBack")

Executes(row, ceiling) ==
    LET ops == row.operations IN
    Preflight(row) /\ Stops(ops, ResolveExecutionOrder(ops), ceiling) = {}

ExecuteTransaction(t, ceiling) ==
    /\ Executes(txs[t], ceiling)
    /\ Save(t, Executed(txs[t], ceiling))

ExecuteOne(rows, t) == [rows EXCEPT ![t] = Executed(@, DefaultGasCeiling)]

BatchExecuteTransactions(ids) ==
    LET Rows[n \in 0..Len(ids)] ==
            IF n = 0 THEN txs ELSE ExecuteOne(Rows[n - 1], ids[n])
    IN  txs' = Rows[Len(ids)]

CancelTransaction(t) ==
    /\ txs[t].state \notin {"Completed", "RolledBack"}
    /\ Save(t, Enter(txs[t], "Cancelled"))

Strategies == {"Retry", "Rollback", "Cancel"}

(* Mutant: any transaction may be retried.                                 *)
RecoverAny(t, strategy) ==
    Save(t, Enter(txs[t], CASE strategy = "Retry" -> "Pending"
                            [] strategy = "Rollback" -> "RolledBack"
                            [] strategy = "Cancel" -> "Cancelled"))

(* A retry asks for a failed transaction; the others take any.             *)
RecoverTransaction(t, strategy) ==
    /\ strategy = "Retry" => txs[t].state = "Failed"
    /\ Save(t, Enter(txs[t], CASE strategy = "Retry" -> "Pending"
                               [] strategy = "Rollback" -> "RolledBack"
                               [] strategy = "Cancel" -> "Cancelled"))

-----------------------------------------------------------------------------
(* A batch may name a transaction twice.  Bound: at most two entries.      *)
Batches == {<<t>> : t \in DOMAIN txs} \cup ((DOMAIN txs) \X (DOMAIN txs))

Next ==
    \/ \E ops \in Initial : CreateTransaction(ops)
    \/ \E a, b \in Initial : BatchCreateTransactions(<<a, b>>)
    \/ \E t \in DOMAIN txs, op \in Operations : AddOperation(t, op)
    \/ \E t \in DOMAIN txs, ceiling \in Ceilings : ExecuteTransaction(t, ceiling)
    \/ \E t \in DOMAIN txs : CancelTransaction(t)
    \/ \E t \in DOMAIN txs, s \in Strategies : RecoverTransaction(t, s)
    \/ \E ids \in Batches : BatchExecuteTransactions(ids)

Spec == Init /\ [][Next]_txs

-----------------------------------------------------------------------------
(* A transaction runs at most once, whatever it is recovered from, and     *)
(* then runs all of its operations, each after those it depends on.        *)
RunsOnceInOrder ==
    \A t \in DOMAIN txs : LET ops == txs[t].operations  runs == txs[t].runs IN
        /\ Len(runs) <= 1
        /\ \A k \in DOMAIN runs :
              /\ ToSet(runs[k]) = Ids(ops) /\ Len(runs[k]) = Len(ops)
              /\ \A i \in DOMAIN ops, n \in DOMAIN runs[k] :
                    runs[k][n] = ops[i].id =>
                        ops[i].deps \subseteq {runs[k][m] : m \in 1..(n - 1)}

(* If there is any order that respects the dependencies, whatever the      *)
(* order of declaration, a transaction that passes the checks is executed  *)
(* given the gas; if there is none it is not.                              *)
AcyclicCanRun ==
    \A t \in DOMAIN txs : Preflight(txs[t]) =>
        LET ops == txs[t].operations
            rank == [DOMAIN ops -> DOMAIN ops]
            total == Used(ops, InsertionOrder(ops))[Len(ops)]
        IN  Executes(txs[t], total) <=>
                \E r \in rank : \A i, j \in DOMAIN ops : ops[j].id \in ops[i].deps => r[j] < r[i]

(* "Every state transition is recorded": the audit trail ends with the     *)
(* state the transaction is in.                                            *)
TrailIsComplete == \A t \in DOMAIN txs : txs[t].recorded = txs[t].state

(* A finalised transaction stays as it is.                                 *)
FinalIsFinal ==
    [][\A t \in DOMAIN txs : FinalFor(txs[t].state) => txs'[t].state = txs[t].state]_txs
=============================================================================
