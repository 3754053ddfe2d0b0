---------------------------- MODULE OutboxProps ----------------------------
(* What the outbox must get right, over two instances that crash, stall    *)
(* past the stale window and are refused saves.                            *)
EXTENDS Outbox

Promise(e) ==
    CASE row[e].status = "none" -> "none"
      [] emitted[e] > 0 -> "kept"
      [] emitted[e] = 0 /\ row[e].status \in {"failed", "archived"} -> "given_up"
      [] OTHER -> "owed"

Abstract == INSTANCE OutboxPromise WITH promise <- [e \in Event |-> Promise(e)]

(* The outbox keeps the promise of a transactional outbox: an event that   *)
(* committed with its business change is delivered or openly given up,     *)
(* whatever crashes, refused saves and rival relays do to its row.         *)
ImplementsPromise == Abstract!Spec

(* An event is delivered twice only for a reason: two relays claimed it, a *)
(* crash or refused save hid the first delivery, or it was replayed.       *)
DuplicatesHaveCause ==
    \A e \in Event : emitted[e] > 1 =>
        Cardinality(claimers[e]) > 1 \/ faults > 0 \/ replays > 0

(* The comment on OutboxStatus: rows are flipped atomically before they    *)
(* are emitted, so two instances never publish the same event.             *)
Publishing(r, e) == \E i \in DOMAIN work[r].todo : /\ work[r].todo[i].id = e
                                                   /\ ~work[r].todo[i].row.stale
OneInstancePublishes ==
    \A e \in Event : \A q, r \in Relay : Publishing(q, e) /\ Publishing(r, e) => q = r
=============================================================================
