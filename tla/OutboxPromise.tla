--------------------------- MODULE OutboxPromise ---------------------------
(* What a transactional outbox promises of every event recorded with a     *)
(* business change: it is owed until it is handed to the listeners, it may *)
(* only be given up openly, and what was delivered stays delivered.  A     *)
(* relay works in batches, so several events may move in one step.         *)
CONSTANT Event
VARIABLE promise

Standing == {"none", "owed", "kept", "given_up"}
TypeOK   == promise \in [Event -> Standing]

Init == promise = [e \in Event |-> "none"]

Record(e)  == promise[e] = "none" /\ promise'[e] = "owed"
Deliver(e) == promise[e] \in {"owed", "given_up"} /\ promise'[e] = "kept"
GiveUp(e)  == promise[e] = "owed" /\ promise'[e] = "given_up"
Retry(e)   == promise[e] = "given_up" /\ promise'[e] = "owed"

Next == /\ promise' \in [Event -> Standing]
        /\ \A e \in Event : \/ promise'[e] = promise[e]
                            \/ Record(e) \/ Deliver(e) \/ GiveUp(e) \/ Retry(e)

(* An event owed is in the end delivered or given up.                      *)
Settled == \A e \in Event : promise[e] = "owed" ~> promise[e] # "owed"

Spec == Init /\ [][Next]_promise /\ Settled
=============================================================================
