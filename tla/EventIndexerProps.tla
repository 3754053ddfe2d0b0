-------------------------- MODULE EventIndexerProps -------------------------
(* What indexing must get right, and small instances of the indexer.       *)
EXTENDS EventIndexer

TwoInOneLedger(e) == <<2, 2, 3>>[e]
OneKind           == {{1, 2}, {3}}
FewRows(e)        == <<1, 1, 2>>[e]
NothingOrFirst    == {{}, {1}}

HasRow(e, S) == \E n \in 1..MaxRows : dlq[e][n].status \in S

(* The comment in handleIndexing: events and the cursor commit together,   *)
(* so the cursor is never past an event that was neither stored nor filed  *)
(* as a dead letter, whatever crashes, with several instances running, and *)
(* whatever page holds an event the database refuses.  Excepted is what a  *)
(* page that overflowed, or the first one, begun by no ledger, left out.   *)
Covered(e) == e \in stored \/ HasRow(e, {"pending", "retrying", "resolved", "exhausted"})
CursorCoversEvents ==
    \A e \in (Raw \cap chain) \ passed : LedgerOf(e) < cursor => Covered(e)

(* An event that was filed is stored (or applied), or somebody still holds *)
(* it open, or it was given up openly, replays by hand that fail and save a*)
(* copy read long before included.  Excepted are domain events whose new   *)
(* row could not be written, whose handler found no token or NFT and       *)
(* returned, or that were resolved by hand, which nothing applies any more.*)
Handled(e) == IF e \in Raw THEN e \in stored ELSE e \in applied
NoEventForgotten ==
    \A e \in Event \ hurt : Used(e) # {} =>
        Handled(e) \/ HasRow(e, Open \cup {"exhausted"})

(* With a database that refuses nothing, every event on the chain is, once *)
(* the cursor is set, in the end stored or given up openly, unless a page  *)
(* left it out.  (One refused event keeps its neighbours out for ever: no  *)
(* run whose page holds it commits.)                                       *)
EventsArrive == \A e \in Raw :
    refused = {} /\ e \in chain /\ cursor > 0 /\ LedgerOf(e) <= tip
        ~> e \in stored \cup passed \/ HasRow(e, {"exhausted"})

(* By hand, not true of the code: the cursor passes only what is covered,  *)
(* and one event the database refuses does not keep the others out.        *)
CursorPassesNothing == \A e \in Raw \cap chain : LedgerOf(e) < cursor => Covered(e)
GoodEventsArrive == \A e \in Raw :
    e \notin refused /\ e \in chain /\ cursor > 0 /\ LedgerOf(e) <= tip
        ~> e \in stored \cup passed \/ HasRow(e, {"exhausted"})
=============================================================================
