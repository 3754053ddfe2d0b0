---------------------------- MODULE EventIndexer ----------------------------
(* The contract-event indexer, the dead-letter table, its retry worker and *)
(* the administrator's replay.  Events are numbered in chain order; raw    *)
(* ones are stored by the minute cron, domain ones (mint, sale, transfer)  *)
(* are applied by IndexerService.processTransaction.                       *)
EXTENDS Naturals, FiniteSets, FiniteSetsExt

CONSTANTS Raw, Domain,   \* the events, as disjoint sets of numbers
          LedgerOf(_),   \* the ledger an event is in
          Chains,        \* the sets of events the chain may come to hold
          PageLimits,    \* how many events the RPC may return at most for one request
          Indexer,       \* instances running the cron
          Retrier,       \* instances running the retry worker
          MaxAttempts,   \* MAX_ATTEMPTS, 5 in the code
          MaxRows,       \* bound: dead-letter rows of one event
          RowsOf(_),     \* bound: the same for each event, at most MaxRows
          MaxFaults,     \* bound: crashes and database outages
          Replay,        \* the administrator's requests for a replay
          Replayed,      \* bound: the events whose rows are replayed by hand
          Refusals       \* the sets of events the database may refuse

ASSUME IndexerConstants ==
    /\ Raw \subseteq Nat /\ Domain \subseteq Nat /\ Raw \cap Domain = {}
    /\ \A e \in Raw \cup Domain : LedgerOf(e) \in Nat
    /\ Chains \subseteq SUBSET (Raw \cup Domain) /\ PageLimits \subseteq Nat
    /\ MaxAttempts \in Nat \ {0} /\ MaxRows \in Nat
    /\ \A e \in Raw \cup Domain : RowsOf(e) \in 0..MaxRows
    /\ MaxFaults \in Nat

VARIABLES chain,    \* the events this chain holds
          tip,      \* ledgers closed so far
          cursor, stored, applied,
          dlq,      \* dlq[e][n]: the n-th dead-letter row of event e
          job,      \* per indexer: what its run has read
          retry,    \* per retrier: the copies of the rows it has yet to try
          hand,     \* per replay: where the request is, and its copy of the row
          refused,  \* events whose insert or handler always fails
          faults,
          hurt,     \* history: domain events whose dead letter could not be
                    \* written or was settled by hand, and those whose handler
                    \* returned without applying them
          passed    \* history: raw events the cursor was moved past by a run
                    \* whose answer from the RPC had left them out

vars == <<chain, tip, cursor, stored, applied, dlq, job, retry, hand, refused, faults, hurt, passed>>
tables == <<stored, applied, dlq, hurt>>

Event   == Raw \cup Domain
LastLedger == Max({LedgerOf(e) : e \in Event} \cup {1})
NoRow   == [status |-> "none", attempts |-> 0, due |-> FALSE]
Open    == {"pending", "retrying"}
RowType == [status : Open \cup {"none", "resolved", "exhausted"},
            attempts : 0..MaxAttempts, due : BOOLEAN]
IdleJob == [pc |-> "idle", from |-> 0, events |-> {}, left |-> {}, latest |-> 0]
NoCopy  == [event |-> 0, n |-> 0, row |-> NoRow]
Resting == [todo |-> {}, now |-> NoCopy]
Asked   == [pc |-> "asked", copy |-> NoCopy]
Over    == [pc |-> "over", copy |-> NoCopy]

TypeOK ==
    /\ tip \in 1..LastLedger /\ cursor \in 0..LastLedger
    /\ stored \in SUBSET Event /\ applied \in SUBSET Domain
    /\ dlq \in [Event -> [1..MaxRows -> RowType]]
    /\ job \in [Indexer -> [pc : {"idle", "loaded", "fetched"}, from : 0..LastLedger,
                            events : SUBSET Raw, left : SUBSET Raw, latest : 0..LastLedger]]
    /\ \A r \in Retrier : retry[r].now.row \in RowType
    /\ \A p \in Replay : hand[p].pc \in {"asked", "read", "save", "over"}
    /\ faults \in 0..MaxFaults /\ passed \in SUBSET Raw
    /\ chain \in SUBSET Event /\ refused \in SUBSET Event /\ hurt \in SUBSET Event

Init ==
    /\ tip = 1 /\ cursor = 0 /\ stored = {} /\ applied = {}
    /\ dlq = [e \in Event |-> [n \in 1..MaxRows |-> NoRow]]
    /\ job = [i \in Indexer |-> IdleJob] /\ retry = [r \in Retrier |-> Resting]
    /\ chain \in Chains /\ refused \in Refusals
    /\ hand = [p \in Replay |-> Asked] /\ faults = 0 /\ hurt = {} /\ passed = {}

Used(e)  == {n \in 1..MaxRows : dlq[e][n].status # "none"}
Room(e)  == Cardinality(Used(e)) < RowsOf(e)
Fresh    == [status |-> "pending", attempts |-> 1, due |-> FALSE]
(* Mutant: no dead letter is written.                                      *)
NotFiled(e) == dlq[e]

Filed(e) == [dlq[e] EXCEPT ![Cardinality(Used(e)) + 1] = Fresh]
Fault    == faults < MaxFaults /\ faults' = faults + 1

-----------------------------------------------------------------------------
(* The ledger closes.                                                      *)
CloseLedger ==
    /\ tip < LastLedger /\ tip' = tip + 1
    /\ UNCHANGED <<chain, cursor, job, retry, hand, refused, faults, passed, tables>>

(* handleIndexing, every minute: read the cursor.                          *)
LoadCursor(i) ==
    /\ job[i].pc = "idle"
    /\ job' = [job EXCEPT ![i] = [IdleJob EXCEPT !.pc = "loaded", !.from = cursor]]
    /\ UNCHANGED <<chain, tip, cursor, retry, hand, refused, faults, passed, tables>>

(* getEventsSince asks for one page, from the cursor's ledger on.  A cursor*)
(* of 0 names no ledger: the node begins where it likes, or refuses.       *)
Since(from, to) == {e \in Raw \cap chain : LedgerOf(e) \in from..to}
Starts(from)    == IF from > 0 THEN {from} ELSE 1..tip
Page(start, limit) ==
    {e \in Since(start, tip) : Cardinality({f \in Since(start, tip) : f < e}) < limit}

Fetch(i) ==
    /\ job[i].pc = "loaded"
    /\ \E start \in Starts(job[i].from), limit \in PageLimits :
          LET page == Page(start, limit)
          IN  job' = [job EXCEPT ![i] = [pc |-> "fetched", from |-> 0, events |-> page,
                                         left |-> Since(job[i].from, tip) \ page,
                                         latest |-> tip]]
    /\ UNCHANGED <<chain, tip, cursor, retry, hand, refused, faults, passed, tables>>

FetchFails(i) ==
    /\ job[i].pc = "loaded"
    /\ (job[i].from = 0 /\ UNCHANGED faults) \/ Fault
    /\ job' = [job EXCEPT ![i] = IdleJob]
    /\ UNCHANGED <<chain, tip, cursor, retry, hand, refused, passed, tables>>

(* ADVANCE_CURSOR_SQL never moves it back.                                 *)
Advanced(new) == IF cursor < new THEN new ELSE cursor

(* persistEvents, one transaction: events stored or already there, those   *)
(* that fail before their statement filed as dead letters, and the cursor. *)
Persist(i) ==
    /\ job[i].pc = "fetched"
    /\ job[i].events \cap refused = {}
    /\ \E thrown \in SUBSET (job[i].events \ stored) :
         /\ \A e \in thrown : Room(e)
         /\ stored' = stored \cup (job[i].events \ thrown)
         /\ dlq' = [e \in Event |-> IF e \in thrown THEN Filed(e) ELSE dlq[e]]
    /\ cursor' = Advanced(job[i].latest)
    /\ passed' = passed \cup {e \in job[i].left : LedgerOf(e) \in cursor..(cursor' - 1)}
    /\ job' = [job EXCEPT ![i] = IdleJob]
    /\ UNCHANGED <<chain, tip, applied, retry, hand, refused, faults, hurt>>

(* A statement the database refuses dooms the transaction: the good events *)
(* of the page, the dead letter and the cursor of the catch with it.       *)
PersistDoomed(i) ==
    /\ job[i].pc = "fetched"
    /\ job[i].events \cap refused # {}
    /\ job' = [job EXCEPT ![i] = IdleJob]
    /\ UNCHANGED <<chain, tip, cursor, retry, hand, refused, faults, passed, tables>>

IndexerDies(i) ==
    /\ job[i].pc = "fetched" /\ Fault
    /\ job' = [job EXCEPT ![i] = IdleJob]
    /\ UNCHANGED <<chain, tip, cursor, retry, hand, refused, passed, tables>>

-----------------------------------------------------------------------------
(* processTransaction never throws.  The handler applies the event, or it  *)
(* returns early: no token id in the memo, or no such NFT for a sale or a  *)
(* transfer.  What it throws is filed as a new row, and when that fails too*)
(* it is only logged.                                                      *)
Process(e) ==
    \/ e \notin refused /\ applied' = applied \cup {e} /\ UNCHANGED <<dlq, hurt, faults>>
    \/ hurt' = hurt \cup {e} /\ UNCHANGED <<applied, dlq, faults>>
    \/ Room(e) /\ dlq' = [dlq EXCEPT ![e] = Filed(e)] /\ UNCHANGED <<applied, hurt, faults>>
    \/ Fault /\ hurt' = hurt \cup {e} /\ UNCHANGED <<applied, dlq>>

(* The ingestion daemon comes to a transaction.                            *)
Ingest(e) ==
    /\ e \in Domain \cap chain /\ LedgerOf(e) <= tip /\ e \notin applied \cup hurt /\ Used(e) = {}
    /\ Process(e)
    /\ UNCHANGED <<chain, tip, cursor, stored, job, retry, hand, refused, passed>>

-----------------------------------------------------------------------------
(* handleRetries, every minute: the rows due are read once.                *)
DueAs(S) == {[event |-> p[1], n |-> p[2], row |-> dlq[p[1]][p[2]]] :
               p \in {q \in Event \X (1..MaxRows) : /\ dlq[q[1]][q[2]].status \in S
                                                   /\ dlq[q[1]][q[2]].due}}

(* Mutant: rows tried once already are not looked for.                     *)
DuePending == DueAs({"pending"})

DueRows == DueAs(Open)

ReadDue(r) ==
    /\ retry[r] = Resting /\ DueRows # {}
    /\ retry' = [retry EXCEPT ![r].todo = DueRows]
    /\ UNCHANGED <<chain, tip, cursor, job, hand, refused, faults, passed, tables>>

(* A row older than a week is given up without a try.                      *)
AgedOut(r, c) ==
    /\ retry[r].now = NoCopy /\ c \in retry[r].todo
    /\ dlq' = [dlq EXCEPT ![c.event][c.n] = [c.row EXCEPT !.status = "exhausted", !.due = FALSE]]
    /\ retry' = [retry EXCEPT ![r].todo = @ \ {c}]
    /\ UNCHANGED <<chain, tip, cursor, stored, applied, job, hand, refused, faults, hurt, passed>>

Trying(row)  == [row EXCEPT !.status = "retrying",
                            !.attempts = IF @ < MaxAttempts THEN @ + 1 ELSE MaxAttempts]
Resolved(row) == [Trying(row) EXCEPT !.status = "resolved", !.due = FALSE]
(* Mutant: a failed retry is resolved as well.                             *)
FailedResolved(row) == Resolved(row)

Failed(row)  == [Trying(row) EXCEPT !.status = IF row.attempts + 1 >= MaxAttempts
                                               THEN "exhausted" ELSE "retrying",
                                    !.due = FALSE]
Took(r, c, row) == retry' = [retry EXCEPT ![r] = [todo |-> @.todo \ {c},
                                                  now |-> [c EXCEPT !.row = row]]]

(* A raw event is inserted, or ignored when it is there.                   *)
RetryRaw(r, c) ==
    /\ retry[r].now = NoCopy /\ c \in retry[r].todo /\ c.event \in Raw
    /\ \/ c.event \notin refused /\ stored' = stored \cup {c.event} /\ Took(r, c, Resolved(c.row))
       \/ Took(r, c, Failed(c.row)) /\ UNCHANGED stored
    /\ UNCHANGED <<chain, tip, cursor, applied, dlq, job, hand, refused, faults, hurt, passed>>

(* A domain event is processed again, and resolved whatever came of it.    *)
RetryDomain(r, c) ==
    /\ retry[r].now = NoCopy /\ c \in retry[r].todo /\ c.event \in Domain
    /\ Process(c.event) /\ Took(r, c, Resolved(c.row))
    /\ UNCHANGED <<chain, tip, cursor, stored, job, hand, refused, passed>>

(* finally: the copy is saved over the row.                                *)
SaveRetried(r) ==
    /\ retry[r].now # NoCopy
    /\ dlq' = [dlq EXCEPT ![retry[r].now.event][retry[r].now.n] = retry[r].now.row]
    /\ retry' = [retry EXCEPT ![r].now = NoCopy]
    /\ UNCHANGED <<chain, tip, cursor, stored, applied, job, hand, refused, faults, hurt, passed>>

RetrierDies(r) ==
    /\ retry[r] # Resting /\ Fault
    /\ retry' = [retry EXCEPT ![r] = Resting]
    /\ UNCHANGED <<chain, tip, cursor, job, hand, refused, passed, tables>>

(* manualReplay, between its awaits: find the row, insert a contract event,*)
(* of whatever kind, and save the copy: as resolved, or as it was read when*)
(* the insert failed.  A first save that fails comes to the same again.    *)
ReplayFinds(p, e, n) ==
    /\ hand[p] = Asked /\ e \in Replayed /\ dlq[e][n].status # "none"
    /\ hand' = [hand EXCEPT ![p] = [pc |-> "read",
                                    copy |-> [event |-> e, n |-> n, row |-> dlq[e][n]]]]
    /\ UNCHANGED <<chain, tip, cursor, job, retry, refused, faults, passed, tables>>

Settled(copy) == [copy EXCEPT !.row.status = "resolved", !.row.due = FALSE]

ReplayInserts(p) ==
    LET copy == hand[p].copy  e == copy.event
    IN  /\ hand[p].pc = "read"
        /\ e \notin refused /\ stored' = stored \cup {e}
        /\ hurt' = IF e \in Domain THEN hurt \cup {e} ELSE hurt
        /\ hand' = [hand EXCEPT ![p] = [pc |-> "save", copy |-> Settled(copy)]]
        /\ UNCHANGED <<chain, tip, cursor, applied, dlq, job, retry, refused, faults, passed>>

ReplayInsertFails(p) ==
    /\ hand[p].pc = "read"
    /\ hand' = [hand EXCEPT ![p].pc = "save"]
    /\ UNCHANGED <<chain, tip, cursor, job, retry, refused, faults, passed, tables>>

ReplaySaves(p) ==
    LET copy == hand[p].copy
    IN  /\ hand[p].pc = "save"
        /\ dlq' = [dlq EXCEPT ![copy.event][copy.n] = copy.row]
        /\ hand' = [hand EXCEPT ![p] = Over]
        /\ UNCHANGED <<chain, tip, cursor, stored, applied, job, retry, refused, faults, hurt, passed>>

ReplayDies(p) ==
    /\ hand[p].pc \in {"read", "save"} /\ Fault
    /\ hand' = [hand EXCEPT ![p] = Over]
    /\ UNCHANGED <<chain, tip, cursor, job, retry, refused, passed, tables>>

FallDue(e, n) ==
    /\ dlq[e][n].status \in Open /\ ~dlq[e][n].due
    /\ dlq' = [dlq EXCEPT ![e][n].due = TRUE]
    /\ UNCHANGED <<chain, tip, cursor, stored, applied, job, retry, hand, refused, faults, hurt, passed>>

Run(i)   == LoadCursor(i) \/ Fetch(i) \/ Persist(i) \/ PersistDoomed(i)
Work(r)  == ReadDue(r) \/ SaveRetried(r)
            \/ \E c \in retry[r].todo : AgedOut(r, c) \/ RetryRaw(r, c) \/ RetryDomain(r, c)

ByHand(p) == \/ \E e \in Event, n \in 1..MaxRows : ReplayFinds(p, e, n)
             \/ ReplayInserts(p) \/ ReplayInsertFails(p) \/ ReplaySaves(p) \/ ReplayDies(p)

Next == \/ CloseLedger
        \/ \E i \in Indexer : Run(i) \/ FetchFails(i) \/ IndexerDies(i)
        \/ \E e \in Domain : Ingest(e)
        \/ \E r \in Retrier : Work(r) \/ RetrierDies(r)
        \/ \E p \in Replay : ByHand(p)
        \/ \E e \in Event, n \in 1..MaxRows : FallDue(e, n)

Fairness == /\ WF_vars(CloseLedger)
            /\ \A i \in Indexer : WF_vars(Run(i))
            /\ \A r \in Retrier : WF_vars(Work(r))
            /\ \A e \in Domain : WF_vars(Ingest(e))
            /\ \A e \in Event, n \in 1..MaxRows : WF_vars(FallDue(e, n))

Spec == Init /\ [][Next]_vars /\ Fairness
=============================================================================
