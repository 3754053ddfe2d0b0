------------------------- MODULE EventIndexerProofs -------------------------
(* The cursor of the event indexer covers what it passed and no dead       *)
(* letter is lost, for any number of instances, retriers, events, faults   *)
(* and replays.                                                            *)
EXTENDS EventIndexerProps, FiniteSetTheorems, TLAPS

(* The copies of a retrier are of rows that exist.                         *)
Existing(c) == c.event \in Event /\ c.n \in 1..MaxRows /\ c.row.status # "none"
Copies == [event : Event \cup {0}, n : 0..MaxRows, row : RowType]
Jobs   == [pc : {"idle", "loaded", "fetched"}, from : Nat, events : SUBSET Raw,
           left : SUBSET Raw, latest : Nat]
Hands  == [pc : {"asked", "read", "save", "over"}, copy : Copies]

HandsOk ==
    /\ hand \in [Replay -> Hands]
    /\ \A p \in Replay : hand[p].pc \in {"read", "save"} => Existing(hand[p].copy)

Types ==
    /\ chain \subseteq Event /\ tip \in Nat /\ cursor \in Nat
    /\ dlq \in [Event -> [1..MaxRows -> RowType]]
    /\ job \in [Indexer -> Jobs]
    /\ retry \in [Retrier -> [todo : SUBSET Copies, now : Copies]]
    /\ \A r \in Retrier : /\ \A c \in retry[r].todo : Existing(c)
                          /\ retry[r].now = NoCopy \/ Existing(retry[r].now)
    /\ HandsOk

(* A run that has its answer holds every event between the cursor and the  *)
(* tip it saw, or knows it was left out: it began where the cursor was, and*)
(* the cursor has only gone forward since.                                 *)
RunsAreWhole ==
    \A i \in Indexer :
       /\ job[i].from <= cursor
       /\ job[i].pc = "fetched" =>
            Since(cursor, job[i].latest) \subseteq job[i].events \cup job[i].left

InTable(e) == \E n \in 1..MaxRows : dlq[e][n].status # "none"
NonePassed ==
    \A e \in Raw \cap chain : LedgerOf(e) < cursor => e \in stored \cup passed \/ InTable(e)

IdxInv == Types /\ RunsAreWhole /\ NonePassed

(* A row that is there has a status that counts.                           *)
LEMMA CoveredMeans == ASSUME Types PROVE NonePassed => CursorCoversEvents
<1>1. ASSUME NEW e \in Raw, InTable(e)
      PROVE  HasRow(e, {"pending", "retrying", "resolved", "exhausted"})
  <2>1. PICK n \in 1..MaxRows : dlq[e][n].status # "none"
    BY <1>1 DEF InTable
  <2>2. dlq[e][n] \in RowType
    BY DEF Types, Event
  <2>3. dlq[e][n].status \in {"pending", "retrying", "resolved", "exhausted"}
    BY <2>1, <2>2 DEF RowType, Open
  <2> QED BY <2>3 DEF HasRow
<1> QED BY <1>1 DEF NonePassed, Covered, CursorCoversEvents

LEMMA IdxInit == Init => IdxInv
<1> SUFFICES ASSUME Init PROVE IdxInv
  OBVIOUS
<1>1. NoRow \in RowType
  BY IndexerConstants DEF NoRow, RowType, Open
<1>2. NoCopy \in Copies
  BY <1>1, IndexerConstants DEF NoCopy, Copies
<1>3. IdleJob \in Jobs
  BY DEF IdleJob, Jobs
<1>4. chain \subseteq Event /\ tip \in Nat /\ cursor \in Nat
  BY IndexerConstants DEF Init, Event
<1>5. dlq \in [Event -> [1..MaxRows -> RowType]]
  BY <1>1 DEF Init
<1>6. job \in [Indexer -> Jobs]
  BY <1>3 DEF Init
<1>7. retry \in [Retrier -> [todo : SUBSET Copies, now : Copies]]
  BY <1>2 DEF Init, Resting
<1>8. \A r \in Retrier : /\ \A c \in retry[r].todo : Existing(c)
                         /\ retry[r].now = NoCopy \/ Existing(retry[r].now)
  BY DEF Init, Resting
<1>0. HandsOk
  BY <1>2 DEF Init, HandsOk, Hands, Asked
<1>9. RunsAreWhole
  BY <1>4 DEF Init, RunsAreWhole, IdleJob
<1>10. NonePassed
  <2>1. \A e \in Raw : LedgerOf(e) \in Nat
    BY IndexerConstants
  <2> QED BY <2>1 DEF Init, NonePassed
<1> QED BY <1>0, <1>4, <1>5, <1>6, <1>7, <1>8, <1>9, <1>10 DEF IdxInv, Types

-----------------------------------------------------------------------------
(* Filing adds a row and keeps those there.                                *)
LEMMA FilingAdds ==
    ASSUME Types, NEW e \in Event, Room(e)
    PROVE  /\ Filed(e) \in [1..MaxRows -> RowType]
           /\ \E n \in 1..MaxRows : Filed(e)[n].status # "none"
<1>1. IsFiniteSet(Used(e)) /\ Cardinality(Used(e)) \in Nat
  <2>1. IsFiniteSet(1..MaxRows)
    BY FS_Interval, IndexerConstants
  <2>2. Used(e) \subseteq 1..MaxRows
    BY DEF Used
  <2> QED BY <2>1, <2>2, FS_Subset, FS_CardinalityType
<1>2. Cardinality(Used(e)) + 1 \in 1..MaxRows
  <2>1. RowsOf(e) \in 0..MaxRows /\ MaxRows \in Nat
    BY IndexerConstants DEF Event
  <2> QED BY <1>1, <2>1 DEF Room
<1>3. Fresh \in RowType /\ Fresh.status # "none"
  BY IndexerConstants DEF Fresh, RowType, Open
<1>4. dlq[e] \in [1..MaxRows -> RowType]
  BY DEF Types
<1> QED BY <1>2, <1>3, <1>4 DEF Filed

-----------------------------------------------------------------------------
(* What a step does to the table, when the cursor stays.                   *)
LEMMA CoverKept ==
    ASSUME chain' = chain, cursor' = cursor, passed' = passed, stored \subseteq stored',
           \A e \in Raw : InTable(e) => InTable(e)'
    PROVE  NonePassed => NonePassed'
BY DEF NonePassed

LEMMA RunsKept ==
    ASSUME chain' = chain, cursor' = cursor, job' = job
    PROVE  RunsAreWhole => RunsAreWhole'
BY DEF RunsAreWhole, Since

(* Writing a row that exists in place of another.                          *)
LEMMA RowWritten ==
    ASSUME Types, NEW f \in Event, NEW n \in 1..MaxRows, NEW row \in RowType,
           row.status # "none", dlq' = [dlq EXCEPT ![f][n] = row]
    PROVE  /\ dlq' \in [Event -> [1..MaxRows -> RowType]]
           /\ \A e \in Raw : InTable(e) => InTable(e)'
<1>1. dlq' \in [Event -> [1..MaxRows -> RowType]]
  BY DEF Types
<1>2. ASSUME NEW e \in Raw, InTable(e)  PROVE InTable(e)'
  <2>1. PICK m \in 1..MaxRows : dlq[e][m].status # "none"
    BY <1>2 DEF InTable
  <2>2. dlq'[e][m].status # "none"
    BY <2>1 DEF Types, Event
  <2> QED BY <2>2 DEF InTable
<1> QED BY <1>1, <1>2

(* Filing one more row of an event.                                        *)
LEMMA FilingKeeps ==
    ASSUME Types, NEW f \in Event, Room(f), dlq' = [dlq EXCEPT ![f] = Filed(f)]
    PROVE  /\ dlq' \in [Event -> [1..MaxRows -> RowType]]
           /\ \A e \in Raw : InTable(e) => InTable(e)'
<1>1. /\ Filed(f) \in [1..MaxRows -> RowType]
      /\ \E n \in 1..MaxRows : Filed(f)[n].status # "none"
  BY FilingAdds
<1>2. dlq' \in [Event -> [1..MaxRows -> RowType]]
  BY <1>1 DEF Types
<1>3. ASSUME NEW e \in Raw, InTable(e)  PROVE InTable(e)'
  <2>1. CASE e = f
    BY <1>1, <2>1 DEF InTable, Types
  <2>2. CASE e # f
    BY <1>3, <2>2 DEF InTable, Types, Event
  <2> QED BY <2>1, <2>2
<1> QED BY <1>2, <1>3

(* The cron: what a run reads is whole, and only its commit moves the      *)
(* cursor.                                                                 *)
LEMMA CronStep ==
    ASSUME IdxInv, NEW i \in Indexer,
           Run(i) \/ FetchFails(i) \/ IndexerDies(i)
    PROVE  IdxInv'
<1> USE DEF IdxInv
<1>a. IdleJob \in Jobs
  BY DEF IdleJob, Jobs
<1>b. job[i] \in Jobs /\ cursor \in Nat /\ tip \in Nat
  BY DEF Types
<1>c. ASSUME UNCHANGED <<chain, tip, cursor, retry, hand, passed, stored, dlq>>,
             NEW x \in Jobs, job' = [job EXCEPT ![i] = x],
             x.from <= cursor,
             x.pc = "fetched" => Since(cursor, x.latest) \subseteq x.events \cup x.left
      PROVE  IdxInv'
  <2>1. Types'
    BY <1>c DEF Types, HandsOk
  <2>2. RunsAreWhole'
    <3>1. \A j \in Indexer : job'[j] = IF j = i THEN x ELSE job[j]
      BY <1>c DEF Types
    <3>2. \A from, to : Since(from, to)' = Since(from, to)
      BY <1>c DEF Since
    <3> QED BY <1>c, <3>1, <3>2 DEF RunsAreWhole
  <2>3. NonePassed'
    BY <1>c DEF NonePassed, InTable
  <2> QED BY <2>1, <2>2, <2>3
<1>1. CASE LoadCursor(i)
  <2> DEFINE x == [IdleJob EXCEPT !.pc = "loaded", !.from = cursor]
  <2>1. x \in Jobs /\ x.from = cursor /\ x.pc = "loaded"
    BY <1>b DEF IdleJob, Jobs
  <2>2. /\ job' = [job EXCEPT ![i] = x]
        /\ UNCHANGED <<chain, tip, cursor, retry, hand, passed, stored, dlq>>
    BY <1>1 DEF LoadCursor, tables
  <2>3. x.from <= cursor /\ x.pc # "fetched"
    BY <1>b, <2>1
  <2> HIDE DEF x
  <2> QED BY <1>c, <2>1, <2>2, <2>3
<1>2. CASE Fetch(i)
  <2>1. PICK start \in Starts(job[i].from), limit \in PageLimits :
              job' = [job EXCEPT ![i] = [pc |-> "fetched", from |-> 0,
                        events |-> Page(start, limit),
                        left |-> Since(job[i].from, tip) \ Page(start, limit),
                        latest |-> tip]]
    BY <1>2 DEF Fetch
  <2> DEFINE x == [pc |-> "fetched", from |-> 0, events |-> Page(start, limit),
                   left |-> Since(job[i].from, tip) \ Page(start, limit), latest |-> tip]
  <2>2. Page(start, limit) \subseteq Raw /\ Since(job[i].from, tip) \subseteq Raw
    BY DEF Page, Since
  <2>3. x \in Jobs
    BY <1>b, <2>2 DEF Jobs
  <2>4. /\ x.from <= cursor /\ x.latest = tip
        /\ Since(job[i].from, tip) \subseteq x.events \cup x.left
    BY <1>b
  <2>5. Since(cursor, tip) \subseteq Since(job[i].from, tip)
    <3>1. job[i].from <= cursor /\ job[i].from \in Nat
      BY <1>b DEF RunsAreWhole, Jobs
    <3>2. \A e \in Raw : LedgerOf(e) \in Nat
      BY IndexerConstants
    <3> QED BY <1>b, <3>1, <3>2 DEF Since
  <2>6. /\ job' = [job EXCEPT ![i] = x]
        /\ UNCHANGED <<chain, tip, cursor, retry, hand, passed, stored, dlq>>
    BY <1>2, <2>1 DEF Fetch, tables
  <2> HIDE DEF x
  <2> QED BY <1>c, <2>3, <2>4, <2>5, <2>6
<1>3. CASE PersistDoomed(i) \/ FetchFails(i) \/ IndexerDies(i)
  <2>1. /\ job' = [job EXCEPT ![i] = IdleJob]
        /\ UNCHANGED <<chain, tip, cursor, retry, hand, passed, stored, dlq>>
    BY <1>3 DEF PersistDoomed, FetchFails, IndexerDies, tables
  <2>2. IdleJob.from <= cursor /\ IdleJob.pc # "fetched"
    BY <1>b DEF IdleJob
  <2> QED BY <1>a, <1>c, <2>1, <2>2
<1>4. CASE Persist(i)
  <2>1. PICK thrown \in SUBSET (job[i].events \ stored) :
              /\ \A e \in thrown : Room(e)
              /\ stored' = stored \cup (job[i].events \ thrown)
              /\ dlq' = [e \in Event |-> IF e \in thrown THEN Filed(e) ELSE dlq[e]]
    BY <1>4 DEF Persist
  <2>2. /\ job[i].pc = "fetched" /\ cursor' = Advanced(job[i].latest)
        /\ job' = [job EXCEPT ![i] = IdleJob] /\ UNCHANGED <<chain, tip, retry, hand>>
        /\ passed' = passed \cup {e \in job[i].left : LedgerOf(e) \in cursor..(cursor' - 1)}
    BY <1>4 DEF Persist
  <2>3. /\ cursor' \in Nat /\ cursor <= cursor'
        /\ cursor' = cursor \/ cursor' = job[i].latest
    BY <2>2, <1>b DEF Advanced, Jobs
  <2>4. thrown \subseteq Event
    BY <2>1, <1>b DEF Jobs, Event
  <2>5. dlq' \in [Event -> [1..MaxRows -> RowType]]
    BY <2>1, <2>4, FilingAdds DEF Types
  <2>6. \A e \in thrown : InTable(e)'
    BY <2>1, <2>4, FilingAdds DEF InTable
  <2>7. \A e \in Raw : InTable(e) => InTable(e)'
    BY <2>1, <2>6 DEF InTable, Event
  <2>8. Types'
    BY <2>2, <2>3, <2>5, <1>a DEF Types, HandsOk
  <2>9. RunsAreWhole'
    <3>1. \A j \in Indexer : job'[j] = job[j] \/ job'[j] = IdleJob
      BY <2>2 DEF Types
    <3>2. \A j \in Indexer : job[j] \in Jobs
      BY DEF Types
    <3>3. \A to \in Nat : Since(cursor, to)' \subseteq Since(cursor, to)
      <4>1. \A e \in Raw : LedgerOf(e) \in Nat
        BY IndexerConstants
      <4> QED BY <2>2, <2>3, <1>b, <4>1 DEF Since
    <3>4. ASSUME NEW j \in Indexer
          PROVE  /\ job'[j].from <= cursor'
                 /\ job'[j].pc = "fetched" =>
                      Since(cursor, job[j].latest)' \subseteq job'[j].events \cup job'[j].left
      <4>1. CASE job'[j] = IdleJob
        BY <2>3, <4>1 DEF IdleJob
      <4>2. CASE job'[j] = job[j]
        <5>1. job[j].from \in Nat /\ job[j].latest \in Nat
          BY <3>2 DEF Jobs
        <5> QED BY <2>3, <3>3, <4>2, <5>1, <1>b DEF RunsAreWhole
      <4> QED BY <3>1, <4>1, <4>2
    <3> QED BY <3>4 DEF RunsAreWhole
  <2>10. ASSUME NEW e \in (Raw \cap chain)', (LedgerOf(e) < cursor')
         PROVE  e \in stored' \cup passed' \/ InTable(e)'
    <3>0. e \in Raw /\ e \in chain /\ LedgerOf(e) \in Nat
      BY <2>2, <2>10, IndexerConstants
    <3>1. CASE LedgerOf(e) < cursor
      BY <3>0, <3>1, <2>1, <2>2, <2>7, <2>10 DEF NonePassed
    <3>2. CASE ~(LedgerOf(e) < cursor)
      <4>1. /\ LedgerOf(e) \in cursor..job[i].latest
            /\ LedgerOf(e) \in cursor..(cursor' - 1)
        BY <3>0, <3>2, <2>3, <2>10, <1>b DEF Jobs
      <4>2. e \in job[i].events \cup job[i].left
        BY <3>0, <4>1, <2>2 DEF RunsAreWhole, Since
      <4> QED BY <4>1, <4>2, <2>1, <2>2, <2>6
    <3> QED BY <3>1, <3>2
  <2> QED BY <2>8, <2>9, <2>10 DEF NonePassed
<1> QED BY <1>1, <1>2, <1>3, <1>4 DEF Run

-----------------------------------------------------------------------------
(* The copies a retrier holds stay of rows that exist.                     *)
Held(r) == /\ \A c \in retry[r].todo : Existing(c)
           /\ retry[r].now = NoCopy \/ Existing(retry[r].now)

LEMMA CopyChanges ==
    ASSUME Types, NEW r \in Retrier, NEW x \in [todo : SUBSET Copies, now : Copies],
           \A c \in x.todo : Existing(c), x.now = NoCopy \/ Existing(x.now),
           retry' = [retry EXCEPT ![r] = x]
    PROVE  /\ retry' \in [Retrier -> [todo : SUBSET Copies, now : Copies]]
           /\ \A q \in Retrier : Held(q)'
BY DEF Types, Held

LEMMA ProcessKeeps ==
    ASSUME Types, NEW f \in Event, Process(f)
    PROVE  /\ dlq' \in [Event -> [1..MaxRows -> RowType]]
           /\ \A e \in Raw : InTable(e) => InTable(e)'
<1>1. CASE dlq' = dlq
  BY <1>1 DEF Types, InTable
<1>2. CASE Room(f) /\ dlq' = [dlq EXCEPT ![f] = Filed(f)]
  BY <1>2, FilingKeeps
<1> QED BY <1>1, <1>2 DEF Process

(* What is saved is a row, and one that exists.                            *)
LEMMA TriedRows ==
    ASSUME NEW row \in RowType
    PROVE  \A x \in {Resolved(row), Failed(row)} : x \in RowType /\ x.status # "none"
<1>1. row.attempts \in 0..MaxAttempts /\ MaxAttempts \in Nat \ {0}
  BY IndexerConstants DEF RowType
<1>2. Trying(row).attempts \in 0..MaxAttempts
  BY <1>1 DEF Trying, RowType
<1> QED BY <1>2 DEF Resolved, Failed, Trying, RowType, Open

(* Every step but the cron's leaves the cursor and the runs alone, and no  *)
(* row of the table disappears.                                            *)
LEMMA RestKeeps ==
    ASSUME IdxInv, chain' = chain, cursor' = cursor, passed' = passed, job' = job,
           tip' \in Nat, HandsOk',
           stored \subseteq stored',
           \A e \in Raw : InTable(e) => InTable(e)',
           dlq' \in [Event -> [1..MaxRows -> RowType]],
           retry' \in [Retrier -> [todo : SUBSET Copies, now : Copies]],
           \A q \in Retrier : Held(q)'
    PROVE  IdxInv'
<1>1. Types'
  BY DEF IdxInv, Types, Held
<1>2. RunsAreWhole' /\ NonePassed'
  BY RunsKept, CoverKept DEF IdxInv
<1> QED BY <1>1, <1>2 DEF IdxInv

LEMMA RetryStep ==
    ASSUME IdxInv, NEW r \in Retrier, Work(r) \/ RetrierDies(r)
    PROVE  IdxInv'
<1> USE DEF IdxInv
<1>a. /\ retry[r] \in [todo : SUBSET Copies, now : Copies] /\ Held(r)
      /\ \A q \in Retrier : Held(q)
      /\ tip \in Nat /\ \A e \in Event : dlq[e] \in [1..MaxRows -> RowType]
      /\ retry \in [Retrier -> [todo : SUBSET Copies, now : Copies]]
      /\ dlq \in [Event -> [1..MaxRows -> RowType]]
  BY DEF Types, Held
<1>h. hand' = hand => HandsOk'
  BY DEF Types, HandsOk
<1>b. NoCopy \in Copies
  BY IndexerConstants DEF NoCopy, NoRow, Copies, RowType, Open
<1>1. CASE ReadDue(r)
  <2>1. \A c \in DueRows : Existing(c) /\ c \in Copies
    <3>1. ASSUME NEW e \in Event, NEW n \in 1..MaxRows, dlq[e][n].status \in Open
          PROVE  LET c == [event |-> e, n |-> n, row |-> dlq[e][n]]
                 IN  Existing(c) /\ c \in Copies
      <4>1. n \in 0..MaxRows /\ dlq[e][n] \in RowType
        BY <1>a, IndexerConstants
      <4>2. dlq[e][n].status # "none"
        BY <3>1 DEF Open
      <4> QED BY <4>1, <4>2 DEF Existing, Copies
    <3>2. ASSUME NEW p \in Event \X (1..MaxRows)
          PROVE  p[1] \in Event /\ p[2] \in 1..MaxRows
      OBVIOUS
    <3> QED BY <3>1, <3>2 DEF DueRows, DueAs
  <2>2. retry[r].now = NoCopy
    BY <1>1 DEF ReadDue, Resting
  <2> DEFINE x == [retry[r] EXCEPT !.todo = DueRows]
  <2>3. retry' = [retry EXCEPT ![r] = x]
    BY <1>1 DEF ReadDue
  <2>4. /\ retry' \in [Retrier -> [todo : SUBSET Copies, now : Copies]]
        /\ \A q \in Retrier : Held(q)'
    <3>1. x \in [todo : SUBSET Copies, now : Copies] /\ x.todo = DueRows /\ x.now = NoCopy
      BY <1>a, <2>1, <2>2
    <3> HIDE DEF x
    <3> QED BY <2>1, <2>3, <3>1, CopyChanges
  <2>5. UNCHANGED <<chain, tip, cursor, passed, hand, job, stored, dlq>>
    BY <1>1 DEF ReadDue, tables
  <2> QED BY <2>4, <2>5, <1>a, <1>h, RestKeeps DEF InTable
<1>2. ASSUME NEW c \in retry[r].todo, AgedOut(r, c)  PROVE IdxInv'
  <2>1. c \in Copies /\ Existing(c)
    BY <1>a DEF Held
  <2>2. [c.row EXCEPT !.status = "exhausted", !.due = FALSE] \in RowType
    BY <2>1 DEF Copies, RowType
  <2>3. dlq' = [dlq EXCEPT ![c.event][c.n] = [c.row EXCEPT !.status = "exhausted", !.due = FALSE]]
    BY <1>2 DEF AgedOut
  <2>4. c.event \in Event /\ c.n \in 1..MaxRows
    BY <2>1 DEF Existing
  <2>5. /\ dlq' \in [Event -> [1..MaxRows -> RowType]]
        /\ \A e \in Raw : InTable(e) => InTable(e)'
    <3>1. [c.row EXCEPT !.status = "exhausted", !.due = FALSE].status # "none"
      BY <2>1 DEF Copies, RowType
    <3> QED BY <2>2, <2>3, <2>4, <3>1, RowWritten
  <2> DEFINE x == [retry[r] EXCEPT !.todo = @ \ {c}]
  <2>6. retry' = [retry EXCEPT ![r] = x] /\ retry[r].now = NoCopy
    BY <1>2 DEF AgedOut
  <2>7. /\ retry' \in [Retrier -> [todo : SUBSET Copies, now : Copies]]
        /\ \A q \in Retrier : Held(q)'
    <3>1. /\ x \in [todo : SUBSET Copies, now : Copies]
          /\ x.todo = retry[r].todo \ {c} /\ x.now = NoCopy
      BY <1>a, <2>6
    <3> HIDE DEF x
    <3> QED BY <2>6, <3>1, <1>a, CopyChanges DEF Held
  <2>8. UNCHANGED <<chain, tip, cursor, passed, hand, job, stored>>
    BY <1>2 DEF AgedOut
  <2> QED BY <2>5, <2>7, <2>8, <1>a, <1>h, RestKeeps
<1>3. ASSUME NEW c \in retry[r].todo, NEW row \in {Resolved(c.row), Failed(c.row)},
             Took(r, c, row)
      PROVE  /\ retry' \in [Retrier -> [todo : SUBSET Copies, now : Copies]]
             /\ \A q \in Retrier : Held(q)'
  <2>1. c \in Copies /\ Existing(c)
    BY <1>a DEF Held
  <2>2. row \in RowType /\ row.status # "none"
    BY <2>1, TriedRows DEF Copies
  <2>3. [c EXCEPT !.row = row] \in Copies /\ Existing([c EXCEPT !.row = row])
    BY <2>1, <2>2 DEF Copies, Existing
  <2> DEFINE x == [todo |-> retry[r].todo \ {c}, now |-> [c EXCEPT !.row = row]]
  <2>4. retry' = [retry EXCEPT ![r] = x]
    BY <1>3, <1>a DEF Took
  <2>5. x \in [todo : SUBSET Copies, now : Copies]
    BY <2>3, <1>a
  <2> QED BY <2>3, <2>4, <2>5, <1>a, CopyChanges DEF Held
<1>4. ASSUME NEW c \in retry[r].todo, RetryRaw(r, c)  PROVE IdxInv'
  <2>1. \E row \in {Resolved(c.row), Failed(c.row)} : Took(r, c, row)
    BY <1>4 DEF RetryRaw
  <2>2. UNCHANGED <<chain, tip, cursor, passed, hand, job, dlq>> /\ stored \subseteq stored'
    BY <1>4 DEF RetryRaw
  <2> QED BY <1>3, <2>1, <2>2, <1>a, <1>h, RestKeeps DEF InTable
<1>5. ASSUME NEW c \in retry[r].todo, RetryDomain(r, c)  PROVE IdxInv'
  <2>1. Took(r, c, Resolved(c.row)) /\ Process(c.event) /\ c.event \in Event
    BY <1>5 DEF RetryDomain, Event
  <2>2. UNCHANGED <<chain, tip, cursor, passed, hand, job, stored>>
    BY <1>5 DEF RetryDomain
  <2>3. /\ dlq' \in [Event -> [1..MaxRows -> RowType]]
        /\ \A e \in Raw : InTable(e) => InTable(e)'
    BY <2>1, ProcessKeeps
  <2> QED BY <1>3, <2>1, <2>2, <2>3, <1>a, <1>h, RestKeeps
<1>6. CASE SaveRetried(r)
  <2> DEFINE c == retry[r].now
  <2>1. c \in Copies /\ Existing(c)
    BY <1>6, <1>a DEF SaveRetried, Held
  <2>2. dlq' = [dlq EXCEPT ![c.event][c.n] = c.row]
    BY <1>6 DEF SaveRetried
  <2>3. c.event \in Event /\ c.n \in 1..MaxRows /\ c.row \in RowType /\ c.row.status # "none"
    BY <2>1 DEF Existing, Copies
  <2> DEFINE x == [retry[r] EXCEPT !.now = NoCopy]
  <2>4. retry' = [retry EXCEPT ![r] = x]
    BY <1>6 DEF SaveRetried
  <2> HIDE DEF c
  <2>5. /\ dlq' \in [Event -> [1..MaxRows -> RowType]]
        /\ \A e \in Raw : InTable(e) => InTable(e)'
    BY <2>2, <2>3, RowWritten
  <2>6. /\ retry' \in [Retrier -> [todo : SUBSET Copies, now : Copies]]
        /\ \A q \in Retrier : Held(q)'
    <3>1. /\ x \in [todo : SUBSET Copies, now : Copies]
          /\ x.todo = retry[r].todo /\ x.now = NoCopy
      BY <1>a, <1>b
    <3> HIDE DEF x
    <3> QED BY <2>4, <3>1, <1>a, CopyChanges DEF Held
  <2>7. UNCHANGED <<chain, tip, cursor, passed, hand, job, stored>>
    BY <1>6 DEF SaveRetried
  <2> QED BY <2>5, <2>6, <2>7, <1>a, <1>h, RestKeeps
<1>7. CASE RetrierDies(r)
  <2>1. retry' = [retry EXCEPT ![r] = Resting]
    BY <1>7 DEF RetrierDies
  <2>2. /\ retry' \in [Retrier -> [todo : SUBSET Copies, now : Copies]]
        /\ \A q \in Retrier : Held(q)'
    <3>1. /\ Resting \in [todo : SUBSET Copies, now : Copies]
          /\ Resting.todo = {} /\ Resting.now = NoCopy
      BY <1>b DEF Resting
    <3> QED BY <2>1, <3>1, CopyChanges
  <2>3. UNCHANGED <<chain, tip, cursor, passed, hand, job, stored, dlq>>
    BY <1>7 DEF RetrierDies, tables
  <2> QED BY <2>2, <2>3, <1>a, <1>h, RestKeeps DEF InTable
<1> QED BY <1>1, <1>2, <1>4, <1>5, <1>6, <1>7 DEF Work

-----------------------------------------------------------------------------
(* The copy a replay by hand holds stays of a row that exists.             *)
LEMMA HandChanges ==
    ASSUME Types, NEW p \in Replay, NEW x \in Hands,
           x.pc \in {"read", "save"} => Existing(x.copy),
           hand' = [hand EXCEPT ![p] = x]
    PROVE  HandsOk'
BY DEF Types, HandsOk

LEMMA OverIsHand == Over \in Hands /\ Over.pc = "over"
<1>1. NoRow \in RowType
  BY IndexerConstants DEF NoRow, RowType, Open
<1> QED BY <1>1, IndexerConstants DEF Over, Hands, NoCopy, Copies

(* What a replay finds and what it saves are copies of rows.               *)
LEMMA FoundCopy ==
    ASSUME Types, NEW e \in Event, NEW n \in 1..MaxRows, dlq[e][n].status # "none"
    PROVE  LET c == [event |-> e, n |-> n, row |-> dlq[e][n]]
           IN  c \in Copies /\ Existing(c)
<1>1. dlq[e][n] \in RowType /\ n \in 0..MaxRows
  BY IndexerConstants DEF Types
<1> QED BY <1>1 DEF Copies, Existing

LEMMA SettledCopy ==
    ASSUME NEW c \in Copies, Existing(c)
    PROVE  /\ Settled(c) \in Copies /\ Existing(Settled(c))
           /\ Settled(c).event = c.event /\ Settled(c).n = c.n
           /\ Settled(c).row.status = "resolved"
<1>1. c.row \in RowType
  BY DEF Copies
<1>2. Settled(c) = [c EXCEPT !.row = [c.row EXCEPT !.status = "resolved", !.due = FALSE]]
  BY <1>1 DEF Settled, Copies, RowType
<1>3. [c.row EXCEPT !.status = "resolved", !.due = FALSE] \in RowType
  BY <1>1 DEF RowType
<1>4. [c.row EXCEPT !.status = "resolved", !.due = FALSE].status = "resolved"
  BY <1>1 DEF RowType
<1> QED BY <1>2, <1>3, <1>4 DEF Copies, Existing

LEMMA HandStep ==
    ASSUME IdxInv, NEW p \in Replay, ByHand(p)  PROVE IdxInv'
<1> USE DEF IdxInv
<1>a. /\ hand[p] \in Hands /\ hand[p].copy \in Copies
      /\ hand[p].pc \in {"read", "save"} => Existing(hand[p].copy)
  BY DEF Types, HandsOk, Hands
<1>b. /\ retry' = retry => /\ retry' \in [Retrier -> [todo : SUBSET Copies, now : Copies]]
                          /\ \A q \in Retrier : Held(q)'
      /\ dlq' = dlq => /\ dlq' \in [Event -> [1..MaxRows -> RowType]]
                      /\ \A e \in Raw : InTable(e) => InTable(e)'
      /\ tip \in Nat
  BY DEF Types, Held, InTable
<1>1. ASSUME NEW e \in Event, NEW n \in 1..MaxRows, ReplayFinds(p, e, n)  PROVE IdxInv'
  <2> DEFINE c == [event |-> e, n |-> n, row |-> dlq[e][n]]
             x == [pc |-> "read", copy |-> c]
  <2>1. /\ dlq[e][n].status # "none" /\ hand' = [hand EXCEPT ![p] = x]
        /\ UNCHANGED <<chain, tip, cursor, passed, job, retry, stored, dlq>>
    BY <1>1 DEF ReplayFinds, tables
  <2>2. c \in Copies /\ Existing(c)
    BY <2>1, FoundCopy
  <2> HIDE DEF c
  <2>3. x \in Hands /\ x.copy = c
    BY <2>2 DEF Hands
  <2> HIDE DEF x
  <2>4. HandsOk'
    BY <2>1, <2>2, <2>3, HandChanges
  <2> QED BY <2>1, <2>4, <1>b, RestKeeps
<1>2. CASE ReplayInserts(p)
  <2> DEFINE x == [pc |-> "save", copy |-> Settled(hand[p].copy)]
  <2>1. /\ hand[p].pc = "read" /\ hand' = [hand EXCEPT ![p] = x] /\ stored \subseteq stored'
        /\ UNCHANGED <<chain, tip, cursor, passed, job, retry, dlq>>
    BY <1>2 DEF ReplayInserts
  <2>2. Settled(hand[p].copy) \in Copies /\ Existing(Settled(hand[p].copy))
    BY <1>a, <2>1, SettledCopy
  <2>3. x \in Hands /\ x.copy = Settled(hand[p].copy)
    BY <2>2 DEF Hands
  <2> HIDE DEF x
  <2>4. HandsOk'
    BY <2>1, <2>2, <2>3, HandChanges
  <2> QED BY <2>1, <2>4, <1>b, RestKeeps
<1>3. CASE ReplayInsertFails(p)
  <2> DEFINE x == [hand[p] EXCEPT !.pc = "save"]
  <2>1. /\ hand[p].pc = "read" /\ hand' = [hand EXCEPT ![p] = x]
        /\ UNCHANGED <<chain, tip, cursor, passed, job, retry, stored, dlq>>
    BY <1>3 DEF ReplayInsertFails, tables
  <2>2. x \in Hands /\ x.copy = hand[p].copy
    BY <1>a DEF Hands
  <2> HIDE DEF x
  <2>3. HandsOk'
    BY <1>a, <2>1, <2>2, HandChanges
  <2> QED BY <2>1, <2>3, <1>b, RestKeeps
<1>4. CASE ReplaySaves(p)
  <2> DEFINE c == hand[p].copy
  <2>1. /\ hand[p].pc = "save" /\ dlq' = [dlq EXCEPT ![c.event][c.n] = c.row]
        /\ hand' = [hand EXCEPT ![p] = Over]
        /\ UNCHANGED <<chain, tip, cursor, passed, job, retry, stored>>
    BY <1>4 DEF ReplaySaves
  <2>2. c.event \in Event /\ c.n \in 1..MaxRows /\ c.row \in RowType /\ c.row.status # "none"
    BY <1>a, <2>1 DEF Existing, Copies
  <2> HIDE DEF c
  <2>3. /\ dlq' \in [Event -> [1..MaxRows -> RowType]]
        /\ \A e \in Raw : InTable(e) => InTable(e)'
    BY <2>1, <2>2, RowWritten
  <2>4. HandsOk'
    BY <2>1, HandChanges, OverIsHand
  <2> QED BY <2>1, <2>3, <2>4, <1>b, RestKeeps
<1>5. CASE ReplayDies(p)
  <2>1. /\ hand' = [hand EXCEPT ![p] = Over]
        /\ UNCHANGED <<chain, tip, cursor, passed, job, retry, stored, dlq>>
    BY <1>5 DEF ReplayDies, tables
  <2>2. HandsOk'
    BY <2>1, HandChanges, OverIsHand
  <2> QED BY <2>1, <2>2, <1>b, RestKeeps
<1> QED BY <1>1, <1>2, <1>3, <1>4, <1>5 DEF ByHand

-----------------------------------------------------------------------------
LEMMA IdxStep == ASSUME IdxInv, [Next]_vars  PROVE IdxInv'
<1>a. /\ \A r \in Retrier : Held(r)
      /\ tip \in Nat /\ \A e \in Event : dlq[e] \in [1..MaxRows -> RowType]
      /\ retry \in [Retrier -> [todo : SUBSET Copies, now : Copies]]
      /\ dlq \in [Event -> [1..MaxRows -> RowType]]
  BY DEF IdxInv, Types, Held
<1>b. ASSUME UNCHANGED retry
      PROVE  /\ retry' \in [Retrier -> [todo : SUBSET Copies, now : Copies]]
             /\ \A r \in Retrier : Held(r)'
  BY <1>a, <1>b DEF Held
<1>h. hand' = hand => HandsOk'
  BY DEF IdxInv, Types, HandsOk
<1>1. CASE CloseLedger
  BY <1>1, <1>a, <1>b, <1>h, RestKeeps DEF CloseLedger, tables, InTable
<1>2. ASSUME NEW i \in Indexer, Run(i) \/ FetchFails(i) \/ IndexerDies(i)  PROVE IdxInv'
  BY <1>2, CronStep
<1>3. ASSUME NEW e \in Domain, Ingest(e)  PROVE IdxInv'
  <2>1. /\ dlq' \in [Event -> [1..MaxRows -> RowType]]
        /\ \A f \in Raw : InTable(f) => InTable(f)'
    BY <1>3, ProcessKeeps DEF Ingest, Event, IdxInv
  <2>2. UNCHANGED <<chain, tip, cursor, passed, stored, job, retry, hand>>
    BY <1>3 DEF Ingest
  <2> QED BY <2>1, <2>2, <1>a, <1>b, <1>h, RestKeeps
<1>4. ASSUME NEW r \in Retrier, Work(r) \/ RetrierDies(r)  PROVE IdxInv'
  BY <1>4, RetryStep
<1>5. ASSUME NEW e \in Event, NEW n \in 1..MaxRows, FallDue(e, n)  PROVE IdxInv'
  <2> DEFINE row == [dlq[e][n] EXCEPT !.due = TRUE]
  <2>1. dlq[e][n] \in RowType
    BY <1>a
  <2>2. row \in RowType /\ row.status # "none"
    BY <2>1, <1>5 DEF RowType, FallDue, Open
  <2>3. dlq' = [dlq EXCEPT ![e][n] = row]
    BY <1>5 DEF FallDue
  <2> HIDE DEF row
  <2>4. /\ dlq' \in [Event -> [1..MaxRows -> RowType]]
        /\ \A f \in Raw : InTable(f) => InTable(f)'
    BY <2>2, <2>3, RowWritten DEF IdxInv
  <2>5. UNCHANGED <<chain, tip, cursor, passed, job, retry, hand, stored>>
    BY <1>5 DEF FallDue
  <2> QED BY <2>4, <2>5, <1>a, <1>b, <1>h, RestKeeps
<1>7. ASSUME NEW p \in Replay, ByHand(p)  PROVE IdxInv'
  BY <1>7, HandStep
<1>6. CASE UNCHANGED vars
  BY <1>6, <1>a, <1>b, <1>h, RestKeeps DEF vars, InTable
<1> QED BY <1>1, <1>2, <1>3, <1>4, <1>5, <1>6, <1>7 DEF Next

LEMMA IdxAlways == Spec => []IdxInv
<1>1. IdxInv /\ [Next]_vars => IdxInv'
  BY IdxStep
<1> QED BY IdxInit, <1>1, PTL DEF Spec

(* The comment in handleIndexing, for any number of instances, retriers,   *)
(* events, crashes and replays, whatever pages the node answers with: the  *)
(* cursor is never past an event that is neither stored nor filed, but for *)
(* those that the very run which moved it past them was not given.         *)
THEOREM CursorCovers == Spec => []CursorCoversEvents
<1>1. IdxInv => CursorCoversEvents
  BY CoveredMeans DEF IdxInv
<1> QED BY IdxInit, IdxAlways, <1>1, PTL DEF Spec

-----------------------------------------------------------------------------
(* The rows of an event are filed one after another.  A raw event that has *)
(* a resolved row is stored; the last row of a domain event that is neither*)
(* applied nor excepted is not resolved, and no retrier is about to save   *)
(* it as resolved: a failed retry files another row before it resolves.    *)
Missed == Domain \ (applied \cup hurt)

TableOk ==
    /\ \A e \in Event : \E k \in 0..MaxRows : Used(e) = 1..k
    /\ \A e \in Raw \ stored, n \in 1..MaxRows : dlq[e][n].status # "resolved"
    /\ \A e \in Missed, k \in 1..MaxRows : Used(e) = 1..k => dlq[e][k].status # "resolved"

TodoOk(c) == c.event \in Event /\ c.n \in Used(c.event) /\ c.row.status \in Open

NowOk(c) ==
    c # NoCopy =>
        /\ c.event \in Event /\ c.n \in Used(c.event)
        /\ c.row.status = "resolved" =>
              /\ c.event \in Raw => c.event \in stored
              /\ c.event \in Missed => Used(c.event) # 1..c.n

CopiesOk == /\ \A r \in Retrier : NowOk(retry[r].now) /\ \A c \in retry[r].todo : TodoOk(c)
            /\ \A p \in Replay : hand[p].pc \in {"read", "save"} => NowOk(hand[p].copy)

DlqInv == TableOk /\ CopiesOk

(* From one state to the next an event has the same rows or one more, and  *)
(* what is stored, applied or excepted stays so.                           *)
Grows ==
    /\ stored \subseteq stored' /\ applied \subseteq applied' /\ hurt \subseteq hurt'
    /\ \A e \in Event :
          \/ Used(e)' = Used(e)
          \/ \E k \in 0..MaxRows : Used(e) = 1..k /\ Used(e)' = 1..(k + 1)

LEMMA CopiesKept ==
    ASSUME Grows
    PROVE  \A c : (NowOk(c) => NowOk(c)') /\ (TodoOk(c) => TodoOk(c)')
<1> USE DEF Grows, Missed
<1>1. ASSUME NEW e \in Event, NEW n \in Used(e)  PROVE n \in Used(e)' /\ n \in Nat
  <2>1. n \in Nat
    BY DEF Used
  <2> QED BY <2>1
<1>2. ASSUME NEW e \in Event, NEW n \in Used(e), Used(e) # 1..n  PROVE Used(e)' # 1..n
  <2>1. CASE Used(e)' = Used(e)
    BY <1>2, <2>1
  <2>2. ASSUME NEW k \in 0..MaxRows, Used(e) = 1..k, Used(e)' = 1..(k + 1)
        PROVE  Used(e)' # 1..n
    <3>1. k + 1 \in Used(e)' /\ n \in 1..k /\ k \in Nat
      BY <2>2
    <3> QED BY <2>2, <3>1
  <2> QED BY <2>1, <2>2
<1> QED BY <1>1, <1>2 DEF NowOk, TodoOk

LEMMA InvKept ==
    ASSUME DlqInv, Grows, TableOk', UNCHANGED <<retry, hand>>
    PROVE  DlqInv'
<1>1. CopiesOk'
  BY CopiesKept DEF DlqInv, CopiesOk
<1> QED BY <1>1 DEF DlqInv

LEMMA InvMoved ==
    ASSUME DlqInv, Grows, TableOk', NEW r \in Retrier, NEW x,
           retry' = [retry EXCEPT ![r] = x], NowOk(x.now)',
           \A c \in x.todo : c \in retry[r].todo \/ TodoOk(c)',
           retry \in [Retrier -> [todo : SUBSET Copies, now : Copies]], UNCHANGED hand
    PROVE  DlqInv'
<1>1. \A q \in Retrier : retry'[q] = IF q = r THEN x ELSE retry[q]
  OBVIOUS
<1>2. ASSUME NEW q \in Retrier, NEW c, c = retry'[q].now  PROVE NowOk(c)'
  <2>1. CASE q = r
    BY <1>1, <1>2, <2>1
  <2>2. CASE q # r
    <3>1. c = retry[q].now /\ NowOk(c)
      BY <1>1, <1>2, <2>2 DEF DlqInv, CopiesOk
    <3> QED BY <3>1, CopiesKept
  <2> QED BY <2>1, <2>2
<1>3. ASSUME NEW q \in Retrier, NEW c \in retry'[q].todo  PROVE TodoOk(c)'
  <2>1. c \in retry[q].todo \/ TodoOk(c)'
    BY <1>1, <1>3
  <2>2. \A d \in retry[q].todo : TodoOk(d)
    BY DEF DlqInv, CopiesOk
  <2> QED BY <2>1, <2>2, CopiesKept
<1>4. ASSUME NEW p \in Replay, hand'[p].pc \in {"read", "save"}, NEW c, c = hand'[p].copy
      PROVE  NowOk(c)'
  <2>1. NowOk(c)
    BY <1>4 DEF DlqInv, CopiesOk
  <2> QED BY <2>1, CopiesKept
<1>5. CopiesOk'
  BY <1>2, <1>3, <1>4 DEF CopiesOk
<1> QED BY <1>5 DEF DlqInv

LEMMA InvByHand ==
    ASSUME DlqInv, Types, Grows, TableOk', NEW p \in Replay, NEW x,
           hand' = [hand EXCEPT ![p] = x], UNCHANGED retry,
           x.pc \in {"read", "save"} => NowOk(x.copy)'
    PROVE  DlqInv'
<1>1. \A q \in Replay : hand'[q] = IF q = p THEN x ELSE hand[q]
  BY DEF Types, HandsOk
<1>2. ASSUME NEW q \in Replay, hand'[q].pc \in {"read", "save"}, NEW c, c = hand'[q].copy
      PROVE  NowOk(c)'
  <2>1. CASE q = p
    BY <1>1, <1>2, <2>1
  <2>2. CASE q # p
    <3>1. hand'[q] = hand[q] /\ NowOk(c)
      BY <1>1, <1>2, <2>2 DEF DlqInv, CopiesOk
    <3> QED BY <3>1, CopiesKept
  <2> QED BY <2>1, <2>2
<1>3. CopiesOk'
  BY <1>2, CopiesKept DEF DlqInv, CopiesOk
<1> QED BY <1>3 DEF DlqInv

-----------------------------------------------------------------------------
(* Nothing is written to the table.                                        *)
LEMMA TableStays ==
    ASSUME DlqInv, dlq' = dlq, stored \subseteq stored', applied \subseteq applied',
           hurt \subseteq hurt'
    PROVE  Grows /\ TableOk'
<1>1. \A e \in Event : Used(e)' = Used(e)
  BY DEF Used
<1>2. Missed' \subseteq Missed /\ Missed \subseteq Event /\ Raw \subseteq Event
  BY DEF Missed, Event
<1>3. Grows
  BY <1>1 DEF Grows
<1>4. \A e \in Event : \E k \in 0..MaxRows : Used(e)' = 1..k
  BY <1>1 DEF DlqInv, TableOk
<1>5. \A e \in Raw \ stored', n \in 1..MaxRows : dlq'[e][n].status # "resolved"
  BY DEF DlqInv, TableOk
<1>6. \A e \in Missed', k \in 1..MaxRows : Used(e)' = 1..k => dlq'[e][k].status # "resolved"
  BY <1>1, <1>2 DEF DlqInv, TableOk
<1> QED BY <1>3, <1>4, <1>5, <1>6 DEF TableOk

(* A row that is there is overwritten.                                     *)
LEMMA TableSaved ==
    ASSUME DlqInv, Types, NEW f \in Event, NEW n \in Used(f), NEW row \in RowType,
           row.status # "none", dlq' = [dlq EXCEPT ![f][n] = row],
           stored \subseteq stored', applied \subseteq applied', hurt \subseteq hurt',
           row.status = "resolved" =>
              /\ f \in Raw => f \in stored'
              /\ f \in Missed' => Used(f) # 1..n
    PROVE  Grows /\ TableOk'
<1>1. n \in 1..MaxRows /\ dlq[f][n].status # "none"
  BY DEF Used
<1>2. \A e \in Event, m \in 1..MaxRows :
         dlq'[e][m] = IF e = f /\ m = n THEN row ELSE dlq[e][m]
  BY <1>1 DEF Types
<1>3. \A e \in Event : Used(e)' = Used(e)
  BY <1>1, <1>2 DEF Used
<1>4. Grows
  BY <1>3 DEF Grows
<1>5. \A e \in Event : \E k \in 0..MaxRows : Used(e)' = 1..k
  BY <1>3 DEF DlqInv, TableOk
<1>6. \A e \in Raw \ stored', m \in 1..MaxRows : dlq'[e][m].status # "resolved"
  BY <1>2 DEF DlqInv, TableOk, Event
<1>7. ASSUME NEW e \in Missed', NEW k \in 1..MaxRows, Used(e)' = 1..k
      PROVE  dlq'[e][k].status # "resolved"
  <2>1. e \in Missed /\ e \in Event /\ Used(e) = 1..k
    BY <1>3, <1>7 DEF Missed, Event
  <2>2. dlq[e][k].status # "resolved"
    BY <2>1 DEF DlqInv, TableOk
  <2>3. CASE e = f /\ k = n
    BY <1>2, <1>7, <2>1, <2>3
  <2>4. CASE ~(e = f /\ k = n)
    BY <1>2, <2>1, <2>2, <2>4
  <2> QED BY <2>3, <2>4
<1>8. TableOk'
  BY <1>5, <1>6, <1>7 DEF TableOk
<1> QED BY <1>4, <1>8

(* One more row is filed of each of some events.                           *)
LEMMA FiledIs ==
    ASSUME DlqInv, Types, NEW e \in Event, Room(e)
    PROVE  \E k \in 0..MaxRows :
              /\ Used(e) = 1..k /\ k + 1 \in 1..MaxRows
              /\ Filed(e) = [dlq[e] EXCEPT ![k + 1] = Fresh]
<1>1. PICK k \in 0..MaxRows : Used(e) = 1..k
  BY DEF DlqInv, TableOk
<1>2. k \in Nat /\ MaxRows \in Nat
  BY IndexerConstants
<1>3. Cardinality(1..k) = k
  <2>1. 1 \in Int /\ k \in Int
    BY <1>2
  <2>2. Cardinality(1..k) = IF 1 > k THEN 0 ELSE k - 1 + 1
    BY <2>1, FS_Interval
  <2> QED BY <1>2, <2>2
<1>4. Cardinality(Used(e)) = k
  BY <1>1, <1>3
<1>5. RowsOf(e) \in 0..MaxRows
  BY IndexerConstants DEF Event
<1> QED BY <1>1, <1>2, <1>4, <1>5 DEF Room, Filed

LEMMA TableFiled ==
    ASSUME DlqInv, Types, NEW F \in SUBSET Event, \A e \in F : Room(e),
           dlq' = [e \in Event |-> IF e \in F THEN Filed(e) ELSE dlq[e]],
           stored \subseteq stored', applied \subseteq applied', hurt \subseteq hurt'
    PROVE  Grows /\ TableOk'
<1>1. Fresh.status = "pending"
  BY DEF Fresh
<1>2. ASSUME NEW e \in F
      PROVE  \E k \in 0..MaxRows :
                /\ Used(e) = 1..k /\ k + 1 \in 1..MaxRows
                /\ \A m \in 1..MaxRows :
                      dlq'[e][m] = IF m = k + 1 THEN Fresh ELSE dlq[e][m]
  <2>1. PICK k \in 0..MaxRows :
              /\ Used(e) = 1..k /\ k + 1 \in 1..MaxRows
              /\ Filed(e) = [dlq[e] EXCEPT ![k + 1] = Fresh]
    BY <1>2, FiledIs
  <2>2. dlq'[e] = Filed(e) /\ dlq[e] \in [1..MaxRows -> RowType]
    BY <1>2 DEF Types
  <2> QED BY <2>1, <2>2
<1>3. \A e \in Event \ F : dlq'[e] = dlq[e]
  OBVIOUS
<1>4. \A e \in Event \ F : Used(e)' = Used(e)
  BY <1>3 DEF Used
<1>5. ASSUME NEW e \in F
      PROVE  \E k \in 0..MaxRows :
                /\ Used(e) = 1..k /\ k + 1 \in 1..MaxRows /\ Used(e)' = 1..(k + 1)
                /\ dlq'[e][k + 1].status = "pending"
                /\ \A m \in 1..MaxRows \ {k + 1} : dlq'[e][m] = dlq[e][m]
  <2>1. PICK k \in 0..MaxRows :
                /\ Used(e) = 1..k /\ k + 1 \in 1..MaxRows
                /\ \A m \in 1..MaxRows :
                      dlq'[e][m] = IF m = k + 1 THEN Fresh ELSE dlq[e][m]
    BY <1>2
  <2>2. Used(e)' = Used(e) \cup {k + 1}
    BY <1>1, <2>1 DEF Used
  <2>3. Used(e)' = 1..(k + 1)
    BY <2>1, <2>2, IndexerConstants
  <2> QED BY <1>1, <2>1, <2>3
<1>6. Grows
  BY <1>4, <1>5 DEF Grows
<1>7. \A e \in Event : \E k \in 0..MaxRows : Used(e)' = 1..k
  BY <1>4, <1>5, IndexerConstants DEF DlqInv, TableOk
<1>8. ASSUME NEW e \in Raw \ stored', NEW m \in 1..MaxRows
      PROVE  dlq'[e][m].status # "resolved"
  <2>1. e \in Event /\ dlq[e][m].status # "resolved"
    BY DEF DlqInv, TableOk, Event
  <2> QED BY <1>3, <1>5, <2>1
<1>9. ASSUME NEW e \in Missed', NEW k \in 1..MaxRows, Used(e)' = 1..k
      PROVE  dlq'[e][k].status # "resolved"
  <2>1. e \in Missed /\ e \in Event
    BY DEF Missed, Event
  <2>2. CASE e \in F
    <3>1. PICK j \in 0..MaxRows :
                /\ j + 1 \in 1..MaxRows /\ Used(e)' = 1..(j + 1)
                /\ dlq'[e][j + 1].status = "pending"
      BY <1>5, <2>2
    <3>2. j + 1 = k
      BY <1>9, <3>1
    <3> QED BY <3>1, <3>2
  <2>3. CASE e \notin F
    BY <1>3, <1>4, <1>9, <2>1, <2>3 DEF DlqInv, TableOk
  <2> QED BY <2>2, <2>3
<1>10. TableOk'
  BY <1>7, <1>8, <1>9 DEF TableOk
<1> QED BY <1>6, <1>10

LEMMA ProcessGrows ==
    ASSUME DlqInv, Types, NEW f \in Domain, Process(f), UNCHANGED stored
    PROVE  /\ Grows /\ TableOk'
           /\ f \in Missed' => \A n \in Used(f) : Used(f)' # 1..n
<1>0. f \in Event
  BY DEF Event
<1>1. CASE f \in applied' \cup hurt' /\ UNCHANGED dlq
  <2>1. applied \subseteq applied' /\ hurt \subseteq hurt'
    BY DEF Process
  <2> QED BY <1>1, <2>1, TableStays DEF Missed
<1>2. CASE Room(f) /\ dlq' = [dlq EXCEPT ![f] = Filed(f)] /\ UNCHANGED <<applied, hurt>>
  <2>1. dlq' = [e \in Event |-> IF e \in {f} THEN Filed(e) ELSE dlq[e]]
    BY <1>0, <1>2 DEF Types
  <2>2. Grows /\ TableOk'
    BY <1>0, <1>2, <2>1, TableFiled
  <2>3. PICK k \in 0..MaxRows :
              /\ Used(f) = 1..k /\ k + 1 \in 1..MaxRows
              /\ Filed(f) = [dlq[f] EXCEPT ![k + 1] = Fresh]
    BY <1>0, <1>2, FiledIs
  <2>4. k + 1 \in Used(f)'
    <3>1. dlq'[f] = Filed(f) /\ dlq[f] \in [1..MaxRows -> RowType]
      BY <1>0, <1>2 DEF Types
    <3>2. dlq'[f][k + 1].status = "pending"
      <4>1. Filed(f)[k + 1] = Fresh
        BY <2>3, <3>1
      <4> QED BY <3>1, <4>1 DEF Fresh
    <3> QED BY <2>3, <3>2 DEF Used
  <2> QED BY <2>2, <2>3, <2>4
<1> QED BY <1>1, <1>2 DEF Process

-----------------------------------------------------------------------------
LEMMA DlqInit == Init => DlqInv
<1> SUFFICES ASSUME Init PROVE DlqInv
  OBVIOUS
<1>1. \A e \in Event : Used(e) = 1..0 /\ \A n \in 1..MaxRows : dlq[e][n].status = "none"
  BY DEF Init, Used, NoRow
<1>2. TableOk
  <2>1. 0 \in 0..MaxRows /\ Raw \subseteq Event /\ Missed \subseteq Event
    BY IndexerConstants DEF Event, Missed
  <2>2. \A e \in Event : \E k \in 0..MaxRows : Used(e) = 1..k
    BY <1>1, <2>1
  <2> QED BY <1>1, <2>1, <2>2 DEF TableOk
<1>3. CopiesOk
  BY DEF Init, CopiesOk, NowOk, Resting, Asked
<1> QED BY <1>2, <1>3 DEF DlqInv

LEMMA DlqCron ==
    ASSUME DlqInv, Types, NEW i \in Indexer, Run(i) \/ FetchFails(i) \/ IndexerDies(i)
    PROVE  DlqInv'
<1>1. CASE UNCHANGED <<dlq, stored, applied, hurt, retry, hand>>
  BY <1>1, TableStays, InvKept
<1>2. CASE Persist(i)
  <2>1. PICK thrown \in SUBSET (job[i].events \ stored) :
              /\ \A e \in thrown : Room(e)
              /\ stored' = stored \cup (job[i].events \ thrown)
              /\ dlq' = [e \in Event |-> IF e \in thrown THEN Filed(e) ELSE dlq[e]]
    BY <1>2 DEF Persist
  <2>2. thrown \subseteq Event
    BY <2>1 DEF Types, Jobs, Event
  <2>3. UNCHANGED <<applied, hurt, retry, hand>>
    BY <1>2 DEF Persist
  <2>4. Grows /\ TableOk'
    BY <2>1, <2>2, <2>3, TableFiled
  <2> QED BY <2>3, <2>4, InvKept
<1> QED BY <1>1, <1>2 DEF Run, LoadCursor, Fetch, PersistDoomed, FetchFails, IndexerDies, tables

LEMMA DlqRetry ==
    ASSUME DlqInv, Types, NEW r \in Retrier, Work(r) \/ RetrierDies(r)
    PROVE  DlqInv'
<1>0. /\ retry \in [Retrier -> [todo : SUBSET Copies, now : Copies]]
      /\ retry[r] \in [todo : SUBSET Copies, now : Copies]
      /\ NowOk(retry[r].now) /\ \A c \in retry[r].todo : TodoOk(c) /\ Existing(c)
      /\ retry[r].now = NoCopy \/ Existing(retry[r].now)
  BY DEF DlqInv, CopiesOk, Types
<1>h. hand' = hand
  BY DEF Work, ReadDue, AgedOut, RetryRaw, RetryDomain, SaveRetried, RetrierDies
<1>1. CASE ReadDue(r)
  <2>1. UNCHANGED <<dlq, stored, applied, hurt>>
    BY <1>1 DEF ReadDue, tables
  <2>2. PICK x : /\ retry' = [retry EXCEPT ![r] = x]
                 /\ x.todo = DueRows /\ x.now = NoCopy
    <3> DEFINE y == [retry[r] EXCEPT !.todo = DueRows]
    <3>1. retry' = [retry EXCEPT ![r] = y]
      BY <1>1 DEF ReadDue
    <3>2. y.todo = DueRows /\ y.now = NoCopy
      BY <1>0, <1>1 DEF ReadDue, Resting
    <3> HIDE DEF y
    <3> QED BY <3>1, <3>2
  <2>3. \A c \in x.todo : TodoOk(c)'
    <3>1. \A c \in DueRows : c.event \in Event /\ c.n \in Used(c.event) /\ c.row.status \in Open
      <4>1. ASSUME NEW e \in Event, NEW n \in 1..MaxRows, dlq[e][n].status \in Open
            PROVE  LET c == [event |-> e, n |-> n, row |-> dlq[e][n]]
                   IN  c.event \in Event /\ c.n \in Used(c.event) /\ c.row.status \in Open
        BY <4>1 DEF Used, Open
      <4>2. ASSUME NEW p \in Event \X (1..MaxRows)
            PROVE  p[1] \in Event /\ p[2] \in 1..MaxRows
        OBVIOUS
      <4> QED BY <4>1, <4>2 DEF DueRows, DueAs
    <3> QED BY <2>1, <2>2, <3>1 DEF TodoOk, Used
  <2>4. NowOk(x.now)'
    BY <2>2 DEF NowOk
  <2>5. Grows /\ TableOk'
    BY <2>1, TableStays
  <2> QED BY <1>0, <2>2, <2>3, <2>4, <2>5, <1>h, InvMoved
<1>2. ASSUME NEW c \in retry[r].todo, AgedOut(r, c)  PROVE DlqInv'
  <2> DEFINE row == [c.row EXCEPT !.status = "exhausted", !.due = FALSE]
  <2>1. row \in RowType /\ row.status = "exhausted"
    BY <1>0 DEF Copies, RowType
  <2>2. /\ dlq' = [dlq EXCEPT ![c.event][c.n] = row] /\ UNCHANGED <<stored, applied, hurt>>
        /\ retry[r].now = NoCopy
    BY <1>2 DEF AgedOut
  <2> HIDE DEF row
  <2>3. c.event \in Event /\ c.n \in Used(c.event)
    BY <1>0 DEF TodoOk
  <2>4. Grows /\ TableOk'
    BY <2>1, <2>2, <2>3, TableSaved
  <2>5. PICK x : /\ retry' = [retry EXCEPT ![r] = x]
                 /\ x.todo = retry[r].todo \ {c} /\ x.now = NoCopy
    <3> DEFINE y == [retry[r] EXCEPT !.todo = @ \ {c}]
    <3>1. retry' = [retry EXCEPT ![r] = y]
      BY <1>2 DEF AgedOut
    <3>2. y.todo = retry[r].todo \ {c} /\ y.now = NoCopy
      BY <1>0, <1>2 DEF AgedOut
    <3> HIDE DEF y
    <3> QED BY <3>1, <3>2
  <2>6. NowOk(x.now)'
    BY <2>5 DEF NowOk
  <2> QED BY <1>0, <2>4, <2>5, <2>6, <1>h, InvMoved
<1>3. ASSUME NEW c \in retry[r].todo, NEW row, Took(r, c, row),
             row.status # "resolved" \/
                /\ c.event \in Raw => c.event \in stored'
                /\ c.event \in Missed' => Used(c.event)' # 1..c.n,
             Grows, TableOk'
      PROVE  DlqInv'
  <2>1. PICK x : /\ retry' = [retry EXCEPT ![r] = x]
                 /\ x.todo = retry[r].todo \ {c} /\ x.now = [c EXCEPT !.row = row]
    <3> DEFINE y == [todo |-> retry[r].todo \ {c}, now |-> [c EXCEPT !.row = row]]
    <3>1. retry' = [retry EXCEPT ![r] = y]
      BY <1>0, <1>3 DEF Took
    <3>2. y.todo = retry[r].todo \ {c} /\ y.now = [c EXCEPT !.row = row]
      BY <1>0
    <3> HIDE DEF y
    <3> QED BY <3>1, <3>2
  <2>2. x.now.event = c.event /\ x.now.n = c.n /\ x.now.row = row
    BY <1>0, <2>1 DEF Copies
  <2>3. TodoOk(c)'
    BY <1>0, <1>3, CopiesKept
  <2>4. NowOk(x.now)'
    BY <1>3, <2>2, <2>3 DEF NowOk, TodoOk
  <2> QED BY <1>0, <1>3, <2>1, <2>4, <1>h, InvMoved
<1>4. ASSUME NEW c \in retry[r].todo, RetryRaw(r, c)  PROVE DlqInv'
  <2>1. UNCHANGED <<dlq, applied, hurt>> /\ stored \subseteq stored' /\ c.event \in Raw
    BY <1>4 DEF RetryRaw
  <2>2. Grows /\ TableOk'
    BY <2>1, TableStays
  <2>3. c.event \notin Missed'
    BY <2>1, IndexerConstants DEF Missed
  <2>4. CASE c.event \in stored' /\ Took(r, c, Resolved(c.row))
    BY <1>3, <2>2, <2>3, <2>4
  <2>5. CASE Took(r, c, Failed(c.row))
    <3>1. Failed(c.row).status # "resolved"
      BY <1>0 DEF Failed, Trying, Copies, RowType
    <3> QED BY <1>3, <2>2, <2>5, <3>1
  <2> QED BY <1>4, <2>4, <2>5 DEF RetryRaw
<1>5. ASSUME NEW c \in retry[r].todo, RetryDomain(r, c)  PROVE DlqInv'
  <2>1. /\ c.event \in Domain /\ Process(c.event) /\ UNCHANGED stored
        /\ Took(r, c, Resolved(c.row))
    BY <1>5 DEF RetryDomain
  <2>2. c.event \notin Raw /\ c.n \in Used(c.event)
    BY <1>0, <2>1, IndexerConstants DEF TodoOk
  <2>3. /\ Grows /\ TableOk'
        /\ c.event \in Missed' => Used(c.event)' # 1..c.n
    BY <2>1, <2>2, ProcessGrows
  <2> QED BY <1>3, <2>1, <2>2, <2>3
<1>6. CASE SaveRetried(r)
  <2>1. PICK c : c = retry[r].now
    OBVIOUS
  <2>2. /\ c # NoCopy /\ UNCHANGED <<stored, applied, hurt>>
        /\ dlq' = [dlq EXCEPT ![c.event][c.n] = c.row]
    BY <1>6, <2>1 DEF SaveRetried
  <2>3. NowOk(c) /\ c \in Copies /\ Existing(c)
    BY <1>0, <2>1, <2>2
  <2>4. c.event \in Event /\ c.n \in Used(c.event) /\ c.row \in RowType /\ c.row.status # "none"
    BY <2>2, <2>3 DEF NowOk, Copies, Existing
  <2>5. Missed' = Missed
    BY <2>2 DEF Missed
  <2>6. c.row.status = "resolved" =>
              /\ c.event \in Raw => c.event \in stored'
              /\ c.event \in Missed' => Used(c.event) # 1..c.n
    BY <2>2, <2>3, <2>5 DEF NowOk
  <2>7. Grows /\ TableOk'
    BY <2>2, <2>4, <2>6, TableSaved
  <2>8. PICK x : /\ retry' = [retry EXCEPT ![r] = x]
                 /\ x.todo = retry[r].todo /\ x.now = NoCopy
    <3> DEFINE y == [retry[r] EXCEPT !.now = NoCopy]
    <3>1. retry' = [retry EXCEPT ![r] = y]
      BY <1>6 DEF SaveRetried
    <3>2. y.todo = retry[r].todo /\ y.now = NoCopy
      BY <1>0
    <3> HIDE DEF y
    <3> QED BY <3>1, <3>2
  <2>9. NowOk(x.now)'
    BY <2>8 DEF NowOk
  <2> QED BY <1>0, <2>7, <2>8, <2>9, <1>h, InvMoved
<1>7. CASE RetrierDies(r)
  <2>1. PICK x : retry' = [retry EXCEPT ![r] = x] /\ x.todo = {} /\ x.now = NoCopy
    <3> DEFINE y == Resting
    <3>1. retry' = [retry EXCEPT ![r] = y]
      BY <1>7 DEF RetrierDies
    <3>2. y.todo = {} /\ y.now = NoCopy
      BY DEF Resting
    <3> HIDE DEF y
    <3> QED BY <3>1, <3>2
  <2>2. NowOk(x.now)'
    BY <2>1 DEF NowOk
  <2>3. Grows /\ TableOk'
    BY <1>7, TableStays DEF RetrierDies, tables
  <2> QED BY <1>0, <2>1, <2>2, <2>3, <1>h, InvMoved
<1> QED BY <1>1, <1>2, <1>4, <1>5, <1>6, <1>7 DEF Work

(* A row read as resolved is not the last of a missed event; one inserted  *)
(* by hand is stored, and no longer missed.                                *)
LEMMA DlqByHand ==
    ASSUME DlqInv, Types, NEW p \in Replay, ByHand(p)  PROVE DlqInv'
<1>0. /\ hand[p].copy \in Copies /\ hand[p].pc \in {"asked", "read", "save", "over"}
      /\ hand[p].pc \in {"read", "save"} => Existing(hand[p].copy) /\ NowOk(hand[p].copy)
      /\ hand[p] \in Hands
  BY DEF Types, HandsOk, Hands, DlqInv, CopiesOk
<1>1. ASSUME NEW e \in Event, NEW n \in 1..MaxRows, ReplayFinds(p, e, n)  PROVE DlqInv'
  <2>1. PICK c : c = [event |-> e, n |-> n, row |-> dlq[e][n]]
    OBVIOUS
  <2> DEFINE x == [pc |-> "read", copy |-> c]
  <2>2. /\ hand' = [hand EXCEPT ![p] = x] /\ n \in Used(e)
        /\ UNCHANGED <<retry, stored, applied, hurt, dlq>>
    BY <1>1, <2>1 DEF ReplayFinds, tables, Used
  <2>3. Grows /\ TableOk'
    BY <2>2, TableStays
  <2>4. NowOk(c)
    BY <2>1, <2>2 DEF NowOk, DlqInv, TableOk, Used
  <2>5. NowOk(c)'
    BY <2>3, <2>4, CopiesKept
  <2>6. x.copy = c
    OBVIOUS
  <2> HIDE DEF x
  <2> QED BY <2>2, <2>3, <2>5, <2>6, InvByHand
<1>2. CASE ReplayInserts(p)
  <2>1. PICK c : c = Settled(hand[p].copy)
    OBVIOUS
  <2> DEFINE x == [pc |-> "save", copy |-> c]
  <2>2. /\ hand[p].pc = "read" /\ hand' = [hand EXCEPT ![p] = x]
        /\ stored \subseteq stored' /\ hurt \subseteq hurt' /\ hand[p].copy.event \in stored'
        /\ hand[p].copy.event \in Domain => hand[p].copy.event \in hurt'
        /\ UNCHANGED <<retry, applied, dlq>>
    BY <1>2, <2>1 DEF ReplayInserts
  <2>3. Grows /\ TableOk'
    BY <2>2, TableStays
  <2>4. Existing(hand[p].copy) /\ NowOk(hand[p].copy) /\ hand[p].copy \in Copies
    BY <1>0, <2>2
  <2>5. /\ c.event = hand[p].copy.event /\ c.n = hand[p].copy.n
        /\ c.event \in Event /\ hand[p].copy # NoCopy
    BY <2>1, <2>4, SettledCopy DEF Existing, NoCopy, NoRow
  <2>6. c.n \in Used(c.event)'
    <3>1. c.n \in Used(c.event)
      BY <2>4, <2>5 DEF NowOk
    <3> QED BY <2>2, <3>1 DEF Used
  <2>7. c.event \in stored' /\ c.event \notin Missed'
    BY <2>2, <2>5 DEF Missed
  <2>8. NowOk(c)'
    BY <2>5, <2>6, <2>7 DEF NowOk
  <2>9. x.copy = c
    OBVIOUS
  <2> HIDE DEF x
  <2> QED BY <2>2, <2>3, <2>8, <2>9, InvByHand
<1>3. CASE ReplayInsertFails(p)
  <2>1. PICK c : c = hand[p].copy
    OBVIOUS
  <2> DEFINE x == [hand[p] EXCEPT !.pc = "save"]
  <2>2. /\ hand[p].pc = "read" /\ hand' = [hand EXCEPT ![p] = x]
        /\ UNCHANGED <<retry, stored, applied, hurt, dlq>>
    BY <1>3 DEF ReplayInsertFails, tables
  <2>3. Grows /\ TableOk'
    BY <2>2, TableStays
  <2>4. NowOk(c)
    BY <1>0, <2>1, <2>2
  <2>5. NowOk(c)'
    BY <2>3, <2>4, CopiesKept
  <2>6. x.copy = c
    BY <1>0, <2>1 DEF Hands
  <2> HIDE DEF x
  <2> QED BY <2>2, <2>3, <2>5, <2>6, InvByHand
<1>4. CASE ReplaySaves(p)
  <2>1. PICK c : c = hand[p].copy
    OBVIOUS
  <2>2. /\ hand[p].pc = "save" /\ dlq' = [dlq EXCEPT ![c.event][c.n] = c.row]
        /\ hand' = [hand EXCEPT ![p] = Over] /\ UNCHANGED <<retry, stored, applied, hurt>>
    BY <1>4, <2>1 DEF ReplaySaves
  <2>3. c \in Copies /\ Existing(c) /\ NowOk(c)
    BY <1>0, <2>1, <2>2
  <2>4. c # NoCopy
    BY <2>3 DEF Existing, NoCopy, NoRow
  <2>5. c.event \in Event /\ c.n \in Used(c.event) /\ c.row \in RowType /\ c.row.status # "none"
    BY <2>3, <2>4 DEF NowOk, Copies, Existing
  <2>6. Missed' = Missed
    BY <2>2 DEF Missed
  <2>7. c.row.status = "resolved" =>
              /\ c.event \in Raw => c.event \in stored'
              /\ c.event \in Missed' => Used(c.event) # 1..c.n
    BY <2>2, <2>3, <2>4, <2>6 DEF NowOk
  <2>8. Grows /\ TableOk'
    BY <2>2, <2>5, <2>7, TableSaved
  <2> QED BY <2>2, <2>8, InvByHand, OverIsHand
<1>5. CASE ReplayDies(p)
  <2>1. /\ hand' = [hand EXCEPT ![p] = Over]
        /\ UNCHANGED <<retry, stored, applied, hurt, dlq>>
    BY <1>5 DEF ReplayDies, tables
  <2>2. Grows /\ TableOk'
    BY <2>1, TableStays
  <2> QED BY <2>1, <2>2, InvByHand, OverIsHand
<1> QED BY <1>1, <1>2, <1>3, <1>4, <1>5 DEF ByHand

LEMMA DlqStep == ASSUME DlqInv, Types, [Next]_vars  PROVE DlqInv'
<1>1. CASE CloseLedger \/ UNCHANGED vars
  BY <1>1, TableStays, InvKept DEF CloseLedger, tables, vars
<1>2. ASSUME NEW i \in Indexer, Run(i) \/ FetchFails(i) \/ IndexerDies(i)  PROVE DlqInv'
  BY <1>2, DlqCron
<1>3. ASSUME NEW e \in Domain, Ingest(e)  PROVE DlqInv'
  BY <1>3, ProcessGrows, InvKept DEF Ingest
<1>4. ASSUME NEW r \in Retrier, Work(r) \/ RetrierDies(r)  PROVE DlqInv'
  BY <1>4, DlqRetry
<1>5. ASSUME NEW e \in Event, NEW n \in 1..MaxRows, FallDue(e, n)  PROVE DlqInv'
  <2> DEFINE row == [dlq[e][n] EXCEPT !.due = TRUE]
  <2>1. dlq[e][n] \in RowType /\ n \in Used(e)
    BY <1>5 DEF Types, Used, FallDue, Open
  <2>2. row \in RowType /\ row.status # "none" /\ row.status # "resolved"
    BY <2>1, <1>5 DEF RowType, FallDue, Open
  <2>3. /\ dlq' = [dlq EXCEPT ![e][n] = row]
        /\ UNCHANGED <<stored, applied, hurt, retry, hand>>
    BY <1>5 DEF FallDue
  <2> HIDE DEF row
  <2>4. Grows /\ TableOk'
    BY <2>1, <2>2, <2>3, TableSaved
  <2> QED BY <2>3, <2>4, InvKept
<1>6. ASSUME NEW p \in Replay, ByHand(p)  PROVE DlqInv'
  BY <1>6, DlqByHand
<1> QED BY <1>1, <1>2, <1>3, <1>4, <1>5, <1>6 DEF Next

(* Filed events are handled, still open or openly given up, for any number *)
(* of instances, retriers, events, rows, faults and replays, and whatever  *)
(* the database refuses: the copies that retriers save over the rows late  *)
(* and twice never lose the last open row of an event.                     *)
THEOREM DeadLettersKept == Spec => []NoEventForgotten
<1>1. Types /\ DlqInv => NoEventForgotten
  <2> SUFFICES ASSUME Types, DlqInv, NEW e \in Event \ hurt, Used(e) # {}, ~Handled(e)
               PROVE  HasRow(e, Open \cup {"exhausted"})
    BY DEF NoEventForgotten
  <2>1. \E n \in 1..MaxRows : dlq[e][n].status \notin {"none", "resolved"}
    <3>1. CASE e \in Raw
      BY <3>1 DEF Handled, DlqInv, TableOk, Used
    <3>2. CASE e \notin Raw
      <4>1. e \in Missed
        BY <3>2 DEF Handled, Missed, Event
      <4>2. PICK k \in 0..MaxRows : Used(e) = 1..k
        BY DEF DlqInv, TableOk
      <4>3. k \in Used(e) /\ k \in 1..MaxRows
        BY <4>2, IndexerConstants
      <4> QED BY <4>1, <4>2, <4>3 DEF DlqInv, TableOk, Used
    <3> QED BY <3>1, <3>2
  <2>2. \A n \in 1..MaxRows : dlq[e][n] \in RowType
    BY DEF Types
  <2> QED BY <2>1, <2>2 DEF HasRow, RowType, Open
<1>2. IdxInv => Types
  BY DEF IdxInv
<1>3. Types /\ DlqInv /\ [Next]_vars => DlqInv'
  BY DlqStep
<1> QED BY IdxAlways, DlqInit, <1>1, <1>2, <1>3, PTL DEF Spec
=============================================================================
