------------------------------- MODULE Outbox -------------------------------
(* The transactional outbox: rows of outbox_events, one relay cron per     *)
(* application instance, and an operator who replays rows by hand.  A      *)
(* worker runs until its next await; between two awaits anybody may move.  *)
EXTENDS Naturals, Sequences, FiniteSets

CONSTANTS MaxEvents,    \* bound: rows ever written
          Relay,        \* application instances
          Operator,     \* callers of replayEvent
          MaxAttempts,  \* MAX_ATTEMPTS, 10 in the code
          BatchSize,    \* BATCH_SIZE, 50 in the code
          MaxFaults,    \* bound: crashes and refused saves
          MaxReplays    \* bound: replays

ASSUME OutboxConstants ==
    /\ MaxEvents \in Nat /\ MaxAttempts \in Nat \ {0} /\ BatchSize \in Nat \ {0}
    /\ MaxFaults \in Nat /\ MaxReplays \in Nat
    /\ Relay \cap Operator = {}

VARIABLES row,      \* the table; rows are numbered in the order of created_at
          work,     \* what each worker is doing and the copies it holds
          emitted,  \* how often an event reached the listeners (2: more than once)
          claimers, \* history: the relays that ever claimed an event
          faults, replays

vars == <<row, work, emitted, claimers, faults, replays>>

Event  == 1..MaxEvents
Worker == Relay \cup Operator
Stored == {"pending", "publishing", "published", "failed", "archived"}
(* `due': next_retry_at has passed; `stale': claimed_at is a minute old.    *)
Row    == [status : Stored \cup {"none"}, attempts : 0..(MaxAttempts + 1),
           due : BOOLEAN, stale : BOOLEAN]
Copy   == [id : Event, row : Row]
NoRow  == [status |-> "none", attempts |-> 0, due |-> FALSE, stale |-> FALSE]
Idle   == [pc |-> "idle", ids |-> {}, todo |-> <<>>]

TypeOK ==
    /\ row \in [Event -> Row]
    /\ work \in [Worker -> [pc : {"idle", "claiming", "fetching", "resetting",
                                  "emitting", "saving", "noting"},
                            ids : SUBSET Event, todo : Seq(Copy)]]
    /\ emitted \in [Event -> 0..2] /\ claimers \in [Event -> SUBSET Relay]
    /\ faults \in 0..MaxFaults /\ replays \in 0..MaxReplays

Init ==
    /\ row = [e \in Event |-> NoRow]
    /\ work = [w \in Worker |-> Idle]
    /\ emitted = [e \in Event |-> 0] /\ claimers = [e \in Event |-> {}]
    /\ faults = 0 /\ replays = 0

-----------------------------------------------------------------------------
(* createInTransaction: the row commits with the business change.          *)
CreateInTransaction(e) ==
    /\ row[e].status = "none" /\ \A f \in 1..(e - 1) : row[f].status # "none"
    /\ row' = [row EXCEPT ![e].status = "pending"]
    /\ UNCHANGED <<work, emitted, faults, replays, claimers>>

(* Mutant: rows of a dead relay are not taken up again.                    *)
StaleNotReclaimed(e) == row[e].status = "pending" /\ (row[e].attempts = 0 \/ row[e].due)

Claimable(e) ==
    \/ row[e].status = "pending" /\ (row[e].attempts = 0 \/ row[e].due)
    \/ row[e].status = "publishing" /\ row[e].stale

(* The oldest claimable rows, at most a batch.                             *)
Batch(e) == Claimable(e)
            /\ Cardinality({f \in 1..(e - 1) : Claimable(f)}) < BatchSize

InOrder(S) == CHOOSE s \in [1..Cardinality(S) -> S] :
                 \A i, j \in 1..Cardinality(S) : i < j => s[i] < s[j]

(* claimPendingEvents, first statement: the row locks end with it.          *)
SelectClaimable(r) ==
    /\ work[r].pc = "idle"
    /\ \E e \in Event : Claimable(e)
    /\ work' = [work EXCEPT ![r] = [Idle EXCEPT !.pc = "claiming",
                                                !.ids = {e \in Event : Batch(e)}]]
    /\ UNCHANGED <<row, emitted, faults, replays, claimers>>

(* Second statement: an update by id that does not look at the status.     *)
Claim(r) ==
    /\ work[r].pc = "claiming"
    /\ row' = [e \in Event |-> IF e \in work[r].ids
                               THEN [row[e] EXCEPT !.status = "publishing", !.stale = FALSE]
                               ELSE row[e]]
    /\ work' = [work EXCEPT ![r].pc = "fetching"]
    /\ claimers' = [e \in Event |-> IF e \in work[r].ids THEN claimers[e] \cup {r}
                                                        ELSE claimers[e]]
    /\ UNCHANGED <<emitted, faults, replays>>

(* Third statement: the rows are read back, whatever they are by now.      *)
Fetch(r) ==
    /\ work[r].pc = "fetching"
    /\ LET copy(e) == [id |-> e, row |-> row[e]]
           order   == InOrder(work[r].ids)
       IN work' = [work EXCEPT ![r] = [pc |-> "emitting", ids |-> {},
                                       todo |-> [i \in DOMAIN order |-> copy(order[i])]]]
    /\ UNCHANGED <<row, emitted, faults, replays, claimers>>

-----------------------------------------------------------------------------
(* replayEvent: refused for a published row, otherwise the copy is reset,  *)
(* saved and published like a relayed one.                                 *)
ReplayRead(w, e) ==
    /\ work[w].pc = "idle" /\ replays < MaxReplays
    /\ row[e].status \notin {"none", "published"}
    /\ work' = [work EXCEPT ![w] =
                  [pc |-> "resetting", ids |-> {},
                   todo |-> <<[id |-> e, row |-> [row[e] EXCEPT !.status = "pending",
                                                    !.attempts = 0, !.due = TRUE]]>>]]
    /\ replays' = replays + 1
    /\ UNCHANGED <<row, emitted, faults, claimers>>

Current(w) == Head(work[w].todo)

ReplayReset(w) ==
    /\ work[w].pc = "resetting"
    /\ \/ row' = [row EXCEPT ![Current(w).id] = Current(w).row]
          /\ work' = [work EXCEPT ![w].pc = "emitting"]
          /\ UNCHANGED faults
       \/ faults < MaxFaults /\ faults' = faults + 1
          /\ work' = [work EXCEPT ![w] = Idle] /\ UNCHANGED row
    /\ UNCHANGED <<emitted, replays, claimers>>

-----------------------------------------------------------------------------
Capped(n, cap) == IF n < cap THEN n + 1 ELSE cap

(* publishEvent up to its save: the copy becomes published.                *)
Emit(w) ==
    /\ work[w].pc = "emitting"
    /\ emitted' = [emitted EXCEPT ![Current(w).id] = Capped(@, 2)]
    /\ work' = [work EXCEPT ![w].pc = "saving",
                            ![w].todo[1].row.status = "published",
                            ![w].todo[1].row.attempts = Capped(@, MaxAttempts + 1)]
    /\ UNCHANGED <<row, faults, replays, claimers>>

(* The catch of publishEvent: one more attempt, failed at the limit, else   *)
(* a time to retry; the copy's status stays what it was.                   *)
Failure(copy) ==
    LET n == Capped(copy.attempts, MaxAttempts + 1) IN
    [copy EXCEPT !.attempts = n, !.due = FALSE,
                 !.status = IF n >= MaxAttempts THEN "failed" ELSE @]

EmitThrows(w) ==
    /\ work[w].pc = "emitting"
    /\ work' = [work EXCEPT ![w].pc = "noting", ![w].todo[1].row = Failure(@)]
    /\ UNCHANGED <<row, emitted, faults, replays, claimers>>

NextInBatch(w) ==
    IF Len(work[w].todo) = 1 THEN Idle
    ELSE [pc |-> "emitting", ids |-> {}, todo |-> Tail(work[w].todo)]

(* Mutant: the copy is updated and never saved.                            *)
SaveForgotten(w) ==
    /\ work[w].pc \in {"saving", "noting"}
    /\ work' = [work EXCEPT ![w] = NextInBatch(w)]
    /\ UNCHANGED <<row, emitted, faults, replays, claimers>>

(* repository.save writes every column of the copy over the row.           *)
Save(w) ==
    /\ work[w].pc \in {"saving", "noting"}
    /\ row' = [row EXCEPT ![Current(w).id] = Current(w).row]
    /\ work' = [work EXCEPT ![w] = NextInBatch(w)]
    /\ UNCHANGED <<emitted, faults, replays, claimers>>

(* The first refused save is caught and noted on the row; a second one     *)
(* escapes and ends the batch, its rows still marked publishing.           *)
SaveRefused(w) ==
    /\ faults < MaxFaults /\ faults' = faults + 1
    /\ \/ /\ work[w].pc = "saving"
          /\ work' = [work EXCEPT ![w].pc = "noting", ![w].todo[1].row = Failure(@)]
       \/ /\ work[w].pc = "noting"
          /\ work' = [work EXCEPT ![w] = Idle]
    /\ UNCHANGED <<row, emitted, replays, claimers>>

(* The instance dies and restarts: what it held in memory is gone.         *)
Crash(w) ==
    /\ faults < MaxFaults /\ faults' = faults + 1
    /\ work[w].pc # "idle"
    /\ work' = [work EXCEPT ![w] = Idle]
    /\ UNCHANGED <<row, emitted, replays, claimers>>

-----------------------------------------------------------------------------
(* A minute passes over a claim: CLAIM_STALE_MS.                           *)
ClaimGoesStale(e) ==
    /\ row[e].status = "publishing" /\ ~row[e].stale
    /\ row' = [row EXCEPT ![e].stale = TRUE]
    /\ work' = [w \in Worker |->
                  [work[w] EXCEPT !.todo = [i \in DOMAIN @ |->
                      IF @[i].id = e THEN [@[i] EXCEPT !.row.stale = TRUE] ELSE @[i]]]]
    /\ UNCHANGED <<emitted, faults, replays, claimers>>

RetryFallsDue(e) ==
    /\ row[e].status = "pending" /\ ~row[e].due /\ row[e].attempts > 0
    /\ row' = [row EXCEPT ![e].due = TRUE]
    /\ UNCHANGED <<work, emitted, faults, replays, claimers>>

Held(e) == \E w \in Worker : e \in work[w].ids \/ \E i \in DOMAIN work[w].todo :
                                                     work[w].todo[i].id = e

(* dailyArchive; nobody keeps a row in memory for thirty days.             *)
Archive(e) ==
    /\ row[e].status \in {"published", "failed"} /\ ~Held(e)
    /\ row' = [row EXCEPT ![e].status = "archived"]
    /\ UNCHANGED <<work, emitted, faults, replays, claimers>>

RelayStep(r) == SelectClaimable(r) \/ Claim(r) \/ Fetch(r)
PublishStep(w) == Emit(w) \/ EmitThrows(w) \/ Save(w)

Next ==
    \/ \E e \in Event : \/ CreateInTransaction(e) \/ ClaimGoesStale(e)
                        \/ RetryFallsDue(e) \/ Archive(e)
    \/ \E r \in Relay : RelayStep(r)
    \/ \E w \in Operator : ReplayReset(w) \/ \E e \in Event : ReplayRead(w, e)
    \/ \E w \in Worker : PublishStep(w) \/ SaveRefused(w) \/ Crash(w)

(* The cron fires every five seconds and a started relay runs on: weak     *)
(* fairness of each worker and of time.                                    *)
Fairness ==
    /\ \A r \in Relay : WF_vars(RelayStep(r))
    /\ \A w \in Worker : WF_vars(ReplayReset(w) \/ PublishStep(w))
    /\ \A e \in Event : WF_vars(ClaimGoesStale(e)) /\ WF_vars(RetryFallsDue(e))

Spec == Init /\ [][Next]_vars /\ Fairness
=============================================================================
