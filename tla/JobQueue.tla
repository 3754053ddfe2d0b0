------------------------------ MODULE JobQueue ------------------------------
(* The Redis job queue: a record per job and the sorted sets pending,      *)
(* active, delayed, completed, failed and dlq.  Producers enqueue, pollers *)
(* run processNext (twice a second, a slow one overlapping the next) and   *)
(* movers run moveDelayedJobs.  Every Redis call is a step of its own.     *)
EXTENDS Naturals, FiniteSets

CONSTANTS Job, Producer, Poller, Mover,
          MaxRetries,        \* maxRetries, 3 by default
          RemoveOnComplete,  \* removeOnComplete
          MaxFaults          \* bound: Redis errors and crashes

QueueConstants ==
    /\ MaxRetries \in Nat \ {0} /\ MaxFaults \in Nat /\ RemoveOnComplete \in BOOLEAN
    /\ Producer \cap Poller = {} /\ Producer \cap Mover = {} /\ Poller \cap Mover = {}

VARIABLES job,     \* the records job:<id>
          queue,   \* the sorted sets, by name
          due,     \* delayed jobs whose time has come
          op,      \* the call each process is in: where, which job, its copy
          faults,
          raced,   \* history: jobs that two movers or two producers had in hand
          shaken,  \* history: jobs in hand when a fault undid or cut off a call
          runs     \* history: handler runs of a job in progress

vars == <<job, queue, due, op, faults, raced, shaken, runs>>

Process == Producer \cup Poller \cup Mover
Status  == {"pending", "active", "completed", "failed", "delayed"}
Record  == [status : Status, attempts : 0..MaxRetries]
Absent  == [status |-> "absent", attempts |-> 0]
Names   == {"pending", "active", "delayed", "completed", "failed", "dlq"}
Steps   == {"idle", "setting", "adding",
            "loading", "activating", "listing", "running",
            "done_unlist", "done_read", "done_write", "done_add", "done_expire",
            "fail_unlist", "fail_read", "fail_write", "fail_add", "fail_dlq", "fail_expire",
            "moving", "move_write", "move_remove", "move_add"}
Idle    == [pc |-> "idle", now |-> {}, todo |-> {}, copy |-> Absent]

TypeOK ==
    /\ job \in [Job -> Record \cup {Absent}]
    /\ queue \in [Names -> SUBSET Job] /\ due \in SUBSET queue["delayed"]
    /\ op \in [Process -> [pc : Steps, now : SUBSET Job, todo : SUBSET Job,
                          copy : Record \cup {Absent}]]
    /\ faults \in 0..MaxFaults
    /\ raced \in SUBSET Job /\ shaken \in SUBSET Job
    /\ runs \in [Job -> 0..Cardinality(Poller)]

Init ==
    /\ job = [j \in Job |-> Absent]
    /\ queue = [n \in Names |-> {}] /\ due = {}
    /\ op = [p \in Process |-> Idle]
    /\ faults = 0 /\ raced = {} /\ shaken = {}
    /\ runs = [j \in Job |-> 0]

(* `now' holds the job a process works on, `todo' those a mover has listed. *)
At(p, pc, j)  == op[p].pc = pc /\ j \in op[p].now
Goto(p, pc)   == op' = [op EXCEPT ![p].pc = pc]
Keep(p, pc, c) == op' = [op EXCEPT ![p].pc = pc, ![p].copy = c]
Leave(p)      == op' = [op EXCEPT ![p] = Idle]
Add(n, j)     == queue' = [queue EXCEPT ![n] = @ \cup {j}]
Remove(n, j)  == queue' = [queue EXCEPT ![n] = @ \ {j}] /\ due' = IF n = "delayed" THEN due \ {j} ELSE due
Others(p, P)  == UNION {op[q].now \cup op[q].todo : q \in P \ {p}}
quiet         == <<faults, shaken>>

(* Bounds: a behaviour has faults or one race, not both.                   *)
MayFail == faults < MaxFaults /\ raced = {}
MayRace(S) == S = {} \/ (faults = 0 /\ raced = {})

-----------------------------------------------------------------------------
(* enqueue: EXISTS, SET, ZADD.  Bound: the id of a settled job is not used *)
(* again once its record has expired (ids are random by default).          *)
Enqueue(p, j, status) ==
    /\ op[p].pc = "idle" /\ job[j] = Absent /\ MayRace({j} \cap Others(p, Producer))
    /\ j \notin queue["completed"] \cup queue["failed"]
    /\ op' = [op EXCEPT ![p] = [Idle EXCEPT !.pc = "setting", !.now = {j},
                                !.copy = [status |-> status, attempts |-> 0]]]
    /\ raced' = raced \cup ({j} \cap Others(p, Producer))
    /\ UNCHANGED <<job, queue, due, runs, quiet>>

EnqueueSet(p, j) ==
    /\ At(p, "setting", j)
    /\ job' = [job EXCEPT ![j] = op[p].copy] /\ Goto(p, "adding")
    /\ UNCHANGED <<queue, due, raced, runs, quiet>>

EnqueueAdd(p, j) ==
    /\ At(p, "adding", j)
    /\ Add(op[p].copy.status, j) /\ Leave(p)
    /\ UNCHANGED <<job, due, raced, runs, quiet>>

-----------------------------------------------------------------------------
(* Mutant: ZRANGE in place of ZPOPMIN.                                     *)
PopPeeks(w, j) ==
    /\ op[w].pc = "idle" /\ j \in queue["pending"]
    /\ op' = [op EXCEPT ![w] = [Idle EXCEPT !.pc = "loading", !.now = {j}]]
    /\ UNCHANGED <<job, queue, due, raced, runs, quiet>>

(* processNext: ZPOPMIN, then the record.  A record that is gone ends it.  *)
Pop(w, j) ==
    /\ op[w].pc = "idle" /\ j \in queue["pending"]
    /\ Remove("pending", j)
    /\ op' = [op EXCEPT ![w] = [Idle EXCEPT !.pc = "loading", !.now = {j}]]
    /\ UNCHANGED <<job, raced, runs, quiet>>

Load(w, j) ==
    /\ At(w, "loading", j)
    /\ IF job[j] = Absent THEN Leave(w)
       ELSE Keep(w, "activating", [job[j] EXCEPT !.status = "active"])
    /\ UNCHANGED <<job, queue, due, raced, runs, quiet>>

Activate(w, j) ==
    /\ At(w, "activating", j)
    /\ job' = [job EXCEPT ![j] = op[w].copy] /\ Goto(w, "listing")
    /\ UNCHANGED <<queue, due, raced, runs, quiet>>

List(w, j) ==
    /\ At(w, "listing", j)
    /\ Add("active", j) /\ Goto(w, "running")
    /\ runs' = [runs EXCEPT ![j] = @ + 1]
    /\ UNCHANGED <<job, due, raced, quiet>>

HandlerEnds(w, j, outcome) ==
    /\ At(w, "running", j)
    /\ Goto(w, outcome)
    /\ runs' = [runs EXCEPT ![j] = @ - 1]
    /\ UNCHANGED <<job, queue, due, raced, quiet>>

(* markCompleted.                                                          *)
DoneUnlist(w, j) ==
    /\ At(w, "done_unlist", j)
    /\ Remove("active", j) /\ Goto(w, "done_read")
    /\ UNCHANGED <<job, raced, runs, quiet>>

DoneRead(w, j) ==
    /\ At(w, "done_read", j)
    /\ \/ RemoveOnComplete /\ job' = [job EXCEPT ![j] = Absent] /\ Leave(w)
       \/ ~RemoveOnComplete /\ job[j] = Absent /\ Leave(w) /\ UNCHANGED job
       \/ ~RemoveOnComplete /\ job[j] # Absent /\ UNCHANGED job
          /\ Keep(w, "done_write", [job[j] EXCEPT !.status = "completed"])
    /\ UNCHANGED <<queue, due, raced, runs, quiet>>

Write(w, j, at, next) ==
    /\ At(w, at, j)
    /\ job' = [job EXCEPT ![j] = op[w].copy] /\ Goto(w, next)
    /\ UNCHANGED <<queue, due, raced, runs, quiet>>

DoneAdd(w, j) ==
    /\ At(w, "done_add", j)
    /\ Add("completed", j) /\ Goto(w, "done_expire")
    /\ UNCHANGED <<job, due, raced, runs, quiet>>

(* EXPIRE, last in both markCompleted and markFailed: an error here comes  *)
(* after all the rest is done.                                             *)
SetExpiry(w, j, at) ==
    /\ At(w, at, j) /\ Leave(w)
    /\ UNCHANGED <<job, queue, due, raced, runs, quiet>>

(* markFailed: one attempt more, then delayed or, all spent, dead.  The     *)
(* count stops at the limit: only whether it is reached matters.           *)
FailUnlist(w, j) ==
    /\ At(w, "fail_unlist", j)
    /\ Remove("active", j) /\ Goto(w, "fail_read")
    /\ UNCHANGED <<job, raced, runs, quiet>>

(* Mutant: the attempts are not counted.                                   *)
NeverCounts(c) ==
    [status |-> IF c.attempts + 1 < MaxRetries THEN "delayed" ELSE "failed",
     attempts |-> c.attempts]

Retried(c) ==
    [status |-> IF c.attempts + 1 < MaxRetries THEN "delayed" ELSE "failed",
     attempts |-> IF c.attempts < MaxRetries THEN c.attempts + 1 ELSE MaxRetries]

FailRead(w, j) ==
    /\ At(w, "fail_read", j)
    /\ IF job[j] = Absent THEN Leave(w) ELSE Keep(w, "fail_write", Retried(job[j]))
    /\ UNCHANGED <<job, queue, due, raced, runs, quiet>>

FailAdd(w, j) ==
    /\ At(w, "fail_add", j)
    /\ Add(op[w].copy.status, j)
    /\ due' = due \ {j}
    /\ IF op[w].copy.status = "failed" THEN Goto(w, "fail_dlq") ELSE Leave(w)
    /\ UNCHANGED <<job, raced, runs, quiet>>

FailDlq(w, j) ==
    /\ At(w, "fail_dlq", j)
    /\ Add("dlq", j) /\ Goto(w, "fail_expire")
    /\ UNCHANGED <<job, due, raced, runs, quiet>>

-----------------------------------------------------------------------------
(* moveDelayedJobs: the jobs due are listed once, then moved one by one.   *)
Scan(m) ==
    /\ op[m].pc = "idle" /\ due # {} /\ MayRace(due \cap Others(m, Mover))
    /\ op' = [op EXCEPT ![m] = [Idle EXCEPT !.pc = "moving", !.todo = due]]
    /\ raced' = raced \cup (due \cap Others(m, Mover))
    /\ UNCHANGED <<job, queue, due, runs, quiet>>

Rest(m, todo) == [Idle EXCEPT !.pc = IF todo = {} THEN "idle" ELSE "moving", !.todo = todo]

MoveRead(m, j) ==
    /\ op[m].pc = "moving" /\ j \in op[m].todo
    /\ IF job[j] = Absent
       THEN Remove("delayed", j) /\ op' = [op EXCEPT ![m] = Rest(m, @.todo \ {j})]
       ELSE /\ op' = [op EXCEPT ![m] = [pc |-> "move_write", now |-> {j}, todo |-> @.todo \ {j},
                                       copy |-> [job[j] EXCEPT !.status = "pending"]]]
            /\ UNCHANGED <<queue, due>>
    /\ UNCHANGED <<job, raced, runs, quiet>>

MoveRemove(m, j) ==
    /\ At(m, "move_remove", j)
    /\ Remove("delayed", j) /\ Goto(m, "move_add")
    /\ UNCHANGED <<job, raced, runs, quiet>>

(* Mutant: removed from delayed, never added to pending.                   *)
MoveLosesJob(m, j) ==
    /\ At(m, "move_add", j)
    /\ op' = [op EXCEPT ![m] = Rest(m, @.todo)]
    /\ UNCHANGED <<job, queue, due, raced, runs, quiet>>

MoveAdd(m, j) ==
    /\ At(m, "move_add", j)
    /\ Add("pending", j) /\ op' = [op EXCEPT ![m] = Rest(m, @.todo)]
    /\ UNCHANGED <<job, due, raced, runs, quiet>>

-----------------------------------------------------------------------------
FallDue(j) ==
    /\ j \in queue["delayed"] \ due /\ due' = due \cup {j}
    /\ UNCHANGED <<job, queue, op, raced, runs, quiet>>

InHand(j) == \E p \in Process : j \in op[p].now

(* The record of a settled job expires; nobody has it in hand that long.   *)
(* One whose EXPIRE a cut-off skipped would stay: here it may go as well.  *)
Expire(j) ==
    /\ j \in queue["completed"] \cup queue["failed"] /\ job[j] # Absent /\ ~InHand(j)
    /\ job[j].status \in {"completed", "failed"}
    /\ job' = [job EXCEPT ![j] = Absent]
    /\ UNCHANGED <<queue, due, op, raced, runs, quiet>>

Running(p) == op[p].pc = "running"
Unrun(p) == [j \in Job |-> IF Running(p) /\ j \in op[p].now THEN runs[j] - 1 ELSE runs[j]]

(* A Redis error inside the try of processNext is taken for a failed job,  *)
(* even when the handler had done its work.                                *)
Before == {"loading", "activating", "listing"}
After  == {"done_unlist", "done_read", "done_write", "done_add", "done_expire"}

RedisError(w) ==
    /\ MayFail /\ faults' = faults + 1
    /\ op[w].pc \in Before \cup After
    /\ shaken' = IF op[w].pc \in After THEN shaken \cup op[w].now ELSE shaken
    /\ Goto(w, "fail_unlist")
    /\ UNCHANGED <<job, queue, due, raced, runs>>

(* A crash, or a Redis error nobody catches, cuts the operation off.       *)
CutOff(p) ==
    /\ MayFail /\ faults' = faults + 1
    /\ op[p].pc # "idle"
    /\ shaken' = shaken \cup op[p].now /\ runs' = Unrun(p)
    /\ Leave(p)
    /\ UNCHANGED <<job, queue, due, raced>>

Produce(p) == \E j \in Job : \/ \E s \in {"pending", "delayed"} : Enqueue(p, j, s)
                             \/ EnqueueSet(p, j) \/ EnqueueAdd(p, j)
Finish(p)  == \E j \in Job : EnqueueSet(p, j) \/ EnqueueAdd(p, j)
Poll(w)    == \E j \in Job :
    \/ Pop(w, j) \/ Load(w, j) \/ Activate(w, j) \/ List(w, j)
    \/ \E outcome \in {"done_unlist", "fail_unlist"} : HandlerEnds(w, j, outcome)
    \/ DoneUnlist(w, j) \/ DoneRead(w, j) \/ Write(w, j, "done_write", "done_add")
    \/ DoneAdd(w, j) \/ SetExpiry(w, j, "done_expire")
    \/ FailUnlist(w, j) \/ FailRead(w, j) \/ Write(w, j, "fail_write", "fail_add")
    \/ FailAdd(w, j) \/ FailDlq(w, j) \/ SetExpiry(w, j, "fail_expire")
MoveNext(m) == Scan(m) \/ \E j \in Job : \/ MoveRead(m, j) \/ MoveRemove(m, j)
                                         \/ Write(m, j, "move_write", "move_remove")
                                         \/ MoveAdd(m, j)

Next == \/ \E p \in Producer : Produce(p)
        \/ \E w \in Poller : Poll(w) \/ RedisError(w)
        \/ \E m \in Mover : MoveNext(m)
        \/ \E p \in Process : CutOff(p)
        \/ \E j \in Job : FallDue(j) \/ Expire(j)

(* The intervals keep firing, a call that started goes on, time passes.    *)
Fairness == /\ \A p \in Producer : WF_vars(Finish(p))
            /\ \A w \in Poller : WF_vars(Poll(w))
            /\ \A m \in Mover : WF_vars(MoveNext(m))
            /\ \A j \in Job : WF_vars(FallDue(j))

Spec == Init /\ [][Next]_vars /\ Fairness
=============================================================================
