--------------------------- MODULE JobQueueProps ---------------------------
(* What the job queue must get right.                                      *)
EXTENDS JobQueue

Waiting(j) == j \in queue["pending"] \cup queue["delayed"]
Settled(j) == j \in queue["completed"] \cup queue["dlq"]

(* Every job whose record says it is to be run can still be run: it is     *)
(* queued or in somebody's hands.  Only an operation cut off loses one.    *)
OnlyCutOffsLoseJobs ==
    \A j \in Job : job[j].status \in {"pending", "delayed", "active"} =>
        Waiting(j) \/ InHand(j) \/ j \in shaken

(* One job is run by one poller at a time, unless two movers (or two       *)
(* producers of one id) raced for it, or a fault left it half moved.       *)
RunsDoNotOverlap == \A j \in Job \ (raced \cup shaken) : runs[j] <= 1

(* Every job accepted is in the end completed or dead-lettered, unless a   *)
(* cut-off lost it or a race keeps sending it round.                       *)
JobsSettle == \A j \in Job :
    job[j] # Absent ~> job[j] = Absent \/ Settled(j) \/ j \in shaken \cup raced
=============================================================================
