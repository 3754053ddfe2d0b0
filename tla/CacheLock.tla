------------------------------ MODULE CacheLock -----------------------------
(* The Redis lease that keeps the nightly analytics job to one instance:   *)
(* acquire, the work, release.  One key; a token is its instance, since an *)
(* instance has one run at a time and a fresh token for each.              *)
EXTENDS Naturals

CONSTANTS Instance, Nobody,
          MaxLockFaults  \* bound: Redis errors and crashes

LockConstants == Nobody \notin Instance /\ MaxLockFaults \in Nat

VARIABLES lease,      \* the token stored under the key
          running,    \* instances inside the guarded work
          leaving,    \* instances whose work is over, lease not yet released
          uncovered,  \* history: those let in by an error or outliving their lease
          lockFaults

lockVars == <<lease, running, leaving, uncovered, lockFaults>>

TypeOK == /\ lease \in Instance \cup {Nobody}
          /\ running \subseteq Instance /\ leaving \subseteq Instance \ running
          /\ uncovered \subseteq running /\ lockFaults \in 0..MaxLockFaults

Init == /\ lease = Nobody /\ running = {} /\ leaving = {} /\ uncovered = {}
        /\ lockFaults = 0

Idle(i) == i \notin running \cup leaving
Error   == lockFaults < MaxLockFaults /\ lockFaults' = lockFaults + 1

(* SET key token PX ttl NX.                                                *)
Acquire(i) ==
    /\ Idle(i) /\ lease = Nobody
    /\ lease' = i /\ running' = running \cup {i}
    /\ UNCHANGED <<leaving, uncovered, lockFaults>>

(* A Redis error lets the caller in; the key may have been set all the same.*)
FailOpen(i) ==
    /\ Idle(i) /\ Error
    /\ running' = running \cup {i} /\ uncovered' = uncovered \cup {i}
    /\ lease' \in {lease} \cup (IF lease = Nobody THEN {i} ELSE {})
    /\ UNCHANGED leaving

(* The work ends, well or badly: `finally'.                                *)
WorkEnds(i) ==
    /\ i \in running
    /\ running' = running \ {i} /\ leaving' = leaving \cup {i}
    /\ uncovered' = uncovered \ {i}
    /\ UNCHANGED <<lease, lockFaults>>

(* Mutant: the key is deleted whoever holds it.                            *)
WithoutAnybody(i) == Nobody

(* The script deletes the key only if it still holds this token.           *)
Without(i) == IF lease = i THEN Nobody ELSE lease

Release(i) ==
    /\ i \in leaving /\ leaving' = leaving \ {i}
    /\ \/ lease' = Without(i) /\ UNCHANGED lockFaults
       \/ Error /\ UNCHANGED lease
    /\ UNCHANGED <<running, uncovered>>

LeaseExpires ==
    /\ lease # Nobody /\ lease' = Nobody
    /\ uncovered' = uncovered \cup ({lease} \cap running)
    /\ UNCHANGED <<running, leaving, lockFaults>>

Crash(i) ==
    /\ ~Idle(i) /\ Error
    /\ running' = running \ {i} /\ leaving' = leaving \ {i} /\ uncovered' = uncovered \ {i}
    /\ UNCHANGED lease

Next == \/ LeaseExpires
        \/ \E i \in Instance : Acquire(i) \/ FailOpen(i) \/ WorkEnds(i)
                               \/ Release(i) \/ Crash(i)

Spec == Init /\ [][Next]_lockVars

(* Two instances do the same work at once only if one of them was let in   *)
(* by a Redis error or has outlived its lease: no release, however late,   *)
(* takes the lease away from another instance.                             *)
OverlapHasCause ==
    \A i, j \in running : i # j => {i, j} \cap uncovered # {}
=============================================================================
