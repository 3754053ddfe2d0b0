---------------------------- MODULE OutboxProofs ----------------------------
(***************************************************************************)
(* The outbox, for any number of rows, instances, operators and attempts:  *)
(* every duplicate delivery has a cause, and no step of any relay breaks   *)
(* the promise made of an event when it was recorded.                      *)
(***************************************************************************)
EXTENDS OutboxProps, FiniteSetTheorems, WellFoundedInduction, NaturalsInduction,
        SequenceTheorems, TLAPS

-----------------------------------------------------------------------------
(* Sets of numbers have a smallest member, and finite ones are enumerated  *)
(* in order.                                                               *)
LEMMA SmallestMember ==
    ASSUME NEW S \in SUBSET Nat, S # {}
    PROVE  \E n \in S : \A m \in S : n <= m
<1>1. PICK R : IsWellFoundedOn(R, Nat) /\ \A m, n \in Nat : m < n => <<m, n>> \in R
  <2>1. IsWellFoundedOn({mn \in Nat \X Nat : mn[1] < mn[2]}, Nat)
    BY NatLessThanWellFounded DEF OpToRel
  <2> QED BY <2>1
<1>2. S \subseteq Nat /\ IsWellFoundedOn(R, Nat)
  BY <1>1
<1>3. PICK n \in S : \A m \in S : ~ (<<m, n>> \in R)
  BY <1>2, WFMin
<1>4. \A m \in S : n <= m
  <2> SUFFICES ASSUME NEW m \in S PROVE ~ (m < n)
    BY <1>2
  <2> QED BY <1>1, <1>2, <1>3
<1> QED BY <1>4

(* Of the subsets of a finite set that lack a property, one is such that   *)
(* every set with one element less has it.                                 *)
LEMMA SmallestSet ==
    ASSUME NEW S, IsFiniteSet(S), NEW Bad \in SUBSET (SUBSET S), Bad # {}
    PROVE  \E T \in Bad : \A x \in T : T \ {x} \notin Bad
<1>1. IsWellFoundedOn(StrictSubsetOrdering(S), FiniteSubsetsOf(S)) /\ FiniteSubsetsOf(S) = SUBSET S
  BY FS_StrictSubsetOrderingWellFounded, FS_FiniteSubsetsOfFinite
<1>2. PICK T \in Bad : \A U \in Bad : ~ (<<U, T>> \in StrictSubsetOrdering(S))
  BY <1>1, WFMin
<1>3. ASSUME NEW x \in T PROVE T \ {x} \notin Bad
  <2>1. <<T \ {x}, T>> \in StrictSubsetOrdering(S)
    BY DEF StrictSubsetOrdering
  <2> QED BY <1>2, <2>1
<1> QED BY <1>3

Enumerates(s, S) == /\ s \in [1..Cardinality(S) -> S]
                    /\ \A i, j \in 1..Cardinality(S) : i < j => s[i] < s[j]

LEMMA Enumeration ==
    ASSUME NEW S \in SUBSET Nat, IsFiniteSet(S)
    PROVE  \E s : Enumerates(s, S)
<1> DEFINE Bad == {T \in SUBSET S : ~ \E s : Enumerates(s, T)}
<1> SUFFICES ASSUME Bad # {} PROVE FALSE
  OBVIOUS
<1>1. PICK T \in Bad : \A x \in T : T \ {x} \notin Bad
  <2> HIDE DEF Bad
  <2>1. Bad \in SUBSET (SUBSET S)
    BY DEF Bad
  <2> QED BY <2>1, SmallestSet
<1>2. T \in SUBSET Nat /\ IsFiniteSet(T) /\ Cardinality(T) \in Nat
  BY <1>1, FS_Subset, FS_CardinalityType
<1>3. T # {}
  <2>1. Cardinality({}) = 0
    BY FS_EmptySet
  <2>2. Enumerates([i \in 1..0 |-> 0], {})
    BY <2>1 DEF Enumerates
  <2> QED BY <1>1, <2>2
<1>4. PICK m \in T : \A n \in T : m <= n
  BY <1>2, <1>3, SmallestMember
<1>5. PICK s : Enumerates(s, T \ {m})
  BY <1>1, <1>4
<1>6. Cardinality(T \ {m}) = Cardinality(T) - 1 /\ Cardinality(T) \in Nat \ {0}
  <2>1. Cardinality(T \ {m}) = Cardinality(T) - 1 /\ Cardinality(T \ {m}) \in Nat
    BY <1>2, <1>4, FS_RemoveElement, FS_CardinalityType
  <2> QED BY <1>2, <2>1
<1> DEFINE k == Cardinality(T)
           t == [i \in 1..k |-> IF i = 1 THEN m ELSE s[i - 1]]
<1>7. \A i \in 2..k : i - 1 \in 1..Cardinality(T \ {m}) /\ s[i - 1] \in T \ {m}
  <2>1. \A i \in 2..k : i - 1 \in 1..Cardinality(T \ {m})
    BY <1>6
  <2>2. s \in [1..Cardinality(T \ {m}) -> T \ {m}]
    BY <1>5 DEF Enumerates
  <2> HIDE DEF k
  <2> QED BY <2>1, <2>2
<1>8. t \in [1..k -> T]
  BY <1>4, <1>6, <1>7
<1>9. ASSUME NEW i \in 1..k, NEW j \in 1..k, i < j PROVE t[i] < t[j]
  <2>1. j \in 2..k /\ t[j] = s[j - 1]
    BY <1>6, <1>9
  <2>2. CASE i = 1
    <3>1. t[i] = m /\ t[j] \in T /\ t[j] # m
      BY <2>1, <2>2, <1>7
    <3>2. m \in Nat /\ t[j] \in Nat /\ m <= t[j]
      BY <3>1, <1>2, <1>4
    <3> HIDE DEF t
    <3> QED BY <3>1, <3>2
  <2>3. CASE i # 1
    <3>1. i \in 2..k /\ t[i] = s[i - 1] /\ i - 1 < j - 1
      BY <2>3, <1>6, <1>9
    <3> QED BY <2>1, <3>1, <1>5, <1>7 DEF Enumerates
  <2> QED BY <2>2, <2>3
<1>10. Enumerates(t, T)
  BY <1>8, <1>9 DEF Enumerates
<1> QED BY <1>1, <1>10

LEMMA InOrderEnumerates ==
    ASSUME NEW S \in SUBSET Event, OutboxConstants
    PROVE  /\ Cardinality(S) \in Nat /\ (S # {} => Cardinality(S) > 0)
           /\ InOrder(S) \in [1..Cardinality(S) -> S]
           /\ \A i, j \in 1..Cardinality(S) : i # j => InOrder(S)[i] # InOrder(S)[j]
<1>1. IsFiniteSet(Event) /\ S \in SUBSET Nat
  BY FS_Interval DEF Event, OutboxConstants
<1>2. IsFiniteSet(S) /\ Cardinality(S) \in Nat
  BY <1>1, FS_Subset, FS_CardinalityType
<1>3. S # {} => Cardinality(S) > 0
  BY <1>2, FS_EmptySet
<1>4. \E s \in [1..Cardinality(S) -> S] : \A i, j \in 1..Cardinality(S) : i < j => s[i] < s[j]
  BY <1>1, <1>2, Enumeration DEF Enumerates
<1>5. /\ InOrder(S) \in [1..Cardinality(S) -> S]
      /\ \A i, j \in 1..Cardinality(S) : i < j => InOrder(S)[i] < InOrder(S)[j]
  BY <1>4 DEF InOrder
<1>6. ASSUME NEW i \in 1..Cardinality(S), NEW j \in 1..Cardinality(S), i # j
      PROVE  InOrder(S)[i] # InOrder(S)[j]
  <2>1. InOrder(S)[i] \in Nat /\ InOrder(S)[j] \in Nat
    BY <1>1, <1>5
  <2>2. i < j \/ j < i
    BY <1>2, <1>6
  <2> QED BY <2>1, <2>2, <1>5
<1> QED BY <1>2, <1>3, <1>5, <1>6

-----------------------------------------------------------------------------
(* What each worker holds, by where it is.                                 *)
Places == {"idle", "claiming", "fetching", "resetting", "emitting", "saving", "noting"}
Job    == [pc : Places, ids : SUBSET Event, todo : Seq(Copy)]

Holds(w, o) ==
    /\ o.pc \in {"claiming", "fetching"} <=> o.ids # {}
    /\ o.pc \in {"resetting", "emitting", "saving", "noting"} <=> o.todo # <<>>
    /\ w \in Relay => o.pc # "resetting"
    /\ w \in Operator => o.pc \notin {"claiming", "fetching"}
    /\ \A i, j \in 1..Len(o.todo) : i # j => o.todo[i].id # o.todo[j].id

Data == /\ row \in [Event -> Row] /\ emitted \in [Event -> 0..2]
        /\ claimers \in [Event -> SUBSET Relay]
        /\ faults \in Nat /\ replays \in Nat

Workers == /\ Data /\ work \in [Worker -> Job]
           /\ \A w \in Worker : Holds(w, work[w])

Has(w, e)   == \E i \in 1..Len(work[w].todo) : work[w].todo[i].id = e
Written(e)  == row[e].status # "none"

(* Whatever a worker holds, and whatever was emitted, was written once.    *)
AllWritten ==
    /\ \A w \in Worker : \A e \in work[w].ids : Written(e)
    /\ \A w \in Worker : \A i \in 1..Len(work[w].todo) :
          Written(work[w].todo[i].id) /\ work[w].todo[i].row.status # "none"
    /\ \A e \in Event : emitted[e] > 0 => Written(e)

(* A relay holds only what it has claimed, an operator only what it        *)
(* replays.                                                                *)
AllClaimed ==
    /\ \A e \in Event : IsFiniteSet(claimers[e])
    /\ \A r \in Relay : work[r].pc = "fetching" => \A e \in work[r].ids : r \in claimers[e]
    /\ \A r \in Relay, e \in Event : Has(r, e) => r \in claimers[e]
    /\ \A w \in Operator : work[w].pc # "idle" => replays > 0

(* An event with one claimer, once emitted, is about to be saved as        *)
(* published or is saved, in nobody's hands, and not to be claimed again   *)
(* by the same relay.                                                      *)
Undisturbed(e) == faults = 0 /\ replays = 0 /\ \A q, r \in claimers[e] : q = r

Settling(e) == \E r \in Relay : /\ work[r].pc = "saving" /\ work[r].todo[1].id = e
                                /\ work[r].todo[1].row.status = "published"
Settled(e)  == row[e].status \in {"published", "archived"} /\ \A w \in Worker : ~Has(w, e)

Once(e) == Undisturbed(e) /\ emitted[e] > 0 =>
    /\ emitted[e] = 1 /\ claimers[e] # {}
    /\ \A r \in claimers[e] : e \notin work[r].ids
    /\ Settling(e) \/ Settled(e)

OutboxInv == Workers /\ AllWritten /\ AllClaimed /\ \A e \in Event : Once(e)

LEMMA OutboxInit == ASSUME OutboxConstants, Init PROVE OutboxInv
<1>1. /\ \A w \in Worker : work[w] = Idle
      /\ Idle.pc = "idle" /\ Idle.ids = {} /\ Idle.todo = <<>> /\ Len(Idle.todo) = 0
  BY DEF Init, Idle
<1>2. Idle \in Job
  BY DEF Idle, Job, Places
<1>3. Data
  BY DEF Init, Data, NoRow, Row
<1>4. Workers
  BY <1>1, <1>2, <1>3 DEF Init, Workers, Holds
<1>5. AllWritten
  BY <1>1 DEF Init, AllWritten
<1>6. IsFiniteSet({})
  BY FS_EmptySet
<1>7. AllClaimed
  BY <1>1, <1>6 DEF Init, AllClaimed, Has, Worker
<1>8. \A e \in Event : Once(e)
  BY DEF Init, Once
<1> QED BY <1>4, <1>5, <1>7, <1>8 DEF OutboxInv

(* One worker moves.                                                       *)
LEMMA OneMoves ==
    ASSUME Workers, NEW w \in Worker, NEW o \in Job, work' = [work EXCEPT ![w] = o],
           Holds(w, o), Data'
    PROVE  Workers' /\ work'[w] = o /\ \A q \in Worker \ {w} : work'[q] = work[q]
<1>1. work' \in [Worker -> Job] /\ work'[w] = o /\ \A q \in Worker \ {w} : work'[q] = work[q]
  BY DEF Workers
<1>2. \A q \in Worker : Holds(q, work'[q])
  BY <1>1 DEF Workers
<1> QED BY <1>1, <1>2 DEF Workers, Holds

(* The copy in hand, what replaces it, and what follows it.                *)
LEMMA HeadInHand ==
    ASSUME Workers, NEW w \in Worker, work[w].pc \in {"resetting", "emitting", "saving", "noting"}
    PROVE  /\ work[w] \in Job /\ Holds(w, work[w]) /\ work[w].ids = {}
           /\ work[w].todo \in Seq(Copy) /\ work[w].todo # <<>>
           /\ Len(work[w].todo) \in Nat \ {0}
           /\ Current(w) = work[w].todo[1] /\ Current(w) \in Copy
           /\ Current(w).id \in Event /\ Current(w).row \in Row /\ Has(w, Current(w).id)
<1>1. work[w] \in Job /\ Holds(w, work[w])
  BY DEF Workers
<1>2. work[w].todo \in Seq(Copy) /\ work[w].todo # <<>> /\ work[w].ids = {}
  BY <1>1 DEF Job, Holds
<1>3. Len(work[w].todo) \in Nat \ {0} /\ Current(w) = work[w].todo[1] /\ work[w].todo[1] \in Copy
  BY <1>2 DEF Current
<1>4. Has(w, Current(w).id)
  BY <1>3 DEF Has
<1> QED BY <1>1, <1>2, <1>3, <1>4 DEF Copy

LEMMA Replaced ==
    ASSUME NEW s \in Seq(Copy), s # <<>>, NEW c \in Copy, c.id = s[1].id
    PROVE  /\ [s EXCEPT ![1] = c] \in Seq(Copy) /\ [s EXCEPT ![1] = c] # <<>>
           /\ Len([s EXCEPT ![1] = c]) = Len(s)
           /\ [s EXCEPT ![1] = c][1] = c
           /\ \A i \in 1..Len(s) : [s EXCEPT ![1] = c][i].id = s[i].id
           /\ \A i \in 2..Len(s) : [s EXCEPT ![1] = c][i] = s[i]
<1>1. Len(s) \in Nat \ {0} /\ \A i \in 1..Len(s) : s[i] \in Copy
  OBVIOUS
<1>2. [s EXCEPT ![1] = c] \in Seq(Copy) /\ Len([s EXCEPT ![1] = c]) = Len(s)
  BY <1>1
<1> QED BY <1>1, <1>2

(* A worker that goes on with the same copies, the first of them changed.  *)
HeadBecomes(w, c, o) ==
    /\ work[w].pc \in {"resetting", "emitting", "saving", "noting"}
    /\ o.pc \in {"emitting", "saving", "noting"}
    /\ o \in Job /\ o.ids = work[w].ids /\ o.todo = [work[w].todo EXCEPT ![1] = c]
    /\ c \in Copy /\ c.id = Current(w).id
    /\ work' = [work EXCEPT ![w] = o]

LEMMA SameBatch ==
    ASSUME Workers, NEW w \in Worker, NEW c, NEW o, HeadBecomes(w, c, o), Data'
    PROVE  /\ Workers' /\ work'[w] = o /\ \A q \in Worker \ {w} : work'[q] = work[q]
           /\ \A e \in Event : Has(w, e)' <=> Has(w, e)
           /\ o.ids = {} /\ o.todo[1] = c
           /\ \A i \in 1..Len(o.todo) : i = 1 \/ o.todo[i] = work[w].todo[i]
           /\ Len(o.todo) = Len(work[w].todo)
<1>1. /\ Holds(w, work[w]) /\ work[w].ids = {}
      /\ work[w].todo \in Seq(Copy) /\ work[w].todo # <<>> /\ Current(w) = work[w].todo[1]
      /\ Len(work[w].todo) \in Nat \ {0}
  BY HeadInHand DEF HeadBecomes
<1>2. /\ c \in Copy /\ c.id = Current(w).id /\ o.todo = [work[w].todo EXCEPT ![1] = c]
      /\ o.ids = work[w].ids /\ o.pc \in {"emitting", "saving", "noting"}
      /\ o \in Job /\ work' = [work EXCEPT ![w] = o]
      /\ work[w].pc \in {"resetting", "emitting", "saving", "noting"}
  BY DEF HeadBecomes
<1>3. /\ o.todo # <<>> /\ Len(o.todo) = Len(work[w].todo) /\ o.todo[1] = c
      /\ \A i \in 1..Len(o.todo) : o.todo[i].id = work[w].todo[i].id
      /\ \A i \in 2..Len(o.todo) : o.todo[i] = work[w].todo[i]
  BY <1>1, <1>2, Replaced
<1>4. Holds(w, o)
  BY <1>1, <1>2, <1>3 DEF Holds
<1>5. Workers' /\ work'[w] = o /\ \A q \in Worker \ {w} : work'[q] = work[q]
  BY <1>4, <1>2, OneMoves
<1>6. \A e \in Event : Has(w, e)' <=> Has(w, e)
  BY <1>3, <1>5 DEF Has
<1> QED BY <1>1, <1>2, <1>3, <1>5, <1>6

LEMMA TheTail ==
    ASSUME NEW s \in Seq(Copy), Len(s) # 1, s # <<>>
    PROVE  /\ Tail(s) \in Seq(Copy) /\ Len(Tail(s)) = Len(s) - 1 /\ Tail(s) # <<>>
           /\ \A i \in 1..Len(Tail(s)) : i + 1 \in 2..Len(s) /\ Tail(s)[i] = s[i + 1]
<1>1. Len(s) \in Nat \ {0, 1}
  <2>1. Len(s) \in Nat /\ Len(s) # 0
    BY EmptySeq
  <2> QED BY <2>1
<1>2. /\ Tail(s) \in Seq(Copy) /\ Len(Tail(s)) = Len(s) - 1
      /\ \A i \in 1..Len(Tail(s)) : Tail(s)[i] = s[i + 1]
  BY HeadTailProperties
<1>3. Tail(s) # <<>>
  <2>1. Len(Tail(s)) # 0
    BY <1>1, <1>2
  <2> QED BY <2>1, <1>2, EmptySeq
<1> QED BY <1>1, <1>2, <1>3

LEMMA Following ==
    ASSUME Workers, NEW w \in Worker, work[w].pc \in {"saving", "noting"}
    PROVE  /\ NextInBatch(w) \in Job /\ Holds(w, NextInBatch(w)) /\ NextInBatch(w).ids = {}
           /\ NextInBatch(w).pc \in {"idle", "emitting"}
           /\ \A i \in 1..Len(NextInBatch(w).todo) :
                /\ i + 1 \in 2..Len(work[w].todo)
                /\ NextInBatch(w).todo[i] = work[w].todo[i + 1]
<1>1. /\ Holds(w, work[w]) /\ work[w].todo \in Seq(Copy) /\ work[w].todo # <<>>
      /\ Len(work[w].todo) \in Nat \ {0}
  BY HeadInHand
<1>2. CASE Len(work[w].todo) = 1
  <2>1. NextInBatch(w) = Idle /\ Idle.pc = "idle" /\ Idle.ids = {} /\ Idle.todo = <<>>
        /\ Len(Idle.todo) = 0
    BY <1>2 DEF NextInBatch, Idle
  <2>2. Idle \in Job
    BY DEF Idle, Job, Places
  <2> QED BY <2>1, <2>2 DEF Holds
<1>3. CASE Len(work[w].todo) # 1
  <2> DEFINE t == Tail(work[w].todo)
  <2>1. NextInBatch(w) = [pc |-> "emitting", ids |-> {}, todo |-> t]
    BY <1>3 DEF NextInBatch
  <2>2. /\ t \in Seq(Copy) /\ Len(t) = Len(work[w].todo) - 1 /\ t # <<>>
        /\ \A i \in 1..Len(t) : i + 1 \in 2..Len(work[w].todo) /\ t[i] = work[w].todo[i + 1]
    BY <1>1, <1>3, TheTail
  <2> HIDE DEF t
  <2>3. NextInBatch(w) \in Job /\ NextInBatch(w).pc = "emitting" /\ NextInBatch(w).ids = {}
        /\ NextInBatch(w).todo = t
    BY <2>1, <2>2 DEF Job, Places
  <2>4. ASSUME NEW i \in 1..Len(t), NEW j \in 1..Len(t), i # j PROVE t[i].id # t[j].id
    <3>1. i + 1 \in 1..Len(work[w].todo) /\ j + 1 \in 1..Len(work[w].todo) /\ i + 1 # j + 1
      BY <2>2, <2>4
    <3> QED BY <3>1, <2>2, <1>1 DEF Holds
  <2>5. Holds(w, NextInBatch(w))
    BY <2>2, <2>3, <2>4 DEF Holds
  <2> QED BY <2>2, <2>3, <2>5
<1> QED BY <1>2, <1>3

(* Who holds an emitted event that nothing disturbed is about to save it.  *)
LEMMA HolderSettles ==
    ASSUME OutboxInv, NEW e \in Event, Undisturbed(e), emitted[e] > 0,
           NEW w \in Worker, Has(w, e)
    PROVE  /\ w \in claimers[e] /\ work[w].pc = "saving" /\ Current(w).id = e
           /\ Current(w).row.status = "published"
<1>1. /\ Workers /\ AllClaimed /\ Once(e) /\ ~Settled(e)
  BY DEF OutboxInv, Settled
<1>2. PICK r \in Relay : /\ work[r].pc = "saving" /\ work[r].todo[1].id = e
                         /\ work[r].todo[1].row.status = "published"
  BY <1>1 DEF Once, Settling
<1>3. r \in Worker
  BY DEF Worker
<1>4. Current(r) = work[r].todo[1] /\ Has(r, e)
  BY <1>1, <1>2, <1>3, HeadInHand
<1>5. r \in claimers[e]
  BY <1>1, <1>4 DEF AllClaimed
<1>6. work[w].pc # "idle"
  <2>1. work[w].todo # <<>>
    BY DEF Has
  <2> QED BY <2>1, <1>1 DEF Workers, Holds
<1>7. w \in Relay
  BY <1>1, <1>6 DEF AllClaimed, Undisturbed, Worker
<1>8. w \in claimers[e] /\ w = r
  BY <1>1, <1>5, <1>7 DEF AllClaimed, Undisturbed
<1> QED BY <1>2, <1>4, <1>8

(* A worker whose move does not concern an event leaves it settled.        *)
LEMMA Elsewhere ==
    ASSUME OutboxInv, NEW e \in Event, NEW w \in Worker, ~Has(w, e), ~Has(w, e)',
           \A q \in Worker \ {w} : work'[q] = work[q],
           row'[e].status = row[e].status, emitted'[e] = emitted[e],
           claimers'[e] = claimers[e], faults' = faults, replays' = replays,
           e \in work'[w].ids => \/ e \in work[w].ids
                                 \/ row[e].status \notin {"published", "archived"}
    PROVE  Once(e)'
<1> SUFFICES ASSUME Undisturbed(e)', emitted'[e] > 0
             PROVE  /\ emitted'[e] = 1 /\ claimers'[e] # {}
                    /\ \A r \in claimers'[e] : e \notin work'[r].ids
                    /\ Settling(e)' \/ Settled(e)'
  BY DEF Once
<1>1. Workers /\ AllClaimed /\ Undisturbed(e) /\ emitted[e] > 0
  BY DEF OutboxInv, Undisturbed
<1>2. /\ emitted[e] = 1 /\ claimers[e] # {}
      /\ Settling(e) \/ Settled(e)
      /\ \A r \in claimers[e] : e \notin work[r].ids
  BY <1>1 DEF OutboxInv, Once
<1>3. claimers[e] \subseteq Worker
  BY <1>1 DEF Workers, Data, Worker
<1>4. CASE Settling(e)
  <2>1. PICK r \in Relay : /\ work[r].pc = "saving" /\ work[r].todo[1].id = e
                           /\ work[r].todo[1].row.status = "published"
    BY <1>4 DEF Settling
  <2>2. r \in Worker
    BY DEF Worker
  <2>3. Current(r) = work[r].todo[1] /\ Has(r, e)
    BY <1>1, <2>1, <2>2, HeadInHand
  <2>4. r # w /\ r \in claimers[e]
    BY <1>1, <2>3 DEF AllClaimed
  <2>5. w \notin claimers[e]
    BY <2>4, <1>1 DEF Undisturbed
  <2>6. Settling(e)'
    BY <2>1, <2>2, <2>4 DEF Settling
  <2> QED BY <1>2, <1>3, <2>5, <2>6
<1>5. CASE Settled(e)
  <2>1. Settled(e)'
    BY <1>5 DEF Settled, Has
  <2>2. \A r \in claimers[e] : e \notin work'[r].ids
    BY <1>2, <1>3, <1>5 DEF Settled
  <2> QED BY <1>2, <2>1, <2>2
<1> QED BY <1>2, <1>4, <1>5

(* What a moving worker may come to hold.                                  *)
MayHold(w, o) ==
    /\ \A e \in o.ids : row'[e].status # "none"
    /\ \A i \in 1..Len(o.todo) : /\ row'[o.todo[i].id].status # "none"
                                 /\ o.todo[i].row.status # "none"
                                 /\ w \in Relay => w \in claimers'[o.todo[i].id]
    /\ w \in Relay /\ o.pc = "fetching" => \A e \in o.ids : w \in claimers'[e]
    /\ w \in Operator /\ o.pc # "idle" => replays' > 0

Onward == /\ \A e \in Event : /\ Written(e) => row'[e].status # "none"
                              /\ emitted'[e] > 0 => row'[e].status # "none"
                              /\ claimers[e] \subseteq claimers'[e]
                              /\ IsFiniteSet(claimers'[e])
          /\ replays > 0 => replays' > 0

LEMMA WorkerMoves ==
    ASSUME OutboxInv, NEW w \in Worker, NEW o \in Job, work' = [work EXCEPT ![w] = o],
           Holds(w, o), Data', MayHold(w, o), Onward
    PROVE  Workers' /\ AllWritten' /\ AllClaimed'
<1>1. Workers /\ AllWritten /\ AllClaimed
  BY DEF OutboxInv
<1>2. Workers' /\ work'[w] = o /\ \A q \in Worker \ {w} : work'[q] = work[q]
  BY <1>1, OneMoves
<1>3. \A q \in Worker : /\ work[q] \in Job /\ work[q].ids \in SUBSET Event
                        /\ work[q].todo \in Seq(Copy)
                        /\ \A i \in 1..Len(work[q].todo) : work[q].todo[i] \in Copy
                                                        /\ work[q].todo[i].id \in Event
  <2> TAKE q \in Worker
  <2>1. work[q] \in Job /\ work[q].ids \in SUBSET Event /\ work[q].todo \in Seq(Copy)
    BY <1>1 DEF Workers, Job
  <2>2. \A i \in 1..Len(work[q].todo) : work[q].todo[i] \in Copy
    BY <2>1
  <2>3. \A i \in 1..Len(work[q].todo) : work[q].todo[i].id \in Event
    BY <2>2 DEF Copy
  <2> QED BY <2>1, <2>2, <2>3
<1>4. AllWritten'
  <2>1. ASSUME NEW q \in Worker PROVE \A e \in work'[q].ids : row'[e].status # "none"
    BY <1>1, <1>2, <1>3 DEF AllWritten, MayHold, Onward, Written
  <2>2. ASSUME NEW q \in Worker
        PROVE \A i \in 1..Len(work'[q].todo) :
                 row'[work'[q].todo[i].id].status # "none" /\ work'[q].todo[i].row.status # "none"
    BY <1>1, <1>2, <1>3 DEF AllWritten, MayHold, Onward, Written
  <2>3. \A e \in Event : emitted'[e] > 0 => row'[e].status # "none"
    BY DEF Onward
  <2> QED BY <2>1, <2>2, <2>3 DEF AllWritten, Written
<1>5. AllClaimed'
  <2>1. Relay \subseteq Worker /\ Operator \subseteq Worker
    BY DEF Worker
  <2>2. ASSUME NEW r \in Relay, work'[r].pc = "fetching", NEW e \in work'[r].ids
        PROVE r \in claimers'[e]
    BY <1>1, <1>2, <1>3, <2>1, <2>2 DEF AllClaimed, MayHold, Onward
  <2>3. ASSUME NEW r \in Relay, NEW e \in Event, Has(r, e)' PROVE r \in claimers'[e]
    <3>1. PICK i \in 1..Len(work'[r].todo) : work'[r].todo[i].id = e
      BY <2>3 DEF Has
    <3>2. CASE r = w
      BY <3>1, <3>2, <1>2 DEF MayHold
    <3>3. CASE r # w
      <4>1. Has(r, e)
        BY <3>1, <3>3, <1>2, <2>1 DEF Has
      <4> QED BY <4>1, <1>1 DEF AllClaimed, Onward
    <3> QED BY <3>2, <3>3
  <2>4. \A q \in Operator : work'[q].pc # "idle" => replays' > 0
    BY <1>1, <1>2, <2>1 DEF AllClaimed, MayHold, Onward
  <2>5. \A e \in Event : IsFiniteSet(claimers'[e])
    BY DEF Onward
  <2> QED BY <2>2, <2>3, <2>4, <2>5 DEF AllClaimed
<1> QED BY <1>2, <1>4, <1>5

(* One row changes and nobody moves.                                       *)
LEMMA RowMoves ==
    ASSUME OutboxInv, NEW f \in Event, NEW u \in Row, u.status # "none",
           row' = [row EXCEPT ![f] = u],
           UNCHANGED <<work, emitted, claimers, faults, replays>>,
           u.status = row[f].status \/ row[f].status = "none"
             \/ (~Held(f) /\ u.status = "archived")
    PROVE  OutboxInv'
<1>1. /\ Workers /\ AllWritten /\ AllClaimed /\ Data
      /\ \A e \in Event : Once(e)
  BY DEF OutboxInv, Workers
<1>2. /\ row' \in [Event -> Row] /\ row'[f] = u
      /\ \A e \in Event \ {f} : row'[e] = row[e]
  BY <1>1 DEF Data
<1>3. Workers'
  BY <1>1, <1>2 DEF Workers, Data, Holds
<1>4. \A e \in Event : Written(e) => Written(e)'
  BY <1>2 DEF Written
<1>5. AllWritten'
  <2>1. \A w \in Worker : /\ work[w].ids \in SUBSET Event
                          /\ \A i \in 1..Len(work[w].todo) : work[w].todo[i].id \in Event
    <3> TAKE w \in Worker
    <3>1. work[w].ids \in SUBSET Event /\ work[w].todo \in Seq(Copy)
      BY <1>1 DEF Workers, Job
    <3>2. \A i \in 1..Len(work[w].todo) : work[w].todo[i] \in Copy
      BY <3>1
    <3> QED BY <3>1, <3>2 DEF Copy
  <2> QED BY <1>1, <1>4, <2>1 DEF AllWritten
<1>6. AllClaimed'
  BY <1>1 DEF AllClaimed, Has
<1>7. ASSUME NEW e \in Event PROVE Once(e)'
  <2>1. Once(e)
    BY <1>1
  <2>2. (Undisturbed(e)' <=> Undisturbed(e)) /\ (Settling(e)' <=> Settling(e))
    BY DEF Undisturbed, Settling
  <2>3. CASE row'[e].status = row[e].status
    <3>1. Settled(e)' <=> Settled(e)
      BY <2>3 DEF Settled, Has
    <3> QED BY <2>1, <2>2, <3>1 DEF Once
  <2>4. CASE row[e].status = "none"
    <3>1. emitted[e] = 0 \/ ~(emitted[e] > 0)
      BY <2>4, <1>1 DEF AllWritten, Written
    <3> QED BY <3>1, <2>4, <1>1 DEF Once, Data
  <2>5. CASE ~Held(e) /\ row'[e].status = "archived"
    <3>1. \A w \in Worker : work[w].todo \in Seq(Copy)
      BY <1>1 DEF Workers, Job
    <3>2. \A w \in Worker : ~Has(w, e)
      <4> TAKE w \in Worker
      <4>1. work[w].todo \in Seq(Copy)
        BY <3>1
      <4>2. DOMAIN work[w].todo = 1..Len(work[w].todo)
        BY <4>1
      <4> QED BY <2>5, <4>2 DEF Held, Has
    <3>3. Settled(e)'
      BY <3>2, <2>5 DEF Settled, Has
    <3> QED BY <2>1, <2>2, <3>3 DEF Once
  <2> QED BY <1>2, <2>3, <2>4, <2>5
<1> QED BY <1>3, <1>5, <1>6, <1>7 DEF OutboxInv

LEMMA CreateStep ==
    ASSUME OutboxInv, NEW e \in Event, CreateInTransaction(e) PROVE OutboxInv'
<1> DEFINE u == [row[e] EXCEPT !.status = "pending"]
<1>1. row[e] \in Row /\ row[e].status = "none"
  BY DEF OutboxInv, Workers, Data, CreateInTransaction
<1>2. u \in Row /\ u.status = "pending"
  BY <1>1 DEF Row, Stored
<1>3. row' = [row EXCEPT ![e] = u] /\ UNCHANGED <<work, emitted, claimers, faults, replays>>
  BY DEF CreateInTransaction
<1> HIDE DEF u
<1> QED BY <1>1, <1>2, <1>3, RowMoves

LEMMA DueStep ==
    ASSUME OutboxInv, NEW e \in Event, RetryFallsDue(e) PROVE OutboxInv'
<1> DEFINE u == [row[e] EXCEPT !.due = TRUE]
<1>1. row[e] \in Row /\ row[e].status = "pending"
  BY DEF OutboxInv, Workers, Data, RetryFallsDue
<1>2. u \in Row /\ u.status = "pending"
  BY <1>1 DEF Row, Stored
<1>3. row' = [row EXCEPT ![e] = u] /\ UNCHANGED <<work, emitted, claimers, faults, replays>>
  BY DEF RetryFallsDue
<1> HIDE DEF u
<1> QED BY <1>1, <1>2, <1>3, RowMoves

LEMMA ArchiveStep ==
    ASSUME OutboxInv, NEW e \in Event, Archive(e) PROVE OutboxInv'
<1> DEFINE u == [row[e] EXCEPT !.status = "archived"]
<1>1. row[e] \in Row /\ ~Held(e)
  BY DEF OutboxInv, Workers, Data, Archive
<1>2. u \in Row /\ u.status = "archived"
  BY <1>1 DEF Row, Stored
<1>3. row' = [row EXCEPT ![e] = u] /\ UNCHANGED <<work, emitted, claimers, faults, replays>>
  BY DEF Archive
<1> HIDE DEF u
<1> QED BY <1>1, <1>2, <1>3, RowMoves

(* A minute passes over a claim: only the marks of staleness change.       *)
LEMMA StaleStep ==
    ASSUME OutboxInv, NEW f \in Event, ClaimGoesStale(f) PROVE OutboxInv'
<1>1. /\ Workers /\ AllWritten /\ AllClaimed /\ Data /\ work \in [Worker -> Job]
      /\ \A e \in Event : Once(e)
  BY DEF OutboxInv, Workers
<1>2. UNCHANGED <<emitted, claimers, faults, replays>>
  BY DEF ClaimGoesStale
<1>3. row' \in [Event -> Row] /\ \A e \in Event : row'[e].status = row[e].status
  <2>1. row[f] \in Row /\ row' = [row EXCEPT ![f].stale = TRUE] /\ row \in [Event -> Row]
    BY <1>1 DEF Data, ClaimGoesStale
  <2>2. [row[f] EXCEPT !.stale = TRUE] \in Row
        /\ [row[f] EXCEPT !.stale = TRUE].status = row[f].status
    BY <2>1 DEF Row, Stored
  <2> QED BY <2>1, <2>2
<1>4. ASSUME NEW w \in Worker
      PROVE  /\ work'[w] \in Job /\ work'[w].pc = work[w].pc /\ work'[w].ids = work[w].ids
             /\ Len(work'[w].todo) = Len(work[w].todo)
             /\ (work'[w].todo = <<>> <=> work[w].todo = <<>>)
             /\ \A i \in 1..Len(work[w].todo) :
                  /\ work'[w].todo[i].id = work[w].todo[i].id
                  /\ work'[w].todo[i].row.status = work[w].todo[i].row.status
  <2> DEFINE s == work[w].todo
             t == [i \in DOMAIN s |-> IF s[i].id = f THEN [s[i] EXCEPT !.row.stale = TRUE]
                                                     ELSE s[i]]
  <2>1. work'[w] = [work[w] EXCEPT !.todo = t]
    BY DEF ClaimGoesStale
  <2>2. work[w] \in Job /\ s \in Seq(Copy) /\ DOMAIN s = 1..Len(s) /\ Len(s) \in Nat
    BY <1>1 DEF Job
  <2>3. ASSUME NEW i \in 1..Len(s)
        PROVE  t[i] \in Copy /\ t[i].id = s[i].id /\ t[i].row.status = s[i].row.status
    <3>1. s[i] \in Copy
      BY <2>2
    <3>2. s[i].row \in Row
      BY <3>1 DEF Copy
    <3>3. [s[i].row EXCEPT !.stale = TRUE] \in Row
          /\ [s[i].row EXCEPT !.stale = TRUE].status = s[i].row.status
      BY <3>2 DEF Row
    <3>4. [s[i] EXCEPT !.row = [s[i].row EXCEPT !.stale = TRUE]] \in Copy
      BY <3>1, <3>3 DEF Copy
    <3>5. t[i] = s[i] \/ t[i] = [s[i] EXCEPT !.row = [s[i].row EXCEPT !.stale = TRUE]]
      BY <2>2
    <3> QED BY <3>1, <3>3, <3>4, <3>5 DEF Copy
  <2>4. t \in Seq(Copy) /\ Len(t) = Len(s)
    <3>1. DOMAIN t = 1..Len(s)
      BY <2>2
    <3>2. t = [i \in 1..Len(s) |-> t[i]]
      BY <3>1
    <3> HIDE DEF t
    <3>3. t \in [1..Len(s) -> Copy]
      BY <2>3, <3>2
    <3> QED BY <3>3, <2>2
  <2> HIDE DEF t
  <2>5. work'[w] \in Job /\ work'[w].todo = t /\ work'[w].pc = work[w].pc
        /\ work'[w].ids = work[w].ids
    BY <2>1, <2>2, <2>4 DEF Job
  <2>6. t = <<>> <=> s = <<>>
    BY <2>2, <2>4, EmptySeq
  <2> QED BY <2>3, <2>4, <2>5, <2>6
<1>5. work' \in [Worker -> Job]
  BY <1>4 DEF ClaimGoesStale
<1>6. \A w \in Worker, e \in Event : Has(w, e)' <=> Has(w, e)
  BY <1>4 DEF Has
<1>7. Workers'
  <2>1. ASSUME NEW w \in Worker PROVE Holds(w, work'[w])
    BY <1>1, <1>4 DEF Workers, Holds
  <2> QED BY <1>1, <1>2, <1>3, <1>5, <2>1 DEF Workers, Data, Holds
<1>8. AllWritten'
  <2>1. ASSUME NEW w \in Worker
        PROVE  /\ work[w].ids \in SUBSET Event
               /\ \A i \in 1..Len(work[w].todo) : work[w].todo[i].id \in Event
    <3>1. work[w].ids \in SUBSET Event /\ work[w].todo \in Seq(Copy)
      BY <1>1 DEF Job
    <3>2. \A i \in 1..Len(work[w].todo) : work[w].todo[i] \in Copy
      BY <3>1
    <3> QED BY <3>1, <3>2 DEF Copy
  <2>2. \A e \in Event : Written(e) <=> Written(e)'
    BY <1>3 DEF Written
  <2>3. ASSUME NEW w \in Worker PROVE \A e \in work'[w].ids : Written(e)'
    BY <1>1, <1>4, <2>1, <2>2 DEF AllWritten
  <2>4. ASSUME NEW w \in Worker, NEW i \in 1..Len(work'[w].todo)
        PROVE  row'[work'[w].todo[i].id].status # "none" /\ work'[w].todo[i].row.status # "none"
    <3>1. i \in 1..Len(work[w].todo)
      BY <1>4
    <3>2. Written(work[w].todo[i].id) /\ work[w].todo[i].row.status # "none"
      BY <3>1, <1>1 DEF AllWritten
    <3> QED BY <3>1, <3>2, <2>1, <1>3, <1>4 DEF Written
  <2> QED BY <1>1, <1>2, <2>2, <2>3, <2>4 DEF AllWritten, Written
<1>9. AllClaimed'
  <2>1. Relay \subseteq Worker /\ Operator \subseteq Worker
    BY DEF Worker
  <2> QED BY <1>1, <1>2, <1>4, <1>6, <2>1 DEF AllClaimed
<1>10. ASSUME NEW e \in Event PROVE Once(e)'
  <2>1. Relay \subseteq Worker /\ claimers[e] \subseteq Worker
    BY <1>1 DEF Worker, Data
  <2>2. Settled(e) => Settled(e)'
    BY <1>3, <1>6 DEF Settled
  <2>3. Settling(e) => Settling(e)'
    <3> SUFFICES ASSUME Settling(e) PROVE Settling(e)'
      OBVIOUS
    <3>1. PICK r \in Relay : /\ work[r].pc = "saving" /\ work[r].todo[1].id = e
                             /\ work[r].todo[1].row.status = "published"
      BY DEF Settling
    <3>2. Len(work[r].todo) \in Nat \ {0}
      BY <1>1, <2>1, <3>1, HeadInHand
    <3>3. 1 \in 1..Len(work[r].todo)
      BY <3>2
    <3> QED BY <3>1, <3>3, <1>4, <2>1 DEF Settling
  <2> QED BY <1>1, <1>2, <1>4, <2>1, <2>2, <2>3 DEF Once, Undisturbed
<1> QED BY <1>7, <1>8, <1>9, <1>10 DEF OutboxInv

LEMMA SelectStep ==
    ASSUME OutboxInv, NEW r \in Relay, SelectClaimable(r) PROVE OutboxInv'
<1> DEFINE B == {e \in Event : Batch(e)}
           o == [Idle EXCEPT !.pc = "claiming", !.ids = B]
<1>1. /\ Workers /\ AllWritten /\ AllClaimed /\ Data /\ r \in Worker /\ work[r] \in Job
      /\ Holds(r, work[r]) /\ work[r].pc = "idle" /\ work[r].todo = <<>>
  BY DEF OutboxInv, Workers, Holds, SelectClaimable, Worker
<1>2. work' = [work EXCEPT ![r] = o] /\ UNCHANGED <<row, emitted, faults, replays, claimers>>
  BY DEF SelectClaimable
<1>3. B # {}
  <2>1. PICK e \in Event : Claimable(e) /\ \A f \in Event : Claimable(f) => e <= f
    <3> DEFINE S == {e \in Event : Claimable(e)}
    <3>1. S # {} /\ S \in SUBSET Nat
      BY DEF SelectClaimable, Event
    <3>2. \E m \in S : \A n \in S : m <= n
      BY <3>1, SmallestMember
    <3> QED BY <3>2
  <2>2. {f \in 1..(e - 1) : Claimable(f)} = {}
    <3>1. \A f \in 1..(e - 1) : f \in Event /\ ~(e <= f)
      BY OutboxConstants DEF Event
    <3> QED BY <2>1, <3>1
  <2>3. Batch(e)
    BY <2>1, <2>2, FS_EmptySet, OutboxConstants DEF Batch
  <2> QED BY <2>3
<1>4. \A e \in B : Claimable(e) /\ row[e].status \in {"pending", "publishing"}
  BY DEF Batch, Claimable
<1>5. r \notin Operator
  BY OutboxConstants
<1>6. B \in SUBSET Event
  OBVIOUS
<1> HIDE DEF B
<1>7. /\ o \in Job /\ o.pc = "claiming" /\ o.ids = B /\ o.todo = <<>> /\ Len(o.todo) = 0
  <2>1. Idle \in Job /\ Idle.todo = <<>> /\ Len(Idle.todo) = 0
    BY DEF Idle, Job, Places
  <2> QED BY <2>1, <1>6 DEF Job, Places
<1> HIDE DEF o
<1>8. Holds(r, o)
  BY <1>7, <1>3, <1>5 DEF Holds
<1>9. MayHold(r, o)
  BY <1>2, <1>7, <1>4, <1>5 DEF MayHold
<1>10. Onward
  BY <1>1, <1>2 DEF Onward, AllWritten, AllClaimed, Written
<1>11. Data'
  BY <1>1, <1>2 DEF Data
<1>12. Workers' /\ AllWritten' /\ AllClaimed'
  BY <1>1, <1>2, <1>7, <1>8, <1>9, <1>10, <1>11, WorkerMoves
<1>13. work'[r] = o /\ \A q \in Worker \ {r} : work'[q] = work[q]
  BY <1>1, <1>2 DEF Workers
<1>14. ASSUME NEW e \in Event PROVE Once(e)'
  <2>1. ~Has(r, e) /\ ~Has(r, e)'
    BY <1>1, <1>7, <1>13 DEF Has
  <2>2. e \in work'[r].ids => row[e].status \notin {"published", "archived"}
    BY <1>7, <1>4, <1>13
  <2> QED BY <1>1, <1>2, <1>13, <2>1, <2>2, Elsewhere
<1> QED BY <1>12, <1>14 DEF OutboxInv

LEMMA ClaimStep ==
    ASSUME OutboxInv, NEW r \in Relay, Claim(r) PROVE OutboxInv'
<1> DEFINE B == work[r].ids
           o == [work[r] EXCEPT !.pc = "fetching"]
<1>1. /\ Workers /\ AllWritten /\ AllClaimed /\ Data /\ r \in Worker /\ work[r] \in Job
      /\ Holds(r, work[r]) /\ work[r].pc = "claiming" /\ work[r].todo = <<>>
      /\ B # {} /\ B \in SUBSET Event /\ \A e \in Event : Once(e)
  BY DEF OutboxInv, Workers, Holds, Claim, Worker, Job
<1>2. work' = [work EXCEPT ![r] = o] /\ UNCHANGED <<emitted, faults, replays>>
  BY DEF Claim
<1>3. /\ o \in Job /\ o.pc = "fetching" /\ o.ids = B /\ o.todo = <<>> /\ Len(o.todo) = 0
  BY <1>1 DEF Job, Places
<1>4. /\ claimers' \in [Event -> SUBSET Relay]
      /\ \A e \in Event : claimers'[e] = IF e \in B THEN claimers[e] \cup {r} ELSE claimers[e]
  BY <1>1 DEF Claim, Data
<1>5. /\ row' \in [Event -> Row] /\ \A e \in Event \ B : row'[e] = row[e]
      /\ \A e \in B : row'[e].status = "publishing"
  <2>1. ASSUME NEW e \in Event
        PROVE  /\ [row[e] EXCEPT !.status = "publishing", !.stale = FALSE] \in Row
               /\ [row[e] EXCEPT !.status = "publishing", !.stale = FALSE].status = "publishing"
    BY <1>1 DEF Data, Row, Stored
  <2>2. \A e \in Event : row'[e] = IF e \in B
                            THEN [row[e] EXCEPT !.status = "publishing", !.stale = FALSE]
                            ELSE row[e]
    BY DEF Claim
  <2>3. \A e \in Event : row'[e] \in Row
    BY <2>1, <2>2, <1>1 DEF Data
  <2>4. row' \in [Event -> Row]
    <3>1. row' = [e \in Event |-> row'[e]]
      BY DEF Claim
    <3> QED BY <2>3, <3>1
  <2> QED BY <1>1, <2>1, <2>2, <2>4
<1>6. r \notin Operator
  BY OutboxConstants
<1>7. \A e \in B : Written(e)
  BY <1>1 DEF AllWritten
<1> HIDE DEF B, o
<1>8. Holds(r, o)
  BY <1>1, <1>3, <1>6 DEF Holds
<1>9. MayHold(r, o)
  BY <1>1, <1>3, <1>4, <1>5, <1>6 DEF MayHold
<1>10. Onward
  <2>1. ASSUME NEW e \in Event
        PROVE claimers[e] \subseteq claimers'[e] /\ IsFiniteSet(claimers'[e])
    <3>1. IsFiniteSet(claimers[e])
      BY <1>1 DEF AllClaimed
    <3>2. IsFiniteSet(claimers[e] \cup {r})
      BY <3>1, FS_AddElement
    <3> QED BY <3>1, <3>2, <1>4
  <2>2. \A e \in Event : Written(e) => row'[e].status # "none"
    BY <1>5 DEF Written
  <2>3. \A e \in Event : emitted'[e] > 0 => row'[e].status # "none"
    BY <1>1, <1>2, <2>2 DEF AllWritten
  <2> QED BY <1>2, <2>1, <2>2, <2>3 DEF Onward
<1>11. Data'
  BY <1>1, <1>2, <1>4, <1>5 DEF Data
<1>12. Workers' /\ AllWritten' /\ AllClaimed'
  BY <1>1, <1>2, <1>3, <1>8, <1>9, <1>10, <1>11, WorkerMoves
<1>13. work'[r] = o /\ \A q \in Worker \ {r} : work'[q] = work[q]
  BY <1>1, <1>2 DEF Workers
<1>14. ASSUME NEW e \in Event PROVE Once(e)'
  <2>1. CASE e \in B
    <3>1. SUFFICES ASSUME Undisturbed(e)', emitted'[e] > 0 PROVE FALSE
      BY DEF Once
    <3>2. r \in claimers'[e] /\ claimers[e] \subseteq claimers'[e]
      BY <1>4, <2>1
    <3>3. \A q \in claimers'[e] : q = r
      BY <3>1, <3>2 DEF Undisturbed
    <3>4. Undisturbed(e) /\ emitted[e] > 0
      BY <3>1, <3>2, <1>2 DEF Undisturbed
    <3>5. claimers[e] # {} /\ \A q \in claimers[e] : e \notin work[q].ids
      BY <1>1, <3>4 DEF Once
    <3>6. r \in claimers[e]
      BY <3>2, <3>3, <3>5
    <3> QED BY <3>5, <3>6, <2>1 DEF B
  <2>2. CASE e \notin B
    <3>1. ~Has(r, e) /\ ~Has(r, e)'
      BY <1>1, <1>3, <1>13 DEF Has
    <3>2. e \notin work'[r].ids
      BY <2>2, <1>3, <1>13
    <3>3. row'[e].status = row[e].status /\ claimers'[e] = claimers[e]
      BY <2>2, <1>4, <1>5
    <3> QED BY <1>1, <1>2, <1>13, <3>1, <3>2, <3>3, Elsewhere
  <2> QED BY <2>1, <2>2
<1> QED BY <1>12, <1>14 DEF OutboxInv

LEMMA FetchStep ==
    ASSUME OutboxInv, NEW r \in Relay, Fetch(r) PROVE OutboxInv'
<1> DEFINE B == work[r].ids
           n == Cardinality(B)
           s == InOrder(B)
           t == [i \in DOMAIN s |-> [id |-> s[i], row |-> row[s[i]]]]
           o == [pc |-> "emitting", ids |-> {}, todo |-> t]
<1>1. /\ Workers /\ AllWritten /\ AllClaimed /\ Data /\ r \in Worker /\ work[r] \in Job
      /\ Holds(r, work[r]) /\ work[r].pc = "fetching" /\ work[r].todo = <<>>
      /\ B # {} /\ B \in SUBSET Event /\ \A e \in Event : Once(e)
  BY DEF OutboxInv, Workers, Holds, Fetch, Worker, Job
<1>2. work' = [work EXCEPT ![r] = o] /\ UNCHANGED <<row, emitted, faults, replays, claimers>>
  BY DEF Fetch
<1>3. /\ n \in Nat \ {0} /\ s \in [1..n -> B]
      /\ \A i, j \in 1..n : i # j => s[i] # s[j]
  BY <1>1, InOrderEnumerates, OutboxConstants
<1> HIDE DEF n, s, B
<1>4. /\ t \in Seq(Copy) /\ Len(t) = n /\ t # <<>>
      /\ \A i \in 1..n : t[i].id = s[i] /\ t[i].row = row[s[i]] /\ s[i] \in B
  <2>1. \A i \in 1..n : s[i] \in B /\ s[i] \in Event /\ row[s[i]] \in Row
    BY <1>1, <1>3 DEF Data
  <2>2. DOMAIN s = 1..n
    BY <1>3
  <2>3. \A i \in 1..n : /\ [id |-> s[i], row |-> row[s[i]]] \in Copy
                        /\ t[i] = [id |-> s[i], row |-> row[s[i]]]
    BY <2>1, <2>2 DEF Copy
  <2>4. t \in [1..n -> Copy]
    BY <2>2, <2>3
  <2>5. t \in Seq(Copy) /\ Len(t) = n
    BY <2>4, <1>3
  <2>6. t # <<>>
    BY <2>5, <1>3, EmptySeq
  <2> QED BY <2>1, <2>3, <2>5, <2>6
<1> HIDE DEF t
<1>5. o \in Job /\ o.pc = "emitting" /\ o.ids = {} /\ o.todo = t
  BY <1>4 DEF Job, Places
<1>6. r \notin Operator
  BY OutboxConstants
<1> HIDE DEF o
<1>7. Holds(r, o)
  BY <1>3, <1>4, <1>5, <1>6 DEF Holds
<1>8. \A e \in B : Written(e) /\ r \in claimers[e]
  BY <1>1 DEF AllWritten, AllClaimed, B
<1>9. MayHold(r, o)
  BY <1>2, <1>3, <1>4, <1>5, <1>6, <1>8 DEF MayHold, Written
<1>10. Onward
  BY <1>1, <1>2 DEF Onward, AllWritten, AllClaimed, Written
<1>11. Data'
  BY <1>1, <1>2 DEF Data
<1>12. Workers' /\ AllWritten' /\ AllClaimed'
  BY <1>1, <1>2, <1>5, <1>7, <1>9, <1>10, <1>11, WorkerMoves
<1>13. work'[r] = o /\ \A q \in Worker \ {r} : work'[q] = work[q]
  BY <1>1, <1>2 DEF Workers
<1>14. ASSUME NEW e \in Event PROVE Once(e)'
  <2>1. CASE e \in B
    <3>1. SUFFICES ASSUME Undisturbed(e)', emitted'[e] > 0 PROVE FALSE
      BY DEF Once
    <3>2. Undisturbed(e) /\ emitted[e] > 0
      BY <3>1, <1>2 DEF Undisturbed
    <3>3. \A q \in claimers[e] : e \notin work[q].ids
      BY <1>1, <3>2 DEF Once
    <3> QED BY <3>3, <1>8, <2>1 DEF B
  <2>2. CASE e \notin B
    <3>1. ~Has(r, e)
      BY <1>1 DEF Has
    <3>2. ~Has(r, e)'
      BY <1>4, <1>5, <1>13, <2>2 DEF Has
    <3>3. e \notin work'[r].ids
      BY <1>5, <1>13
    <3> QED BY <1>1, <1>2, <1>13, <3>1, <3>2, <3>3, Elsewhere
  <2> QED BY <2>1, <2>2
<1> QED BY <1>12, <1>14 DEF OutboxInv

(* With a fault or a replay behind it nothing is claimed of an event.      *)
LEMMA Disturbed ==
    ASSUME faults' > 0 \/ replays' > 0, faults' \in Nat, replays' \in Nat
    PROVE  \A e \in Event : Once(e)'
BY DEF Once, Undisturbed

LEMMA ReplayReadStep ==
    ASSUME OutboxInv, NEW w \in Operator, NEW e \in Event, ReplayRead(w, e) PROVE OutboxInv'
<1> DEFINE u == [row[e] EXCEPT !.status = "pending", !.attempts = 0, !.due = TRUE]
           c == [id |-> e, row |-> u]
           o == [pc |-> "resetting", ids |-> {}, todo |-> <<c>>]
<1>1. /\ Workers /\ AllWritten /\ AllClaimed /\ Data /\ w \in Worker
      /\ row[e] \in Row /\ row[e].status # "none"
  BY DEF OutboxInv, Workers, Data, ReplayRead, Worker
<1>2. work' = [work EXCEPT ![w] = o] /\ UNCHANGED <<row, emitted, faults, claimers>>
      /\ replays' = replays + 1
  BY DEF ReplayRead
<1>3. u \in Row /\ u.status = "pending"
  <2>1. 0 \in 0..(MaxAttempts + 1)
    BY OutboxConstants
  <2> QED BY <1>1, <2>1 DEF Row, Stored
<1> HIDE DEF u
<1>4. c \in Copy /\ c.id = e /\ c.row.status = "pending"
  BY <1>3 DEF Copy
<1> HIDE DEF c
<1>5. <<c>> \in Seq(Copy) /\ Len(<<c>>) = 1 /\ <<c>>[1] = c /\ <<c>> # <<>>
  BY <1>4
<1>6. o \in Job /\ o.pc = "resetting" /\ o.ids = {} /\ o.todo = <<c>>
  BY <1>5 DEF Job, Places
<1>7. w \notin Relay
  BY OutboxConstants
<1> HIDE DEF o
<1>8. Holds(w, o)
  BY <1>5, <1>6, <1>7 DEF Holds
<1>9. replays \in Nat /\ faults \in Nat /\ replays' > 0 /\ replays' \in Nat
  BY <1>1, <1>2 DEF Data
<1>10. MayHold(w, o)
  BY <1>1, <1>2, <1>4, <1>5, <1>6, <1>7, <1>9 DEF MayHold
<1>11. Onward
  BY <1>1, <1>2, <1>9 DEF Onward, AllWritten, AllClaimed, Written
<1>12. Data'
  BY <1>1, <1>2, <1>9 DEF Data
<1>13. Workers' /\ AllWritten' /\ AllClaimed'
  BY <1>1, <1>2, <1>6, <1>8, <1>10, <1>11, <1>12, WorkerMoves
<1>14. \A f \in Event : Once(f)'
  BY <1>2, <1>9, Disturbed
<1> QED BY <1>13, <1>14 DEF OutboxInv

(* A worker puts down what it holds.                                       *)
LEMMA GivesUp ==
    ASSUME OutboxInv, NEW w \in Worker, work' = [work EXCEPT ![w] = Idle],
           faults' = faults + 1, UNCHANGED <<row, emitted, replays, claimers>>
    PROVE  OutboxInv'
<1>1. Workers /\ AllWritten /\ AllClaimed /\ Data
  BY DEF OutboxInv, Workers
<1>2. /\ Idle \in Job /\ Idle.pc = "idle" /\ Idle.ids = {} /\ Idle.todo = <<>>
      /\ Len(Idle.todo) = 0
  BY DEF Idle, Job, Places
<1>3. Holds(w, Idle) /\ MayHold(w, Idle)
  BY <1>2 DEF Holds, MayHold
<1>4. Onward
  BY <1>1 DEF Onward, AllWritten, AllClaimed, Written
<1>5. faults \in Nat /\ faults' > 0 /\ faults' \in Nat /\ replays' \in Nat
  BY <1>1 DEF Data
<1>6. Data'
  BY <1>1, <1>5 DEF Data
<1>7. Workers' /\ AllWritten' /\ AllClaimed'
  BY <1>2, <1>3, <1>4, <1>6, WorkerMoves
<1>8. \A e \in Event : Once(e)'
  BY <1>5, Disturbed
<1> QED BY <1>7, <1>8 DEF OutboxInv

(* A worker goes on with the same copies, the first of them changed.       *)
LEMMA HeadChanges ==
    ASSUME OutboxInv, NEW w \in Worker,
           NEW c, NEW o, HeadBecomes(w, c, o), c.row.status # "none",
           Data', UNCHANGED <<claimers, replays>>,
           \A e \in Event : /\ Written(e) => row'[e].status # "none"
                            /\ emitted'[e] > 0 => row'[e].status # "none"
    PROVE  /\ Workers' /\ AllWritten' /\ AllClaimed'
           /\ work'[w] = o /\ \A q \in Worker \ {w} : work'[q] = work[q]
           /\ \A e \in Event : Has(w, e)' <=> Has(w, e)
           /\ o.ids = {} /\ o.todo[1] = c
<1>1. /\ Workers /\ AllWritten /\ AllClaimed /\ work[w].todo \in Seq(Copy)
      /\ Len(work[w].todo) \in Nat \ {0}
      /\ Current(w) = work[w].todo[1] /\ Current(w).id \in Event
      /\ work[w].pc # "idle"
  BY HeadInHand DEF OutboxInv, HeadBecomes
<1>2. /\ Workers' /\ work'[w] = o /\ \A q \in Worker \ {w} : work'[q] = work[q]
      /\ \A e \in Event : Has(w, e)' <=> Has(w, e)
      /\ o.ids = {} /\ o.todo[1] = c
      /\ \A i \in 1..Len(o.todo) : i = 1 \/ o.todo[i] = work[w].todo[i]
      /\ Len(o.todo) = Len(work[w].todo)
  BY <1>1, SameBatch
<1>3. c \in Copy /\ c.id = Current(w).id /\ o \in Job /\ work' = [work EXCEPT ![w] = o]
      /\ o.pc # "fetching"
  BY DEF HeadBecomes
<1>4. Holds(w, o)
  BY <1>2 DEF Workers
<1>5. \A i \in 1..Len(o.todo) : /\ o.todo[i].id = work[w].todo[i].id
                                /\ o.todo[i].id \in Event
                                /\ o.todo[i].row.status # "none"
  <2> TAKE i \in 1..Len(o.todo)
  <2>1. i \in 1..Len(work[w].todo)
    BY <1>2
  <2>2. work[w].todo[i] \in Copy /\ work[w].todo[i].row.status # "none"
    BY <2>1, <1>1 DEF AllWritten
  <2>3. o.todo[i].id = work[w].todo[i].id /\ o.todo[i].row.status # "none"
    BY <1>1, <1>2, <1>3, <2>2
  <2> QED BY <2>2, <2>3 DEF Copy
<1>6. MayHold(w, o)
  <2>1. ASSUME NEW i \in 1..Len(o.todo)
        PROVE /\ row'[o.todo[i].id].status # "none" /\ o.todo[i].row.status # "none"
              /\ w \in Relay => w \in claimers'[o.todo[i].id]
    <3>1. i \in 1..Len(work[w].todo)
      BY <1>2
    <3>2. Written(work[w].todo[i].id) /\ Has(w, work[w].todo[i].id)
      BY <3>1, <1>1 DEF AllWritten, Has
    <3> QED BY <1>1, <1>5, <3>2 DEF AllClaimed
  <2>2. w \in Operator => replays' > 0
    BY <1>1 DEF AllClaimed
  <2> QED BY <2>1, <2>2, <1>2, <1>3 DEF MayHold
<1>7. Onward
  BY <1>1 DEF Onward, AllClaimed
<1>8. Workers' /\ AllWritten' /\ AllClaimed'
  BY <1>4, <1>6, <1>7, <1>3, WorkerMoves
<1> QED BY <1>2, <1>8

(* The first copy is written over its row.                                 *)
LEMMA HeadSaved ==
    ASSUME OutboxInv, NEW w \in Worker,
           work[w].pc \in {"resetting", "emitting", "saving", "noting"},
           row' = [row EXCEPT ![Current(w).id] = Current(w).row]
    PROVE  /\ row' \in [Event -> Row] /\ row'[Current(w).id] = Current(w).row
           /\ \A e \in Event : e # Current(w).id => row'[e] = row[e]
           /\ \A e \in Event : Written(e) => row'[e].status # "none"
<1>1. /\ Workers /\ Data /\ AllWritten
      /\ Current(w) = work[w].todo[1] /\ Current(w).id \in Event /\ Current(w).row \in Row
      /\ Len(work[w].todo) \in Nat \ {0}
  BY HeadInHand DEF OutboxInv, Workers
<1>2. 1 \in 1..Len(work[w].todo)
  BY <1>1
<1>3. Current(w).row.status # "none"
  BY <1>1, <1>2 DEF AllWritten
<1> QED BY <1>1, <1>3 DEF Data, Written

LEMMA ReplayResetStep ==
    ASSUME OutboxInv, NEW w \in Operator, ReplayReset(w) PROVE OutboxInv'
<1>1. /\ Workers /\ Data /\ AllWritten /\ AllClaimed /\ w \in Worker
      /\ work[w].pc = "resetting" /\ UNCHANGED <<emitted, replays, claimers>>
  BY DEF OutboxInv, Workers, Worker, ReplayReset
<1>2. /\ work[w] \in Job /\ work[w].ids = {} /\ work[w].todo \in Seq(Copy)
      /\ Len(work[w].todo) \in Nat \ {0}
      /\ Current(w) = work[w].todo[1] /\ Current(w) \in Copy
  BY <1>1, HeadInHand
<1>3. CASE /\ row' = [row EXCEPT ![Current(w).id] = Current(w).row]
           /\ work' = [work EXCEPT ![w].pc = "emitting"] /\ UNCHANGED faults
  <2> DEFINE c == Current(w)
             o == [work[w] EXCEPT !.pc = "emitting"]
  <2>1. work' = [work EXCEPT ![w] = o]
    BY <1>3
  <2>2. o \in Job /\ o.pc = "emitting" /\ o.ids = work[w].ids /\ o.todo = work[w].todo
    BY <1>2 DEF Job, Places
  <2>3. work[w].todo = [work[w].todo EXCEPT ![1] = c]
    BY <1>2
  <2>4. c.row.status # "none"
    <3>1. 1 \in 1..Len(work[w].todo)
      BY <1>2
    <3> QED BY <1>1, <1>2, <3>1 DEF AllWritten
  <2> HIDE DEF c, o
  <2>5. HeadBecomes(w, c, o)
    BY <1>1, <1>2, <2>1, <2>2, <2>3 DEF HeadBecomes, c
  <2>6. /\ row' \in [Event -> Row]
        /\ \A e \in Event : Written(e) => row'[e].status # "none"
    BY <1>1, <1>3, HeadSaved
  <2>7. Data'
    BY <1>1, <1>3, <2>6 DEF Data
  <2>8. \A e \in Event : emitted'[e] > 0 => row'[e].status # "none"
    BY <1>1, <2>6 DEF AllWritten
  <2>9. Workers' /\ AllWritten' /\ AllClaimed'
    BY <1>1, <2>4, <2>5, <2>6, <2>7, <2>8, HeadChanges
  <2>10. replays > 0 /\ replays' \in Nat /\ faults' \in Nat
    BY <1>1, <1>3 DEF AllClaimed, Data
  <2>11. \A e \in Event : Once(e)'
    BY <1>1, <2>10, Disturbed
  <2> QED BY <2>9, <2>11 DEF OutboxInv
<1>4. CASE faults' = faults + 1 /\ work' = [work EXCEPT ![w] = Idle] /\ UNCHANGED row
  BY <1>1, <1>4, GivesUp
<1> QED BY <1>3, <1>4 DEF ReplayReset

LEMMA CrashStep == ASSUME OutboxInv, NEW w \in Worker, Crash(w) PROVE OutboxInv'
BY GivesUp DEF Crash

(* The copy after a failure.                                               *)
LEMMA FailureTypes ==
    ASSUME NEW u \in Row, u.status # "none"
    PROVE  Failure(u) \in Row /\ Failure(u).status # "none"
<1> DEFINE n == Capped(u.attempts, MaxAttempts + 1)
           x == IF n >= MaxAttempts THEN "failed" ELSE u.status
<1>1. u.attempts \in 0..(MaxAttempts + 1) /\ u.status \in Stored
  BY DEF Row
<1>2. n \in 0..(MaxAttempts + 1)
  BY <1>1, OutboxConstants DEF Capped
<1>3. x \in Stored
  BY <1>1 DEF Stored
<1>4. Failure(u) = [u EXCEPT !.attempts = n, !.due = FALSE, !.status = x]
  BY DEF Failure
<1> HIDE DEF n, x
<1>5. [u EXCEPT !.attempts = n, !.due = FALSE, !.status = x] \in Row
      /\ [u EXCEPT !.attempts = n, !.due = FALSE, !.status = x].status = x
  BY <1>2, <1>3 DEF Row
<1> QED BY <1>3, <1>4, <1>5 DEF Stored

LEMMA EmitTypes ==
    ASSUME NEW u \in Row
    PROVE  /\ Capped(u.attempts, MaxAttempts + 1) \in 0..(MaxAttempts + 1)
           /\ [u EXCEPT !.status = "published",
                        !.attempts = Capped(u.attempts, MaxAttempts + 1)] \in Row
<1>1. u.attempts \in 0..(MaxAttempts + 1)
  BY DEF Row
<1>2. Capped(u.attempts, MaxAttempts + 1) \in 0..(MaxAttempts + 1)
  BY <1>1, OutboxConstants DEF Capped
<1> QED BY <1>2 DEF Row, Stored

(* The failure is noted on the copy in hand.                               *)
LEMMA HeadIsNoted ==
    ASSUME OutboxInv, NEW w \in Worker, work[w].pc \in {"emitting", "saving"},
           work' = [work EXCEPT ![w].pc = "noting", ![w].todo[1].row = Failure(@)],
           UNCHANGED <<row, emitted, replays, claimers>>, faults' \in Nat
    PROVE  /\ Workers' /\ AllWritten' /\ AllClaimed'
           /\ \A q \in Worker \ {w} : work'[q] = work[q]
           /\ work'[w].ids = {} /\ \A e \in Event : Has(w, e)' <=> Has(w, e)
<1>1. /\ Workers /\ Data /\ AllWritten /\ work \in [Worker -> Job]
  BY DEF OutboxInv, Workers
<1>2. /\ work[w] \in Job /\ work[w].ids = {} /\ work[w].todo \in Seq(Copy)
      /\ Len(work[w].todo) \in Nat \ {0}
      /\ Current(w) = work[w].todo[1] /\ Current(w) \in Copy /\ Current(w).row \in Row
  BY <1>1, HeadInHand
<1>3. Current(w).row.status # "none"
  <2>1. 1 \in 1..Len(work[w].todo)
    BY <1>2
  <2> QED BY <1>1, <1>2, <2>1 DEF AllWritten
<1> DEFINE u == Failure(Current(w).row)
           c == [Current(w) EXCEPT !.row = u]
           o == [work[w] EXCEPT !.pc = "noting", !.todo = [work[w].todo EXCEPT ![1] = c]]
<1>4. u \in Row /\ u.status # "none"
  BY <1>2, <1>3, FailureTypes
<1>5. work' = [work EXCEPT ![w] = o]
  BY <1>1, <1>2
<1> HIDE DEF u
<1>6. c \in Copy /\ c.id = Current(w).id /\ c.row = u
  BY <1>2, <1>4 DEF Copy
<1> HIDE DEF c
<1>7. [work[w].todo EXCEPT ![1] = c] \in Seq(Copy)
  BY <1>2, <1>6
<1>8. o \in Job /\ o.pc = "noting" /\ o.ids = work[w].ids
      /\ o.todo = [work[w].todo EXCEPT ![1] = c]
  BY <1>2, <1>7 DEF Job, Places
<1> HIDE DEF o
<1>9. HeadBecomes(w, c, o)
  BY <1>5, <1>6, <1>8 DEF HeadBecomes
<1>10. Data'
  BY <1>1 DEF Data
<1>11. \A e \in Event : /\ Written(e) => row'[e].status # "none"
                        /\ emitted'[e] > 0 => row'[e].status # "none"
  BY <1>1 DEF AllWritten, Written
<1>12. c.row.status # "none"
  BY <1>4, <1>6
<1> QED BY <1>9, <1>10, <1>11, <1>12, HeadChanges

LEMMA SaveRefusedStep == ASSUME OutboxInv, NEW w \in Worker, SaveRefused(w) PROVE OutboxInv'
<1>1. Data /\ faults' = faults + 1 /\ UNCHANGED <<row, emitted, replays, claimers>>
  BY DEF OutboxInv, Workers, SaveRefused
<1>2. faults' \in Nat /\ faults' > 0 /\ replays' \in Nat
  BY <1>1 DEF Data
<1>3. CASE /\ work[w].pc = "saving"
           /\ work' = [work EXCEPT ![w].pc = "noting", ![w].todo[1].row = Failure(@)]
  <2>1. Workers' /\ AllWritten' /\ AllClaimed'
    BY <1>1, <1>2, <1>3, HeadIsNoted
  <2>2. \A e \in Event : Once(e)'
    BY <1>2, Disturbed
  <2> QED BY <2>1, <2>2 DEF OutboxInv
<1>4. CASE work' = [work EXCEPT ![w] = Idle]
  BY <1>1, <1>4, GivesUp
<1> QED BY <1>3, <1>4 DEF SaveRefused

LEMMA EmitThrowsStep == ASSUME OutboxInv, NEW w \in Worker, EmitThrows(w) PROVE OutboxInv'
<1>1. /\ Data /\ work[w].pc = "emitting"
      /\ work' = [work EXCEPT ![w].pc = "noting", ![w].todo[1].row = Failure(@)]
      /\ UNCHANGED <<row, emitted, faults, replays, claimers>> /\ \A e \in Event : Once(e)
  BY DEF OutboxInv, Workers, EmitThrows
<1>2. faults' \in Nat
  BY <1>1 DEF Data
<1>3. /\ Workers' /\ AllWritten' /\ AllClaimed'
      /\ \A q \in Worker \ {w} : work'[q] = work[q]
      /\ work'[w].ids = {} /\ \A e \in Event : Has(w, e)' <=> Has(w, e)
  BY <1>1, <1>2, HeadIsNoted
<1>4. ASSUME NEW e \in Event PROVE Once(e)'
  <2>1. CASE Has(w, e)
    <3>1. SUFFICES ASSUME Undisturbed(e)', emitted'[e] > 0 PROVE FALSE
      BY DEF Once
    <3>2. Undisturbed(e) /\ emitted[e] > 0
      BY <3>1, <1>1 DEF Undisturbed
    <3> QED BY <3>2, <2>1, <1>1, HolderSettles
  <2>2. CASE ~Has(w, e)
    <3>1. ~Has(w, e)' /\ e \notin work'[w].ids
      BY <2>2, <1>3
    <3> QED BY <2>2, <3>1, <1>1, <1>3, Elsewhere
  <2> QED BY <2>1, <2>2
<1> QED BY <1>3, <1>4 DEF OutboxInv

(* Emitting: the copy in hand is published, one attempt later.             *)
LEMMA EmitMoves ==
    ASSUME Workers, NEW w \in Worker, Emit(w)
    PROVE  \E c, o : HeadBecomes(w, c, o) /\ o.pc = "saving" /\ c.row.status = "published"
<1> DEFINE k  == Capped(Current(w).row.attempts, MaxAttempts + 1)
           W1 == [work EXCEPT ![w].pc = "saving"]
           W2 == [W1 EXCEPT ![w].todo[1].row.status = "published"]
<1>1. /\ work[w] \in Job /\ work[w].ids = {} /\ work[w].todo \in Seq(Copy)
      /\ Len(work[w].todo) \in Nat \ {0} /\ work[w].pc = "emitting"
      /\ Current(w) = work[w].todo[1] /\ Current(w) \in Copy /\ Current(w).row \in Row
      /\ work \in [Worker -> Job]
  BY HeadInHand DEF Emit, Workers
<1>2. k \in 0..(MaxAttempts + 1)
  BY <1>1, EmitTypes
<1>3. work' = [W2 EXCEPT ![w].todo[1].row.attempts = k]
  BY <1>1 DEF Emit
<1>4. /\ W1 \in [Worker -> Job] /\ W1[w].pc = "saving" /\ W1[w].ids = {}
      /\ W1[w].todo = work[w].todo /\ \A q \in Worker \ {w} : W1[q] = work[q]
  BY <1>1 DEF Job, Places
<1> HIDE DEF W1, k
<1> DEFINE u1 == [Current(w).row EXCEPT !.status = "published"]
           c1 == [Current(w) EXCEPT !.row = u1]
           t1 == [work[w].todo EXCEPT ![1] = c1]
           o1 == [W1[w] EXCEPT !.todo = t1]
           u  == [u1 EXCEPT !.attempts = k]
           c  == [c1 EXCEPT !.row = u]
           t  == [t1 EXCEPT ![1] = c]
           o  == [o1 EXCEPT !.todo = t]
<1>5. W2 = [W1 EXCEPT ![w] = o1]
  BY <1>1, <1>4
<1>6. u1 \in Row /\ u1.status = "published"
  BY <1>1 DEF Row, Stored
<1> HIDE DEF u1
<1>7. c1 \in Copy /\ c1.id = Current(w).id /\ c1.row = u1
  BY <1>1, <1>6 DEF Copy
<1> HIDE DEF c1
<1>8. t1 \in Seq(Copy) /\ Len(t1) = Len(work[w].todo) /\ t1[1] = c1
  BY <1>1, <1>7
<1>9. o1 \in Job /\ o1.pc = "saving" /\ o1.ids = {} /\ o1.todo = t1
  BY <1>4, <1>8 DEF Job
<1> HIDE DEF o1, W2
<1>10. /\ W2 \in [Worker -> Job] /\ W2[w] = o1 /\ \A q \in Worker \ {w} : W2[q] = work[q]
  BY <1>4, <1>5, <1>9
<1>11. work' = [W2 EXCEPT ![w] = o]
  BY <1>3, <1>7, <1>8, <1>9, <1>10
<1>12. u \in Row /\ u.status = "published"
  BY <1>2, <1>6 DEF Row
<1> HIDE DEF u
<1>13. c \in Copy /\ c.id = Current(w).id /\ c.row.status = "published"
  BY <1>7, <1>12 DEF Copy
<1> HIDE DEF c
<1>14. t \in Seq(Copy) /\ t = [work[w].todo EXCEPT ![1] = c]
  BY <1>1, <1>8, <1>13
<1> HIDE DEF t1, t
<1>15. o \in Job /\ o.pc = "saving" /\ o.ids = {} /\ o.todo = t
  BY <1>9, <1>14 DEF Job
<1> HIDE DEF o
<1>16. work' = [work EXCEPT ![w] = o]
  BY <1>1, <1>10, <1>11
<1>17. HeadBecomes(w, c, o)
  BY <1>1, <1>13, <1>14, <1>15, <1>16 DEF HeadBecomes
<1> QED BY <1>13, <1>15, <1>17

LEMMA EmitStep == ASSUME OutboxInv, NEW w \in Worker, Emit(w) PROVE OutboxInv'
<1>1. /\ Workers /\ Data /\ AllWritten /\ AllClaimed /\ work \in [Worker -> Job]
      /\ work[w].pc = "emitting" /\ UNCHANGED <<row, faults, replays, claimers>>
      /\ \A e \in Event : Once(e)
  BY DEF OutboxInv, Workers, Emit
<1>2. /\ work[w] \in Job /\ work[w].ids = {} /\ work[w].todo \in Seq(Copy)
      /\ Len(work[w].todo) \in Nat \ {0}
      /\ Current(w) = work[w].todo[1] /\ Current(w) \in Copy /\ Current(w).row \in Row
      /\ Current(w).id \in Event /\ Has(w, Current(w).id)
  BY <1>1, HeadInHand
<1>3. 1 \in 1..Len(work[w].todo)
  BY <1>2
<1> DEFINE f == Current(w).id
<1>4. PICK c, o : HeadBecomes(w, c, o) /\ o.pc = "saving" /\ c.row.status = "published"
  BY <1>1, EmitMoves
<1>5. c.id = f
  BY <1>4 DEF HeadBecomes
<1>6. /\ emitted' \in [Event -> 0..2] /\ \A e \in Event : e # f => emitted'[e] = emitted[e]
      /\ emitted'[f] = Capped(emitted[f], 2)
  BY <1>1, <1>2 DEF Emit, Data, Capped
<1>7. Data'
  BY <1>1, <1>6 DEF Data
<1>8. Written(f)
  BY <1>1, <1>2, <1>3 DEF AllWritten
<1>9. \A e \in Event : /\ Written(e) => row'[e].status # "none"
                       /\ emitted'[e] > 0 => row'[e].status # "none"
  BY <1>1, <1>6, <1>8 DEF AllWritten, Written
<1>10. c.row.status # "none"
  BY <1>4
<1>11. /\ Workers' /\ AllWritten' /\ AllClaimed'
       /\ work'[w] = o /\ \A q \in Worker \ {w} : work'[q] = work[q]
       /\ \A e \in Event : Has(w, e)' <=> Has(w, e)
       /\ o.ids = {} /\ o.todo[1] = c
  BY <1>1, <1>4, <1>7, <1>9, <1>10, HeadChanges
<1>12. ASSUME NEW e \in Event PROVE Once(e)'
  <2>1. CASE ~Has(w, e)
    <3>1. ~Has(w, e)' /\ e \notin work'[w].ids /\ emitted'[e] = emitted[e]
      BY <2>1, <1>2, <1>6, <1>11
    <3> QED BY <2>1, <3>1, <1>1, <1>11, Elsewhere
  <2>2. CASE Has(w, e)
    <3> SUFFICES ASSUME Undisturbed(e)', emitted'[e] > 0
                 PROVE  /\ emitted'[e] = 1 /\ claimers'[e] # {}
                        /\ \A r \in claimers'[e] : e \notin work'[r].ids
                        /\ Settling(e)' \/ Settled(e)'
      BY DEF Once
    <3>1. Undisturbed(e)
      BY <1>1 DEF Undisturbed
    <3>2. ~(emitted[e] > 0)
      BY <3>1, <2>2, <1>1, HolderSettles
    <3>3. e = f /\ emitted[e] = 0
      BY <3>2, <1>1, <1>6 DEF Data
    <3>4. emitted'[e] = 1
      BY <3>3, <1>6 DEF Capped
    <3>5. w \in Relay
      BY <3>1, <1>1 DEF AllClaimed, Undisturbed, Worker
    <3>6. w \in claimers[e]
      BY <3>5, <2>2, <1>1 DEF AllClaimed
    <3>7. \A r \in claimers[e] : r = w
      BY <3>6, <3>1 DEF Undisturbed
    <3>8. work'[w].todo[1].id = e /\ work'[w].todo[1].row.status = "published"
          /\ work'[w].pc = "saving"
      BY <3>3, <1>4, <1>5, <1>11
    <3>9. Settling(e)'
      BY <3>5, <3>8 DEF Settling
    <3> QED BY <3>4, <3>6, <3>7, <3>9, <1>1, <1>11
  <2> QED BY <2>1, <2>2
<1> QED BY <1>11, <1>12 DEF OutboxInv

LEMMA SaveStep == ASSUME OutboxInv, NEW w \in Worker, Save(w) PROVE OutboxInv'
<1> DEFINE o == NextInBatch(w)
           f == Current(w).id
<1>1. /\ Workers /\ Data /\ AllWritten /\ AllClaimed /\ \A e \in Event : Once(e)
      /\ work[w].pc \in {"saving", "noting"} /\ UNCHANGED <<emitted, faults, replays, claimers>>
      /\ work' = [work EXCEPT ![w] = o] /\ row' = [row EXCEPT ![f] = Current(w).row]
  BY DEF OutboxInv, Workers, Save
<1>2. /\ Holds(w, work[w]) /\ Current(w) = work[w].todo[1] /\ f \in Event /\ Has(w, f)
      /\ Len(work[w].todo) \in Nat \ {0} /\ work[w].todo \in Seq(Copy)
      /\ work[w].pc \in {"resetting", "emitting", "saving", "noting"}
  BY <1>1, HeadInHand
<1>3. /\ row' \in [Event -> Row] /\ row'[f] = Current(w).row
      /\ \A e \in Event : e # f => row'[e] = row[e]
      /\ \A e \in Event : Written(e) => row'[e].status # "none"
  BY <1>1, <1>2, HeadSaved
<1>4. /\ o \in Job /\ Holds(w, o) /\ o.ids = {} /\ o.pc \in {"idle", "emitting"}
      /\ \A i \in 1..Len(o.todo) : /\ i + 1 \in 2..Len(work[w].todo)
                                   /\ o.todo[i] = work[w].todo[i + 1]
  BY <1>1, Following
<1> HIDE DEF o
<1>5. MayHold(w, o)
  <2>1. ASSUME NEW i \in 1..Len(o.todo)
        PROVE /\ row'[o.todo[i].id].status # "none" /\ o.todo[i].row.status # "none"
              /\ w \in Relay => w \in claimers'[o.todo[i].id]
    <3>1. i + 1 \in 1..Len(work[w].todo) /\ o.todo[i] = work[w].todo[i + 1]
      BY <1>2, <1>4
    <3>2. work[w].todo[i + 1] \in Copy
      BY <1>2, <3>1
    <3>3. /\ o.todo[i].id \in Event /\ Written(o.todo[i].id)
          /\ o.todo[i].row.status # "none" /\ Has(w, o.todo[i].id)
      BY <3>1, <3>2, <1>1 DEF AllWritten, Has, Copy
    <3> QED BY <1>1, <1>3, <3>3 DEF AllClaimed
  <2>2. w \in Operator => replays' > 0
    BY <1>1, <1>2 DEF AllClaimed
  <2> QED BY <2>1, <2>2, <1>4 DEF MayHold
<1>6. Onward
  <2>1. \A e \in Event : emitted'[e] > 0 => row'[e].status # "none"
    BY <1>1, <1>3 DEF AllWritten
  <2> QED BY <2>1, <1>1, <1>3 DEF Onward, AllClaimed
<1>7. Data'
  BY <1>1, <1>3 DEF Data
<1>8. Workers' /\ AllWritten' /\ AllClaimed'
  BY <1>1, <1>4, <1>5, <1>6, <1>7, WorkerMoves
<1>9. work'[w] = o /\ \A q \in Worker \ {w} : work'[q] = work[q]
  BY <1>1 DEF Workers
<1>10. \A e \in Event : Has(w, e)' => Has(w, e) /\ e # f
  <2> TAKE e \in Event
  <2>1. SUFFICES ASSUME Has(w, e)' PROVE Has(w, e) /\ e # f
    OBVIOUS
  <2>2. PICK i \in 1..Len(o.todo) : o.todo[i].id = e
    BY <2>1, <1>9 DEF Has
  <2>3. i + 1 \in 1..Len(work[w].todo) /\ i + 1 # 1 /\ work[w].todo[i + 1].id = e
        /\ 1 \in 1..Len(work[w].todo)
    BY <1>2, <1>4, <2>2
  <2>4. Has(w, e)
    BY <2>3 DEF Has
  <2>5. work[w].todo[i + 1].id # work[w].todo[1].id
    BY <2>3, <1>2 DEF Holds
  <2> QED BY <2>3, <2>4, <2>5, <1>2
<1>11. ASSUME NEW e \in Event PROVE Once(e)'
  <2>1. CASE ~Has(w, e)
    <3>1. ~Has(w, e)' /\ e \notin work'[w].ids /\ row'[e] = row[e]
      BY <2>1, <1>2, <1>3, <1>4, <1>9, <1>10
    <3> QED BY <2>1, <3>1, <1>1, <1>9, Elsewhere
  <2>2. CASE Has(w, e)
    <3> SUFFICES ASSUME Undisturbed(e)', emitted'[e] > 0
                 PROVE  /\ emitted'[e] = 1 /\ claimers'[e] # {}
                        /\ \A r \in claimers'[e] : e \notin work'[r].ids
                        /\ Settling(e)' \/ Settled(e)'
      BY DEF Once
    <3>1. Undisturbed(e) /\ emitted[e] > 0
      BY <1>1 DEF Undisturbed
    <3>2. /\ \A q \in Worker : Has(q, e) => q \in claimers[e]
          /\ w \in claimers[e] /\ f = e /\ Current(w).row.status = "published"
      BY <3>1, <2>2, HolderSettles
    <3>3. \A q \in Worker : ~Has(q, e)'
      <4> TAKE q \in Worker
      <4>1. CASE q = w
        BY <4>1, <1>10, <3>2
      <4>2. CASE q # w
        <5>1. Has(q, e)' <=> Has(q, e)
          BY <4>2, <1>9 DEF Has
        <5>2. q \notin claimers[e]
          BY <4>2, <3>1, <3>2 DEF Undisturbed
        <5> QED BY <5>1, <5>2, <3>2
      <4> QED BY <4>1, <4>2
    <3>4. Settled(e)'
      BY <3>2, <3>3, <1>3 DEF Settled
    <3>5. \A r \in claimers[e] : r = w
      BY <3>1, <3>2 DEF Undisturbed
    <3>6. emitted[e] = 1
      BY <3>1, <1>1 DEF Once
    <3> QED BY <3>2, <3>4, <3>5, <3>6, <1>1, <1>4, <1>9
  <2> QED BY <2>1, <2>2
<1> QED BY <1>8, <1>11 DEF OutboxInv

LEMMA OutboxStep == OutboxInv /\ [Next]_vars => OutboxInv'
<1> SUFFICES ASSUME OutboxInv, [Next]_vars PROVE OutboxInv'
  OBVIOUS
<1>1. CASE UNCHANGED vars
  <2>1. UNCHANGED <<row, work, emitted, claimers, faults, replays>>
    BY <1>1 DEF vars
  <2>2. Workers'
    BY <2>1 DEF OutboxInv, Workers, Data, Holds
  <2>3. AllWritten' /\ AllClaimed'
    BY <2>1 DEF OutboxInv, AllWritten, AllClaimed, Written, Has
  <2>4. \A e \in Event : Once(e)'
    BY <2>1 DEF OutboxInv, Once, Undisturbed, Settling, Settled, Has
  <2> QED BY <2>2, <2>3, <2>4 DEF OutboxInv
<1>2. ASSUME NEW e \in Event,
             CreateInTransaction(e) \/ ClaimGoesStale(e) \/ RetryFallsDue(e) \/ Archive(e)
      PROVE  OutboxInv'
  BY <1>2, CreateStep, StaleStep, DueStep, ArchiveStep
<1>3. ASSUME NEW r \in Relay, RelayStep(r) PROVE OutboxInv'
  BY <1>3, SelectStep, ClaimStep, FetchStep DEF RelayStep
<1>4. ASSUME NEW w \in Operator, ReplayReset(w) \/ \E e \in Event : ReplayRead(w, e)
      PROVE  OutboxInv'
  BY <1>4, ReplayReadStep, ReplayResetStep
<1>5. ASSUME NEW w \in Worker, PublishStep(w) \/ SaveRefused(w) \/ Crash(w)
      PROVE  OutboxInv'
  BY <1>5, EmitStep, EmitThrowsStep, SaveStep, SaveRefusedStep, CrashStep DEF PublishStep
<1> QED BY <1>1, <1>2, <1>3, <1>4, <1>5 DEF Next

LEMMA OutboxInvariant == Spec => []OutboxInv
<1>1. Init => OutboxInv
  BY OutboxInit, OutboxConstants
<1> QED BY <1>1, OutboxStep, PTL DEF Spec

(* An event is delivered twice only if two relays claimed it, a crash or a *)
(* refused save hid the first delivery, or an operator replayed it: for    *)
(* any number of relays, events and faults, one relay alone never repeats. *)
THEOREM OutboxDuplicates == Spec => []DuplicatesHaveCause
<1>1. OutboxInv => DuplicatesHaveCause
  <2> SUFFICES ASSUME OutboxInv, NEW e \in Event, emitted[e] > 1, faults = 0, replays = 0
               PROVE  Cardinality(claimers[e]) > 1
    BY DEF DuplicatesHaveCause, OutboxInv, Workers, Data
  <2>1. Once(e) /\ IsFiniteSet(claimers[e]) /\ emitted[e] \in 0..2
    BY DEF OutboxInv, AllClaimed, Workers, Data
  <2>2. ~Undisturbed(e)
    BY <2>1 DEF Once
  <2>3. PICK q \in claimers[e], r \in claimers[e] : q # r
    BY <2>2 DEF Undisturbed
  <2>4. IsFiniteSet({r}) /\ Cardinality({r}) = 1
    BY FS_Singleton
  <2>5. Cardinality({r} \cup {q}) = 2
    BY <2>3, <2>4, FS_AddElement
  <2>6. Cardinality({r} \cup {q}) <= Cardinality(claimers[e])
    BY <2>1, <2>3, FS_Subset
  <2>7. Cardinality(claimers[e]) \in Nat
    BY <2>1, FS_CardinalityType
  <2> QED BY <2>5, <2>6, <2>7
<1> QED BY <1>1, OutboxInvariant, PTL

-----------------------------------------------------------------------------
(* What no step does: unwrite a row, take back a delivery, or write a row  *)
(* that is not pending.                                                    *)
Forward(e) == /\ row[e].status # "none" => row'[e].status # "none"
              /\ emitted[e] > 0 => emitted'[e] > 0
              /\ row[e].status = "none" =>
                    row'[e].status = "none" \/ (row'[e].status = "pending" /\ emitted'[e] = 0)

LEMMA RowsStay ==
    ASSUME UNCHANGED emitted, NEW e \in Event, row'[e] = row[e] PROVE Forward(e)
BY DEF Forward

(* A row the step overwrites was there before.                             *)
LEMMA RowSaved ==
    ASSUME OutboxInv, NEW w \in Worker, UNCHANGED emitted,
           work[w].pc \in {"resetting", "emitting", "saving", "noting"},
           row' = [row EXCEPT ![Current(w).id] = Current(w).row]
    PROVE  \A e \in Event : Forward(e)
<1>1. /\ Workers /\ AllWritten /\ Current(w) = work[w].todo[1]
      /\ Len(work[w].todo) \in Nat \ {0}
  BY HeadInHand DEF OutboxInv
<1>2. 1 \in 1..Len(work[w].todo)
  BY <1>1
<1>3. Written(Current(w).id)
  BY <1>1, <1>2 DEF AllWritten
<1>4. /\ \A e \in Event : e # Current(w).id => row'[e] = row[e]
      /\ \A e \in Event : Written(e) => row'[e].status # "none"
  BY HeadSaved
<1> QED BY <1>3, <1>4 DEF Forward, Written

LEMMA ForwardStep ==
    ASSUME OutboxInv, [Next]_vars PROVE \A e \in Event : Forward(e)
<1> USE DEF Forward
<1>1. Workers /\ Data /\ AllWritten
  BY DEF OutboxInv, Workers
<1>2. CASE UNCHANGED vars
  BY <1>2 DEF vars
<1>3. ASSUME NEW f \in Event, CreateInTransaction(f) PROVE \A e \in Event : Forward(e)
  <2>1. /\ row[f] \in Row /\ row[f].status = "none" /\ UNCHANGED emitted
        /\ row' = [row EXCEPT ![f].status = "pending"]
    BY <1>1, <1>3 DEF Data, CreateInTransaction
  <2>2. row'[f].status = "pending" /\ \A e \in Event : e # f => row'[e] = row[e]
    BY <1>1, <2>1 DEF Data, Row
  <2>3. emitted[f] = 0
    BY <1>1, <2>1 DEF AllWritten, Written, Data
  <2> QED BY <2>1, <2>2, <2>3
<1>4. ASSUME NEW f \in Event, ClaimGoesStale(f) \/ RetryFallsDue(f) PROVE \A e \in Event : Forward(e)
  <2>1. UNCHANGED emitted /\ row[f] \in Row
        /\ (row' = [row EXCEPT ![f].stale = TRUE] \/ row' = [row EXCEPT ![f].due = TRUE])
    BY <1>1, <1>4 DEF ClaimGoesStale, RetryFallsDue, Data
  <2>2. \A e \in Event : row'[e].status = row[e].status
    BY <1>1, <2>1 DEF Data, Row
  <2> QED BY <2>1, <2>2
<1>5. ASSUME NEW f \in Event, Archive(f) PROVE \A e \in Event : Forward(e)
  <2>1. UNCHANGED emitted /\ row[f] \in Row /\ row[f].status # "none"
        /\ row' = [row EXCEPT ![f].status = "archived"]
    BY <1>1, <1>5 DEF Archive, Data
  <2>2. row'[f].status = "archived" /\ \A e \in Event : e # f => row'[e] = row[e]
    BY <1>1, <2>1 DEF Data, Row
  <2> QED BY <2>1, <2>2
<1>6. ASSUME NEW r \in Relay, SelectClaimable(r) \/ Fetch(r) PROVE \A e \in Event : Forward(e)
  BY <1>6 DEF SelectClaimable, Fetch
<1>7. ASSUME NEW r \in Relay, Claim(r) PROVE \A e \in Event : Forward(e)
  <2>1. UNCHANGED emitted /\ r \in Worker
        /\ \A e \in Event : row'[e] = IF e \in work[r].ids
                              THEN [row[e] EXCEPT !.status = "publishing", !.stale = FALSE]
                              ELSE row[e]
    BY <1>7 DEF Claim, Worker
  <2>2. \A e \in Event : e \in work[r].ids => row[e].status # "none"
    BY <1>1, <2>1 DEF AllWritten, Written
  <2>3. \A e \in Event : row[e] \in Row
    BY <1>1 DEF Data
  <2>4. \A e \in Event : [row[e] EXCEPT !.status = "publishing", !.stale = FALSE].status = "publishing"
    BY <2>3 DEF Row
  <2> QED BY <2>1, <2>2, <2>4
<1>8. ASSUME NEW w \in Operator, NEW f \in Event, ReplayRead(w, f) PROVE \A e \in Event : Forward(e)
  BY <1>8 DEF ReplayRead
<1>9. ASSUME NEW w \in Operator, ReplayReset(w) PROVE \A e \in Event : Forward(e)
  <2>1. UNCHANGED emitted /\ w \in Worker
    BY <1>9 DEF ReplayReset, Worker
  <2>2. CASE UNCHANGED row
    BY <2>1, <2>2
  <2>3. CASE row' = [row EXCEPT ![Current(w).id] = Current(w).row]
    <3>1. work[w].pc = "resetting"
      BY <1>9 DEF ReplayReset
    <3> QED BY <2>1, <2>3, <3>1, RowSaved
  <2> QED BY <1>9, <2>2, <2>3 DEF ReplayReset
<1>10. ASSUME NEW w \in Worker, Emit(w) PROVE \A e \in Event : Forward(e)
  <2>1. /\ Current(w) = work[w].todo[1] /\ Current(w).id \in Event
        /\ Len(work[w].todo) \in Nat \ {0} /\ UNCHANGED row
    BY <1>1, <1>10, HeadInHand DEF Emit
  <2>2. 1 \in 1..Len(work[w].todo)
    BY <2>1
  <2>3. Written(Current(w).id)
    BY <1>1, <2>1, <2>2 DEF AllWritten
  <2>4. /\ \A e \in Event : e # Current(w).id => emitted'[e] = emitted[e]
        /\ emitted'[Current(w).id] = Capped(emitted[Current(w).id], 2)
        /\ emitted[Current(w).id] \in 0..2
    BY <1>1, <1>10, <2>1 DEF Emit, Data
  <2>5. emitted'[Current(w).id] > 0
    BY <2>4 DEF Capped
  <2> QED BY <2>1, <2>3, <2>4, <2>5 DEF Written
<1>11. ASSUME NEW w \in Worker, EmitThrows(w) \/ SaveRefused(w) \/ Crash(w)
       PROVE  \A e \in Event : Forward(e)
  BY <1>11 DEF EmitThrows, SaveRefused, Crash
<1>12. ASSUME NEW w \in Worker, Save(w) PROVE \A e \in Event : Forward(e)
  <2>1. /\ UNCHANGED emitted /\ row' = [row EXCEPT ![Current(w).id] = Current(w).row]
        /\ work[w].pc \in {"resetting", "emitting", "saving", "noting"}
    BY <1>12 DEF Save
  <2> QED BY <2>1, RowSaved
<1> QED
  BY <1>2, <1>3, <1>4, <1>5, <1>6, <1>7, <1>8, <1>9, <1>10, <1>11, <1>12
  DEF Next, RelayStep, PublishStep

Promises == [e \in Event |-> Promise(e)]

LEMMA PromiseMoves ==
    ASSUME OutboxInv, OutboxInv', NEW e \in Event, Forward(e)
    PROVE  /\ Promise(e)' \in {"none", "owed", "kept", "given_up"}
           /\ \/ Promise(e)' = Promise(e)
              \/ Promise(e) = "none" /\ Promise(e)' = "owed"
              \/ Promise(e) \in {"owed", "given_up"} /\ Promise(e)' \in {"kept", "owed", "given_up"}
<1>1. /\ emitted[e] \in 0..2 /\ emitted'[e] \in 0..2
      /\ (emitted[e] > 0 => row[e].status # "none")
      /\ (emitted'[e] > 0 => row'[e].status # "none")
  BY DEF OutboxInv, Workers, Data, AllWritten, Written
<1>2. /\ (row[e].status = "none" => Promise(e) = "none")
      /\ (row[e].status # "none" /\ emitted[e] > 0 => Promise(e) = "kept")
      /\ (row[e].status # "none" /\ emitted[e] = 0 => Promise(e) \in {"owed", "given_up"})
  BY <1>1 DEF Promise
<1>3. /\ (row'[e].status = "none" => Promise(e)' = "none")
      /\ (row'[e].status # "none" /\ emitted'[e] > 0 => Promise(e)' = "kept")
      /\ (row'[e].status # "none" /\ emitted'[e] = 0 => Promise(e)' \in {"owed", "given_up"})
      /\ (row'[e].status = "pending" /\ emitted'[e] = 0 => Promise(e)' = "owed")
  BY <1>1 DEF Promise
<1> QED BY <1>1, <1>2, <1>3 DEF Forward

(* Every step of the outbox keeps the promise or moves it as the promise   *)
(* allows: nothing committed is forgotten, nothing delivered is taken back *)
(* and nothing is given up but openly.  That what is owed is settled in    *)
(* the end is liveness, which the run of the outbox checks.                *)
THEOREM OutboxKeepsPromise == Spec => Abstract!Init /\ [][Abstract!Next]_Promises
<1>1. Init => Abstract!Init
  BY DEF Init, Abstract!Init, Promise, NoRow
<1>2. OutboxInv /\ OutboxInv' /\ [Next]_vars => [Abstract!Next]_Promises
  <2> SUFFICES ASSUME OutboxInv, OutboxInv', [Next]_vars PROVE Abstract!Next
    OBVIOUS
  <2>1. \A e \in Event : Forward(e)
    BY ForwardStep
  <2>2. ASSUME NEW e \in Event
        PROVE  /\ Promise(e)' \in {"none", "owed", "kept", "given_up"}
               /\ \/ Promise(e)' = Promise(e)
                  \/ Promise(e) = "none" /\ Promise(e)' = "owed"
                  \/ Promise(e) \in {"owed", "given_up"} /\ Promise(e)' \in {"kept", "owed", "given_up"}
    BY <2>1, PromiseMoves
  <2> QED
    BY <2>2 DEF Abstract!Next, Abstract!Standing, Abstract!Record, Abstract!Deliver,
                Abstract!GiveUp, Abstract!Retry
<1> QED BY <1>1, <1>2, OutboxInvariant, PTL DEF Spec
=============================================================================
