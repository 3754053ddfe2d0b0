---------------------------- MODULE PayoutProofs ----------------------------
(***************************************************************************)
(* Money and custody add up.  The models add up balances, bids and shares  *)
(* with SumFunctionOnSet; its recursion over the subsets of a set is       *)
(* unfolded here, once and for all, by induction over finite sets.  On it  *)
(* rest the lemmas about payments and shares that every kind of deal       *)
(* needs; at the end, those about custody.                                 *)
(***************************************************************************)
EXTENDS Payout, FiniteSetTheorems, WellFoundedInduction, NaturalsInduction, TLAPS

(* The indices of a sequence are finitely many.                            *)
LEMMA IndicesFinite ==
    ASSUME NEW n \in Nat
    PROVE  IsFiniteSet(1..n)
BY FS_Interval

(* Induction: of the subsets of a finite set that lack a property, one is  *)
(* such that every set with one element less has it.                       *)
LEMMA SmallestSet ==
    ASSUME NEW S, IsFiniteSet(S), NEW Bad \in SUBSET (SUBSET S), Bad # {}
    PROVE  \E T \in Bad : \A x \in T : T \ {x} \notin Bad
<1>1. IsWellFoundedOn(StrictSubsetOrdering(S), FiniteSubsetsOf(S))
  BY FS_StrictSubsetOrderingWellFounded
<1>2. FiniteSubsetsOf(S) = SUBSET S
  BY FS_FiniteSubsetsOfFinite
<1>3. PICK T \in Bad : \A U \in Bad : ~ (<<U, T>> \in StrictSubsetOrdering(S))
  BY <1>1, <1>2, WFMin
<1>4. ASSUME NEW x \in T PROVE T \ {x} \notin Bad
  <2>1. T \ {x} \in SUBSET S /\ T \ {x} # T
    OBVIOUS
  <2>2. <<T \ {x}, T>> \in StrictSubsetOrdering(S)
    BY <2>1 DEF StrictSubsetOrdering
  <2> QED BY <1>3, <2>2
<1> QED BY <1>4

-----------------------------------------------------------------------------
Chosen(s) == CHOOSE x \in s : TRUE

(* The recursion that SumFunctionOnSet stands for.                         *)
Adds(g, f, S) ==
    g = [s \in SUBSET S |->
            IF s = {} THEN 0 ELSE f[Chosen(s)] + g[s \ {Chosen(s)}]]

LEMMA NumberInduction ==
    ASSUME NEW W, 0 \in W, \A n \in Nat : n \in W => n + 1 \in W
    PROVE  Nat \subseteq W
<1> DEFINE Bad == Nat \ W
<1> SUFFICES ASSUME Bad # {} PROVE FALSE
  OBVIOUS
<1>1. PICK R : IsWellFoundedOn(R, Nat) /\ \A m, n \in Nat : m < n => <<m, n>> \in R
  <2>1. IsWellFoundedOn({mn \in Nat \X Nat : mn[1] < mn[2]}, Nat)
    BY NatLessThanWellFounded DEF OpToRel
  <2> QED BY <2>1
<1>2. PICK n \in Bad : \A m \in Bad : ~ (<<m, n>> \in R)
  <2> HIDE DEF Bad
  <2>1. Bad \subseteq Nat
    BY DEF Bad
  <2>2. IsWellFoundedOn(R, Nat)
    BY <1>1
  <2> QED BY <2>1, <2>2, WFMin
<1>3. n # 0 /\ n - 1 \in Nat
  BY <1>2
<1>4. <<n - 1, n>> \in R
  BY <1>1, <1>2, <1>3
<1>5. n - 1 \in W
  BY <1>2, <1>3, <1>4
<1> QED BY <1>2, <1>3, <1>5

LEMMA AddsExists ==
    ASSUME NEW f, NEW S, IsFiniteSet(S)
    PROVE  \E g : Adds(g, f, S)
<1> DEFINE D(n)    == {s \in SUBSET S : Cardinality(s) <= n}
           To(g, n) == g = [s \in D(n) |->
                              IF s = {} THEN 0 ELSE f[Chosen(s)] + g[s \ {Chosen(s)}]]
           W        == {n \in Nat : \E g : To(g, n)}
<1>1. \A s \in SUBSET S : IsFiniteSet(s) /\ Cardinality(s) \in Nat
  BY FS_Subset, FS_CardinalityType
<1>2. \A s \in SUBSET S : s # {} =>
          /\ Chosen(s) \in s /\ s \ {Chosen(s)} \in SUBSET S
          /\ Cardinality(s \ {Chosen(s)}) = Cardinality(s) - 1
  BY <1>1, FS_RemoveElement DEF Chosen
<1>3. 0 \in W
  <2>1. D(0) = {{}}
    BY <1>1, FS_EmptySet
  <2>2. To([s \in D(0) |-> 0], 0)
    BY <2>1
  <2> QED BY <2>2
<1>4. ASSUME NEW n \in Nat, n \in W PROVE n + 1 \in W
  <2>1. PICK g : To(g, n)
    BY <1>4
  <2> DEFINE h == [s \in D(n + 1) |->
                      IF s = {} THEN 0 ELSE f[Chosen(s)] + g[s \ {Chosen(s)}]]
  <2>2. \A s \in D(n) : s \in D(n + 1) /\ h[s] = g[s]
    <3> SUFFICES ASSUME NEW s \in D(n) PROVE s \in D(n + 1) /\ h[s] = g[s]
      OBVIOUS
    <3>1. s \in D(n + 1)
      BY <1>1
    <3>2. g[s] = IF s = {} THEN 0 ELSE f[Chosen(s)] + g[s \ {Chosen(s)}]
      BY <2>1
    <3> QED BY <3>1, <3>2
  <2>3. \A s \in D(n + 1) : s # {} => s \ {Chosen(s)} \in D(n)
    BY <1>1, <1>2
  <2>4. \A s \in D(n + 1) : s # {} => g[s \ {Chosen(s)}] = h[s \ {Chosen(s)}]
    <3> HIDE DEF h, D
    <3> QED BY <2>2, <2>3
  <2>5. h = [s \in D(n + 1) |->
               IF s = {} THEN 0 ELSE f[Chosen(s)] + h[s \ {Chosen(s)}]]
    <3> DEFINE k == [s \in D(n + 1) |->
                        IF s = {} THEN 0 ELSE f[Chosen(s)] + h[s \ {Chosen(s)}]]
    <3>1. \A s \in D(n + 1) : h[s] = k[s]
      <4> SUFFICES ASSUME NEW s \in D(n + 1) PROVE h[s] = k[s]
        OBVIOUS
      <4>1. CASE s = {}
        BY <4>1
      <4>2. CASE s # {}
        <5>1. g[s \ {Chosen(s)}] = h[s \ {Chosen(s)}]
          BY <2>4, <4>2
        <5>2. h[s] = f[Chosen(s)] + g[s \ {Chosen(s)}]
          BY <4>2
        <5>3. k[s] = f[Chosen(s)] + h[s \ {Chosen(s)}]
          BY <4>2
        <5> QED BY <5>1, <5>2, <5>3
      <4> QED BY <4>1, <4>2
    <3> QED BY <3>1
  <2>6. To(h, n + 1)
    BY <2>5
  <2> HIDE DEF h, To
  <2> QED BY <2>6
<1>5. Cardinality(S) \in Nat /\ D(Cardinality(S)) = SUBSET S
  BY <1>1, FS_Subset
<1>6. Cardinality(S) \in W
  <2> HIDE DEF W
  <2> QED BY <1>3, <1>4, <1>5, NumberInduction
<1>7. PICK g : To(g, Cardinality(S))
  BY <1>6
<1> QED BY <1>5, <1>7 DEF Adds

LEMMA SumUnfolds ==
    ASSUME NEW f, NEW S, IsFiniteSet(S)
    PROVE  \E g : Adds(g, f, S) /\ SumFunctionOnSet(f, S) = g[S]
<1>1. SumFunctionOnSet(f, S) = (CHOOSE g : Adds(g, f, S))[S]
  BY DEF SumFunctionOnSet, FoldFunctionOnSet, MapThenFoldSet, Adds, Chosen
<1>2. Adds(CHOOSE g : Adds(g, f, S), f, S)
  BY AddsExists
<1> QED BY <1>1, <1>2

-----------------------------------------------------------------------------
(* Two unfoldings of one sum agree where both are defined.                 *)
LEMMA AddsAgree ==
    ASSUME NEW f, NEW S, IsFiniteSet(S), NEW T \in SUBSET S,
           NEW g, Adds(g, f, S), NEW h, Adds(h, f, T)
    PROVE  g[T] = h[T]
<1> DEFINE Bad == {U \in SUBSET T : g[U] # h[U]}
<1> SUFFICES ASSUME Bad # {} PROVE FALSE
  OBVIOUS
<1>1. PICK U \in Bad : \A x \in U : U \ {x} \notin Bad
  <2>1. IsFiniteSet(T) /\ Bad \in SUBSET (SUBSET T)
    BY FS_Subset
  <2> HIDE DEF Bad
  <2> QED BY <2>1, SmallestSet
<1>2. U \in SUBSET T /\ U \in SUBSET S /\ g[U] # h[U]
  BY <1>1
<1>3. /\ g[U] = IF U = {} THEN 0 ELSE f[Chosen(U)] + g[U \ {Chosen(U)}]
      /\ h[U] = IF U = {} THEN 0 ELSE f[Chosen(U)] + h[U \ {Chosen(U)}]
  BY <1>2 DEF Adds
<1>4. U # {}
  BY <1>2, <1>3
<1>5. Chosen(U) \in U
  BY <1>4 DEF Chosen
<1>6. g[U \ {Chosen(U)}] = h[U \ {Chosen(U)}]
  BY <1>1, <1>2, <1>5
<1> QED BY <1>2, <1>3, <1>6

LEMMA SumEmpty == \A f : SumFunctionOnSet(f, {}) = 0
<1> SUFFICES ASSUME NEW f PROVE SumFunctionOnSet(f, {}) = 0
  OBVIOUS
<1>1. PICK g : Adds(g, f, {}) /\ SumFunctionOnSet(f, {}) = g[{}]
  BY FS_EmptySet, SumUnfolds
<1> QED BY <1>1 DEF Adds

(* One step of the recursion.                                              *)
LEMMA SumStep ==
    ASSUME NEW f, NEW S, IsFiniteSet(S), S # {}
    PROVE  /\ Chosen(S) \in S
           /\ SumFunctionOnSet(f, S)
                 = f[Chosen(S)] + SumFunctionOnSet(f, S \ {Chosen(S)})
<1> DEFINE R == S \ {Chosen(S)}
<1>1. Chosen(S) \in S
  BY DEF Chosen
<1>2. PICK g : Adds(g, f, S) /\ SumFunctionOnSet(f, S) = g[S]
  BY SumUnfolds
<1>3. R \in SUBSET S /\ IsFiniteSet(R)
  BY FS_Subset
<1>4. PICK h : Adds(h, f, R) /\ SumFunctionOnSet(f, R) = h[R]
  BY <1>3, SumUnfolds
<1>5. g[R] = h[R]
  <2> HIDE DEF R
  <2> QED BY <1>2, <1>3, <1>4, AddsAgree
<1>6. g[S] = f[Chosen(S)] + g[R]
  BY <1>2 DEF Adds
<1> QED BY <1>1, <1>2, <1>4, <1>5, <1>6

LEMMA SumInt ==
    ASSUME NEW f, NEW S, IsFiniteSet(S), \A x \in S : f[x] \in Int
    PROVE  SumFunctionOnSet(f, S) \in Int
<1> DEFINE Bad == {T \in SUBSET S : SumFunctionOnSet(f, T) \notin Int}
<1> SUFFICES ASSUME Bad # {} PROVE FALSE
  OBVIOUS
<1>1. PICK T \in Bad : \A x \in T : T \ {x} \notin Bad
  <2>1. Bad \in SUBSET (SUBSET S)
    OBVIOUS
  <2> HIDE DEF Bad
  <2> QED BY <2>1, SmallestSet
<1>2. IsFiniteSet(T) /\ T # {}
  <2>1. T \in SUBSET S /\ SumFunctionOnSet(f, T) \notin Int
    BY <1>1
  <2>2. SumFunctionOnSet(f, {}) = 0
    BY SumEmpty
  <2> HIDE DEF Bad
  <2>3. IsFiniteSet(T)
    BY <2>1, FS_Subset
  <2> QED BY <2>1, <2>2, <2>3
<1>3. /\ Chosen(T) \in T
      /\ SumFunctionOnSet(f, T) = f[Chosen(T)] + SumFunctionOnSet(f, T \ {Chosen(T)})
  BY <1>2, SumStep
<1>4. SumFunctionOnSet(f, T \ {Chosen(T)}) \in Int
  BY <1>1, <1>3
<1> QED BY <1>1, <1>3, <1>4

(* Any element may be taken out, not only the one the recursion chooses.   *)
LEMMA SumRemove ==
    ASSUME NEW f, NEW S, IsFiniteSet(S), \A x \in S : f[x] \in Int
    PROVE  \A x \in S : SumFunctionOnSet(f, S) = f[x] + SumFunctionOnSet(f, S \ {x})
<1> DEFINE Sum(T) == SumFunctionOnSet(f, T)
           Bad == {T \in SUBSET S : \E x \in T : Sum(T) # f[x] + Sum(T \ {x})}
<1> SUFFICES ASSUME Bad # {} PROVE FALSE
  OBVIOUS
<1>1. PICK T \in Bad : \A y \in T : T \ {y} \notin Bad
  <2>1. Bad \in SUBSET (SUBSET S)
    OBVIOUS
  <2> HIDE DEF Bad
  <2> QED BY <2>1, SmallestSet
<1>2. PICK x \in T : Sum(T) # f[x] + Sum(T \ {x})
  BY <1>1
<1> DEFINE c == Chosen(T)
<1>3. \A U \in SUBSET S : IsFiniteSet(U) /\ Sum(U) \in Int
  BY FS_Subset, SumInt
<1>4. c \in T /\ Sum(T) = f[c] + Sum(T \ {c})
  BY <1>2, <1>3, SumStep
<1>5. c # x
  BY <1>2, <1>4
<1>6. x \in T \ {c} /\ c \in T \ {x}
  BY <1>2, <1>4, <1>5
<1>7. Sum(T \ {c}) = f[x] + Sum((T \ {c}) \ {x})
  BY <1>1, <1>4, <1>6
<1>8. Sum(T \ {x}) = f[c] + Sum((T \ {x}) \ {c})
  BY <1>1, <1>2, <1>6
<1>9. (T \ {c}) \ {x} = (T \ {x}) \ {c}
  OBVIOUS
<1>10. f[x] \in Int /\ f[c] \in Int /\ Sum((T \ {x}) \ {c}) \in Int
  BY <1>3, <1>4
<1>11. Sum((T \ {c}) \ {x}) = Sum((T \ {x}) \ {c})
  BY <1>9
<1> DEFINE fx == f[x]
           fc == f[c]
           s0 == Sum((T \ {x}) \ {c})
           sc == Sum(T \ {c})
           sx == Sum(T \ {x})
           st == Sum(T)
<1>12. fx \in Int /\ fc \in Int /\ s0 \in Int /\ st # fx + sx /\ st = fc + sc
       /\ sc = fx + s0 /\ sx = fc + s0
  BY <1>2, <1>4, <1>7, <1>8, <1>10, <1>11
<1> HIDE DEF fx, fc, s0, sc, sx, st, Bad, c, Sum
<1> QED BY <1>12

LEMMA SumAdd ==
    ASSUME NEW f, NEW S, IsFiniteSet(S), NEW x, x \notin S, f[x] \in Int,
           \A y \in S : f[y] \in Int
    PROVE  SumFunctionOnSet(f, S \cup {x}) = f[x] + SumFunctionOnSet(f, S)
<1>1. IsFiniteSet(S \cup {x}) /\ (S \cup {x}) \ {x} = S
  BY FS_AddElement
<1>2. \A y \in S \cup {x} : f[y] \in Int
  OBVIOUS
<1>3. \A z \in S \cup {x} : SumFunctionOnSet(f, S \cup {x})
                           = f[z] + SumFunctionOnSet(f, (S \cup {x}) \ {z})
  BY <1>1, <1>2, SumRemove
<1> QED BY <1>1, <1>3

(* Only the values at the set's elements matter.                           *)
LEMMA SumCong ==
    ASSUME NEW f, NEW g, NEW S, IsFiniteSet(S), \A x \in S : f[x] = g[x]
    PROVE  SumFunctionOnSet(f, S) = SumFunctionOnSet(g, S)
<1> DEFINE Bad == {T \in SUBSET S : SumFunctionOnSet(f, T) # SumFunctionOnSet(g, T)}
<1> SUFFICES ASSUME Bad # {} PROVE FALSE
  OBVIOUS
<1>1. PICK T \in Bad : \A x \in T : T \ {x} \notin Bad
  <2>1. Bad \in SUBSET (SUBSET S)
    OBVIOUS
  <2> HIDE DEF Bad
  <2> QED BY <2>1, SmallestSet
<1>2. T \in SUBSET S /\ SumFunctionOnSet(f, T) # SumFunctionOnSet(g, T)
  BY <1>1
<1>3. IsFiniteSet(T) /\ T # {}
  <2>1. SumFunctionOnSet(f, {}) = 0 /\ SumFunctionOnSet(g, {}) = 0
    BY SumEmpty
  <2> HIDE DEF Bad
  <2>2. IsFiniteSet(T)
    BY <1>2, FS_Subset
  <2> QED BY <1>2, <2>1, <2>2
<1>4. /\ Chosen(T) \in T
      /\ SumFunctionOnSet(f, T) = f[Chosen(T)] + SumFunctionOnSet(f, T \ {Chosen(T)})
      /\ SumFunctionOnSet(g, T) = g[Chosen(T)] + SumFunctionOnSet(g, T \ {Chosen(T)})
  BY <1>3, SumStep
<1>5. SumFunctionOnSet(f, T \ {Chosen(T)}) = SumFunctionOnSet(g, T \ {Chosen(T)})
  BY <1>1, <1>2, <1>4
<1> QED BY <1>2, <1>4, <1>5

(* A sum of naturals is a natural, and at least each of them.              *)
LEMMA SumNat ==
    ASSUME NEW f, NEW S, IsFiniteSet(S), \A x \in S : f[x] \in Nat
    PROVE  SumFunctionOnSet(f, S) \in Nat
<1> DEFINE Bad == {T \in SUBSET S : SumFunctionOnSet(f, T) \notin Nat}
<1> SUFFICES ASSUME Bad # {} PROVE FALSE
  OBVIOUS
<1>1. PICK T \in Bad : \A x \in T : T \ {x} \notin Bad
  <2>1. Bad \in SUBSET (SUBSET S)
    OBVIOUS
  <2> HIDE DEF Bad
  <2> QED BY <2>1, SmallestSet
<1>2. T \in SUBSET S /\ SumFunctionOnSet(f, T) \notin Nat
  BY <1>1
<1>3. IsFiniteSet(T) /\ T # {}
  <2>1. SumFunctionOnSet(f, {}) = 0
    BY SumEmpty
  <2> HIDE DEF Bad
  <2>2. IsFiniteSet(T)
    BY <1>2, FS_Subset
  <2> QED BY <1>2, <2>1, <2>2
<1>4. /\ Chosen(T) \in T
      /\ SumFunctionOnSet(f, T) = f[Chosen(T)] + SumFunctionOnSet(f, T \ {Chosen(T)})
  BY <1>3, SumStep
<1>5. SumFunctionOnSet(f, T \ {Chosen(T)}) \in Nat
  BY <1>1, <1>2, <1>4
<1>6. f[Chosen(T)] \in Nat
  BY <1>2, <1>4
<1> QED BY <1>2, <1>4, <1>5, <1>6

LEMMA SumAtLeast ==
    ASSUME NEW f, NEW S, IsFiniteSet(S), \A x \in S : f[x] \in Nat, NEW x \in S
    PROVE  f[x] <= SumFunctionOnSet(f, S)
<1>1. \A y \in S : f[y] \in Int
  OBVIOUS
<1>2. SumFunctionOnSet(f, S) = f[x] + SumFunctionOnSet(f, S \ {x})
  BY <1>1, SumRemove
<1>3. SumFunctionOnSet(f, S \ {x}) \in Nat
  <2>1. IsFiniteSet(S \ {x}) /\ \A y \in S \ {x} : f[y] \in Nat
    BY FS_RemoveElement
  <2> QED BY <2>1, SumNat
<1>4. f[x] \in Nat
  OBVIOUS
<1> DEFINE a == f[x]
           b == SumFunctionOnSet(f, S \ {x})
           c == SumFunctionOnSet(f, S)
<1>5. a \in Nat /\ b \in Nat /\ c = a + b
  BY <1>2, <1>3, <1>4
<1> HIDE DEF a, b, c
<1>6. a <= c
  BY <1>5
<1> QED BY <1>6 DEF a, c

(* Sums of zeroes, and of one element.                                     *)
LEMMA SumSingleton ==
    ASSUME NEW f, NEW x, f[x] \in Int
    PROVE  SumFunctionOnSet(f, {x}) = f[x]
<1>1. IsFiniteSet({}) /\ {} \cup {x} = {x}
  BY FS_EmptySet
<1>2. SumFunctionOnSet(f, {} \cup {x}) = f[x] + SumFunctionOnSet(f, {})
  BY <1>1, SumAdd
<1> QED BY <1>1, <1>2, SumEmpty

(* What changes at one element changes the sum by as much.                 *)
LEMMA SumUpdate ==
    ASSUME NEW f, NEW g, NEW S, IsFiniteSet(S), NEW x \in S,
           \A y \in S : f[y] \in Int /\ g[y] \in Int,
           \A y \in S \ {x} : g[y] = f[y]
    PROVE  SumFunctionOnSet(g, S) = SumFunctionOnSet(f, S) + (g[x] - f[x])
<1>1. \A y \in S : f[y] \in Int
  OBVIOUS
<1>2. \A y \in S : g[y] \in Int
  OBVIOUS
<1>3. SumFunctionOnSet(f, S) = f[x] + SumFunctionOnSet(f, S \ {x})
  BY <1>1, SumRemove
<1>4. SumFunctionOnSet(g, S) = g[x] + SumFunctionOnSet(g, S \ {x})
  BY <1>2, SumRemove
<1>5. IsFiniteSet(S \ {x})
  BY FS_RemoveElement
<1>6. SumFunctionOnSet(g, S \ {x}) = SumFunctionOnSet(f, S \ {x})
  <2>1. \A y \in S \ {x} : f[y] = g[y]
    OBVIOUS
  <2>2. SumFunctionOnSet(f, S \ {x}) = SumFunctionOnSet(g, S \ {x})
    BY <1>5, <2>1, SumCong
  <2> QED BY <2>2
<1>7. SumFunctionOnSet(f, S \ {x}) \in Int
  <2>1. \A y \in S \ {x} : f[y] \in Int
    OBVIOUS
  <2> QED BY <1>5, <2>1, SumInt
<1> DEFINE a == f[x]
           b == g[x]
           r == SumFunctionOnSet(f, S \ {x})
           F == SumFunctionOnSet(f, S)
           G == SumFunctionOnSet(g, S)
<1>8. a \in Int /\ b \in Int /\ r \in Int /\ F = a + r /\ G = b + r
  BY <1>3, <1>4, <1>6, <1>7
<1> HIDE DEF a, b, r, F, G
<1>9. G = F + (b - a)
  BY <1>8
<1> QED BY <1>9 DEF a, b, F, G

LEMMA SumPlus ==
    ASSUME NEW f, NEW g, NEW h, NEW S, IsFiniteSet(S),
           \A x \in S : f[x] \in Int /\ g[x] \in Int /\ h[x] = f[x] + g[x]
    PROVE  SumFunctionOnSet(h, S) = SumFunctionOnSet(f, S) + SumFunctionOnSet(g, S)
<1> DEFINE F(T) == SumFunctionOnSet(f, T)
           G(T) == SumFunctionOnSet(g, T)
           H(T) == SumFunctionOnSet(h, T)
           Bad == {T \in SUBSET S : H(T) # F(T) + G(T)}
<1> SUFFICES ASSUME Bad # {} PROVE FALSE
  OBVIOUS
<1>1. PICK T \in Bad : \A x \in T : T \ {x} \notin Bad
  <2>1. Bad \in SUBSET (SUBSET S)
    OBVIOUS
  <2> HIDE DEF Bad
  <2> QED BY <2>1, SmallestSet
<1>2. T \in SUBSET S /\ H(T) # F(T) + G(T)
  BY <1>1
<1>3. F({}) = 0 /\ G({}) = 0 /\ H({}) = 0
  BY SumEmpty
<1>4. IsFiniteSet(T) /\ T # {}
  <2>1. IsFiniteSet(T)
    BY <1>2, FS_Subset
  <2>2. T = {} => H(T) = F(T) + G(T)
    BY <1>3
  <2> QED BY <1>2, <2>1, <2>2
<1> DEFINE c == Chosen(T)
           R == T \ {c}
<1>5. c \in T /\ F(T) = f[c] + F(R) /\ G(T) = g[c] + G(R) /\ H(T) = h[c] + H(R)
  BY <1>4, SumStep
<1>6. R \in SUBSET S /\ IsFiniteSet(R) /\ R \notin Bad
  BY <1>1, <1>2, <1>5, FS_Subset
<1>7. H(R) = F(R) + G(R)
  BY <1>6
<1>8. F(R) \in Int /\ G(R) \in Int
  <2>1. \A x \in R : f[x] \in Int
    BY <1>6
  <2>2. \A x \in R : g[x] \in Int
    BY <1>6
  <2> HIDE DEF R
  <2> QED BY <1>6, <2>1, <2>2, SumInt
<1>9. c \in S /\ f[c] \in Int /\ g[c] \in Int /\ h[c] = f[c] + g[c]
  BY <1>2, <1>5
<1> HIDE DEF Bad, F, G, H, R, c
<1> QED BY <1>2, <1>5, <1>7, <1>8, <1>9

LEMMA SumConstant ==
    ASSUME NEW f, NEW S, IsFiniteSet(S), NEW k \in Int, \A x \in S : f[x] = k
    PROVE  SumFunctionOnSet(f, S) = Cardinality(S) * k
<1> DEFINE F(T) == SumFunctionOnSet(f, T)
           Bad == {T \in SUBSET S : F(T) # Cardinality(T) * k}
<1> SUFFICES ASSUME Bad # {} PROVE FALSE
  OBVIOUS
<1>1. PICK T \in Bad : \A x \in T : T \ {x} \notin Bad
  <2>1. Bad \in SUBSET (SUBSET S)
    OBVIOUS
  <2> HIDE DEF Bad
  <2> QED BY <2>1, SmallestSet
<1>2. T \in SUBSET S /\ F(T) # Cardinality(T) * k
  BY <1>1
<1>3. F({}) = 0 /\ Cardinality({}) = 0
  BY SumEmpty, FS_EmptySet
<1>4. IsFiniteSet(T) /\ T # {}
  <2> HIDE DEF Bad, F
  <2>1. IsFiniteSet(T)
    BY <1>2, FS_Subset
  <2> QED BY <1>2, <1>3, <2>1
<1> DEFINE c == Chosen(T)
           R == T \ {c}
<1>5. c \in T /\ F(T) = f[c] + F(R)
  BY <1>4, SumStep
<1>6. /\ R \notin Bad /\ R \in SUBSET S
      /\ Cardinality(R) = Cardinality(T) - 1 /\ Cardinality(T) \in Nat
  BY <1>1, <1>2, <1>4, <1>5, FS_RemoveElement, FS_CardinalityType
<1>7. F(R) = Cardinality(R) * k /\ f[c] = k
  BY <1>2, <1>5, <1>6
<1> DEFINE n == Cardinality(T)
<1>8. F(T) = k + (n - 1) * k /\ n \in Nat
  BY <1>5, <1>6, <1>7
<1>9. k + (n - 1) * k = n * k
  BY <1>8
<1> QED BY <1>2, <1>8, <1>9

LEMMA SumAtMost ==
    ASSUME NEW f, NEW g, NEW S, IsFiniteSet(S),
           \A x \in S : f[x] \in Int /\ g[x] \in Int /\ f[x] <= g[x]
    PROVE  SumFunctionOnSet(f, S) <= SumFunctionOnSet(g, S)
<1> DEFINE d == [x \in S |-> g[x] - f[x]]
<1>1. \A x \in S : d[x] \in Nat /\ f[x] \in Int /\ d[x] \in Int /\ g[x] = f[x] + d[x]
  OBVIOUS
<1> HIDE DEF d
<1>2. SumFunctionOnSet(d, S) \in Nat
  BY <1>1, SumNat
<1>3. SumFunctionOnSet(f, S) \in Int
  BY <1>1, SumInt
<1>4. SumFunctionOnSet(g, S) = SumFunctionOnSet(f, S) + SumFunctionOnSet(d, S)
  BY <1>1, SumPlus
<1> QED BY <1>2, <1>3, <1>4

(* Adding up by owner and over the owners is adding up.                    *)
LEMMA SumByOwner ==
    ASSUME NEW due, NEW own, NEW S, IsFiniteSet(S), NEW U, IsFiniteSet(U),
           \A n \in S : own[n] \in U /\ due[n] \in Int
    PROVE  SumFunctionOnSet(
               [u \in U |-> SumFunctionOnSet(due, {n \in S : own[n] = u})], U)
               = SumFunctionOnSet(due, S)
<1> DEFINE Mine(T, u) == {n \in T : own[n] = u}
           P(T) == [u \in U |-> SumFunctionOnSet(due, Mine(T, u))]
           Bad == {T \in SUBSET S : SumFunctionOnSet(P(T), U) # SumFunctionOnSet(due, T)}
<1> SUFFICES ASSUME Bad # {} PROVE FALSE
  OBVIOUS
<1>1. PICK T \in Bad : \A x \in T : T \ {x} \notin Bad
  <2>1. Bad \in SUBSET (SUBSET S)
    OBVIOUS
  <2> HIDE DEF Bad
  <2> QED BY <2>1, SmallestSet
<1>2. T \in SUBSET S /\ SumFunctionOnSet(P(T), U) # SumFunctionOnSet(due, T)
  BY <1>1
<1>3. \A R \in SUBSET S, u \in U :
          /\ IsFiniteSet(Mine(R, u)) /\ Mine(R, u) \in SUBSET S
          /\ P(R)[u] = SumFunctionOnSet(due, Mine(R, u))
          /\ P(R)[u] \in Int
  <2> SUFFICES ASSUME NEW R \in SUBSET S, NEW u \in U
               PROVE  /\ IsFiniteSet(Mine(R, u)) /\ Mine(R, u) \in SUBSET S
                      /\ SumFunctionOnSet(due, Mine(R, u)) \in Int
    OBVIOUS
  <2>1. Mine(R, u) \in SUBSET S
    OBVIOUS
  <2>2. \A n \in Mine(R, u) : due[n] \in Int
    OBVIOUS
  <2> HIDE DEF Mine
  <2>3. IsFiniteSet(Mine(R, u))
    BY <2>1, FS_Subset
  <2> QED BY <2>1, <2>2, <2>3, SumInt
<1>4. T # {}
  <2> SUFFICES ASSUME T = {} PROVE FALSE
    OBVIOUS
  <2>1. \A u \in U : Mine(T, u) = {}
    OBVIOUS
  <2>2. \A u \in U : P(T)[u] = 0
    BY <1>2, <1>3, <2>1, SumEmpty
  <2>3. SumFunctionOnSet(P(T), U) = Cardinality(U) * 0
    <3> HIDE DEF P, Mine
    <3> QED BY <2>2, SumConstant
  <2>4. Cardinality(U) \in Nat /\ SumFunctionOnSet(due, T) = 0
    BY SumEmpty, FS_CardinalityType
  <2> QED BY <1>2, <2>3, <2>4
<1>5. PICK x \in T : TRUE
  BY <1>4
<1> DEFINE R == T \ {x}
           w == own[x]
<1>6. R \in SUBSET S /\ IsFiniteSet(R) /\ IsFiniteSet(T) /\ x \in S /\ w \in U /\ R \notin Bad
  BY <1>1, <1>2, <1>5, FS_Subset
<1>7. SumFunctionOnSet(P(R), U) = SumFunctionOnSet(due, R)
  BY <1>6
<1>8. SumFunctionOnSet(due, T) = due[x] + SumFunctionOnSet(due, R)
  <2>1. \A n \in T : due[n] \in Int
    BY <1>2
  <2> QED BY <1>5, <1>6, <2>1, SumRemove
<1>9. P(T)[w] = due[x] + P(R)[w]
  <2>1. Mine(R, w) = Mine(T, w) \ {x} /\ x \in Mine(T, w)
    BY <1>5
  <2>2. \A n \in Mine(T, w) : due[n] \in Int
    BY <1>2
  <2>3. IsFiniteSet(Mine(T, w))
    BY <1>2, <1>3, <1>6
  <2>4. /\ P(T)[w] = SumFunctionOnSet(due, Mine(T, w))
        /\ P(R)[w] = SumFunctionOnSet(due, Mine(R, w))
    BY <1>6
  <2> HIDE DEF Mine, P, R, w
  <2>5. SumFunctionOnSet(due, Mine(T, w))
            = due[x] + SumFunctionOnSet(due, Mine(T, w) \ {x})
    BY <2>1, <2>2, <2>3, SumRemove
  <2> QED BY <2>1, <2>4, <2>5
<1>10. \A u \in U \ {w} : P(T)[u] = P(R)[u]
  <2> SUFFICES ASSUME NEW u \in U \ {w} PROVE Mine(T, u) = Mine(R, u)
    OBVIOUS
  <2> QED OBVIOUS
<1>11. \A u \in U : P(R)[u] \in Int /\ P(T)[u] \in Int
  BY <1>2, <1>3, <1>6
<1>12. SumFunctionOnSet(P(T), U) = SumFunctionOnSet(P(R), U) + (P(T)[w] - P(R)[w])
  <2> HIDE DEF P, R, w
  <2> QED BY <1>6, <1>10, <1>11, SumUpdate
<1>13. due[x] \in Int /\ P(R)[w] \in Int /\ SumFunctionOnSet(due, R) \in Int
  <2>1. \A n \in R : due[n] \in Int
    BY <1>6
  <2>2. SumFunctionOnSet(due, R) \in Int
    <3> HIDE DEF R
    <3> QED BY <1>6, <2>1, SumInt
  <2> QED BY <1>6, <1>11, <2>2
<1> DEFINE a == due[x]
           b == P(R)[w]
           c == P(T)[w]
           d == SumFunctionOnSet(due, R)
           e == SumFunctionOnSet(due, T)
           p == SumFunctionOnSet(P(T), U)
           q == SumFunctionOnSet(P(R), U)
<1>14. /\ a \in Int /\ b \in Int /\ d \in Int /\ p # e /\ q = d /\ e = a + d
       /\ c = a + b /\ p = q + (c - b)
  BY <1>2, <1>7, <1>8, <1>9, <1>12, <1>13
<1> HIDE DEF a, b, c, d, e, p, q, P, R, w, Bad
<1> QED BY <1>14

-----------------------------------------------------------------------------
(* Payments stay in the natural numbers.                                   *)

LEMMA PayType ==
    ASSUME NEW b \in [Account -> Nat], NEW from \in Account, NEW to \in Account,
           NEW amount \in Nat, CanPay(b, from, amount)
    PROVE  Pay(b, from, to, amount) \in [Account -> Nat]
BY DEF CanPay, Pay

LEMMA DistributeType ==
    ASSUME NEW b \in [Account -> Nat], NEW shares, NEW total \in Nat,
           CanDistribute(b, shares, total)
    PROVE  Distribute(b, shares, total) \in [Account -> Nat]
BY LedgerAssumption DEF CanDistribute, Distribute, CanPay, Shares, Account

LEMMA GiveType ==
    ASSUME NEW own \in [NFT -> Account], NEW u \in Account, NEW S
    PROVE  Give(own, u, S) \in [NFT -> Account]
BY DEF Give

LEMMA PercentageType ==
    ASSUME NEW amount \in Int, NEW bps \in Int
    PROVE  CalculatePercentage(amount, bps) \in Int
<1>1. amount * bps \in Int /\ -amount * bps \in Int
  OBVIOUS
<1> QED BY <1>1 DEF CalculatePercentage, Basis

LEMMA SaleSharesType ==
    ASSUME PayoutTypeOK, NEW n \in NFT, NEW price \in Int, NEW seller \in User,
           NEW fee \in Int
    PROVE  SaleShares(n, price, seller, fee) \in [User -> Int]
<1>1. royalty[n].bps \in Int
  <2>1. royalty[n] \in Royalty
    BY DEF PayoutTypeOK
  <2>2. royalty[n].bps \in 0..MaxRoyaltyBps
    BY <2>1 DEF Royalty
  <2>3. 0..MaxRoyaltyBps \subseteq Int
    OBVIOUS
  <2> QED BY <2>2, <2>3
<1>2. CalculatePercentage(price, royalty[n].bps) \in Int
  BY <1>1, PercentageType
<1> QED BY <1>2 DEF SaleShares, Split, Clamp, Credit

-----------------------------------------------------------------------------
(* Money.  A payment moves an amount from one account to another, and a    *)
(* distribution moves what it takes from the contract to the users.        *)

LEMMA FiniteAccounts ==
    IsFiniteSet(Account) /\ Market \in Account /\ Account \ {Market} = User
    /\ IsFiniteSet(User)
<1>1. IsFiniteSet(User \cup {Market})
  BY LedgerAssumption, FS_AddElement
<1> QED BY <1>1, LedgerAssumption DEF Account

Total(b) == SumFunctionOnSet(b, Account)

LEMMA TotalIsSum ==
    ASSUME NEW b \in [Account -> Nat]
    PROVE  SumFunction(b) = Total(b) /\ Total(b) \in Int
<1>1. \A a \in Account : b[a] \in Int
  OBVIOUS
<1> QED BY <1>1, FiniteAccounts, SumInt DEF SumFunction, Total

LEMMA DistributeTotal ==
    ASSUME NEW b \in [Account -> Nat], NEW shares, NEW total \in Nat,
           CanDistribute(b, shares, total)
    PROVE  /\ Total(Distribute(b, shares, total)) = Total(b)
           /\ Distribute(b, shares, total)[Market] = b[Market] - total
<1> DEFINE c == Distribute(b, shares, total)
           inC == SumFunctionOnSet(c, User)
           inB == SumFunctionOnSet(b, User)
           out == SumFunctionOnSet(shares, User)
<1>1. shares \in [User -> Nat] /\ out = total
  BY DEF CanDistribute, Shares, SumFunction
<1>2. c[Market] = b[Market] - total
  BY FiniteAccounts DEF Distribute
<1>3. \A u \in User : c[u] = b[u] + shares[u] /\ b[u] \in Int /\ shares[u] \in Int
  BY <1>1, FiniteAccounts, LedgerAssumption DEF Distribute
<1>4. \A a \in Account : b[a] \in Int /\ c[a] \in Int
  BY <1>2, <1>3, FiniteAccounts
<1> HIDE DEF c
<1>5. inC = inB + out
  BY <1>3, SumPlus, FiniteAccounts
<1>6. Total(c) = c[Market] + inC /\ Total(b) = b[Market] + inB
  BY <1>4, FiniteAccounts, SumRemove DEF Total
<1>7. inB \in Int
  BY <1>3, FiniteAccounts, SumInt
<1>8. b[Market] \in Int
  BY <1>4, FiniteAccounts
<1> HIDE DEF inB, inC, out
<1>9. Total(c) = Total(b)
  BY <1>1, <1>2, <1>5, <1>6, <1>7, <1>8
<1> QED BY <1>2, <1>9 DEF c

LEMMA PayTotal ==
    ASSUME NEW b \in [Account -> Nat], NEW from \in Account, NEW to \in Account,
           NEW amount \in Nat
    PROVE  Total(Pay(b, from, to, amount)) = Total(b)
<1> DEFINE mid == [a \in Account |-> IF a = to THEN b[a] + amount ELSE b[a]]
           end == Pay(b, from, to, amount)
<1>1. \A a \in Account : b[a] \in Int /\ mid[a] \in Int /\ end[a] \in Int
  BY DEF Pay
<1>2. \A a \in Account \ {to} : mid[a] = b[a]
  OBVIOUS
<1>3. \A a \in Account \ {from} : end[a] = mid[a]
  BY DEF Pay
<1>4. mid[to] = b[to] + amount /\ end[from] = mid[from] - amount
  BY DEF Pay
<1> HIDE DEF mid, end
<1>5. Total(mid) = Total(b) + (mid[to] - b[to])
  <2>1. \A a \in Account : b[a] \in Int /\ mid[a] \in Int
    BY <1>1
  <2> QED BY <1>2, <2>1, FiniteAccounts, SumUpdate DEF Total
<1>6. Total(end) = Total(mid) + (end[from] - mid[from])
  <2>1. \A a \in Account : mid[a] \in Int /\ end[a] \in Int
    BY <1>1
  <2> QED BY <1>3, <2>1, FiniteAccounts, SumUpdate DEF Total
<1>7. Total(b) \in Int
  BY TotalIsSum
<1>8. mid[from] \in Int /\ b[to] \in Int
  BY <1>1
<1>9. Total(end) = Total(b)
  BY <1>4, <1>5, <1>6, <1>7, <1>8
<1> QED BY <1>9 DEF end

(* A purchase: the price goes in and comes out as shares.                  *)
LEMMA PurchaseTotal ==
    ASSUME NEW b \in [Account -> Nat], NEW buyer \in User, NEW price \in Nat,
           NEW shares, CanPay(b, buyer, price),
           CanDistribute(Pay(b, buyer, Market, price), shares, price)
    PROVE  /\ Total(Distribute(Pay(b, buyer, Market, price), shares, price)) = Total(b)
           /\ Distribute(Pay(b, buyer, Market, price), shares, price)[Market]
                 = b[Market]
<1> DEFINE paid == Pay(b, buyer, Market, price)
<1>1. buyer \in Account /\ buyer # Market /\ Market \in Account
  BY LedgerAssumption DEF Account
<1>2. paid \in [Account -> Nat] /\ Total(paid) = Total(b)
  BY <1>1, PayType, PayTotal
<1>3. paid[Market] = b[Market] + price /\ b[Market] \in Nat
  BY <1>1 DEF Pay
<1> HIDE DEF paid
<1>4. /\ Total(Distribute(paid, shares, price)) = Total(paid)
      /\ Distribute(paid, shares, price)[Market] = paid[Market] - price
  BY <1>2, DistributeTotal DEF paid
<1>5. paid[Market] - price = b[Market]
  BY <1>3
<1> QED BY <1>2, <1>4, <1>5 DEF paid

-----------------------------------------------------------------------------
(* Shares.  A royalty of at most half never exceeds what it is taken on,   *)
(* so the three shares of a price are natural numbers that add up to it.   *)

LEMMA RoyaltyFits ==
    ASSUME NEW amount \in Nat, NEW bps \in 0..MaxRoyaltyBps
    PROVE  CalculatePercentage(amount, bps) \in 0..amount
<1> DEFINE x == amount * bps
           q == (x + 5000) \div 10000
<1>1. x \in Nat /\ x <= amount * 5000
  <2>1. bps \in Nat /\ bps <= 5000
    BY DEF MaxRoyaltyBps
  <2>2. 5000 - bps \in Nat
    BY <2>1
  <2>3. amount * (5000 - bps) \in Nat
    BY <2>2
  <2>4. amount * (5000 - bps) = amount * 5000 - amount * bps
    BY <2>1
  <2> QED BY <2>1, <2>3, <2>4
<1>2. CalculatePercentage(amount, bps) = q
  <2>1. Basis \div 2 = 5000 /\ Basis = 10000
    BY DEF Basis
  <2> QED BY <2>1 DEF CalculatePercentage
<1> HIDE DEF x
<1>3. q \in Nat /\ 10000 * q <= x + 5000
  BY <1>1
<1>4. q <= amount
  BY <1>1, <1>3
<1> QED BY <1>2, <1>3, <1>4

LEMMA SplitFits ==
    ASSUME NEW price \in Nat, NEW cut \in 0..price, NEW fee \in Int
    PROVE  LET s == Split(price, cut, fee)
           IN  /\ s.creator = cut /\ s.seller \in Nat /\ s.platform \in Nat
               /\ s.creator + s.seller + s.platform = price
BY DEF Split, Clamp

LEMMA CreditSum ==
    ASSUME NEW account \in User, NEW amount \in Int, NEW f,
           f = [u \in User |-> Credit(u, account, amount)]
    PROVE  SumFunctionOnSet(f, User) = amount
<1>1. IsFiniteSet(User) /\ IsFiniteSet(User \ {account})
  BY FiniteAccounts, FS_RemoveElement
<1>2. \A u \in User : f[u] \in Int
  BY DEF Credit
<1>3. SumFunctionOnSet(f, User)
          = f[account] + SumFunctionOnSet(f, User \ {account})
  BY <1>1, <1>2, SumRemove
<1>4. f[account] = amount /\ \A u \in User \ {account} : f[u] = 0
  BY DEF Credit
<1>5. SumFunctionOnSet(f, User \ {account}) = Cardinality(User \ {account}) * 0
  BY <1>1, <1>4, SumConstant
<1>6. Cardinality(User \ {account}) \in Nat
  BY <1>1, FS_CardinalityType
<1>7. SumFunctionOnSet(f, User \ {account}) = 0
  BY <1>5, <1>6
<1> QED BY <1>3, <1>4, <1>7

(* Credits add up, whether or not their accounts coincide.                 *)
AddCredits(shares, f, b, y, c, z) ==
    /\ shares \in [User -> Int]
    /\ \A u \in User : shares[u] = f[u] + Credit(u, b, y) + Credit(u, c, z)

LEMMA CreditsSum ==
    ASSUME NEW f \in [User -> Nat], NEW b \in User, NEW y \in Nat,
           NEW c \in User, NEW z \in Nat, NEW shares,
           AddCredits(shares, f, b, y, c, z)
    PROVE  /\ shares \in Shares
           /\ SumFunctionOnSet(shares, User) = SumFunctionOnSet(f, User) + y + z
<1> DEFINE g == [u \in User |-> Credit(u, b, y)]
           h == [u \in User |-> Credit(u, c, z)]
           m == [u \in User |-> f[u] + g[u]]
<1>1. \A u \in User : f[u] \in Nat /\ g[u] \in Nat /\ h[u] \in Nat
  BY DEF Credit
<1>2. SumFunctionOnSet(g, User) = y /\ SumFunctionOnSet(h, User) = z
  BY CreditSum
<1>3. /\ shares \in [User -> Int]
      /\ \A u \in User : m[u] = f[u] + g[u] /\ shares[u] = m[u] + h[u]
  BY DEF AddCredits
<1>4. shares \in Shares
  BY <1>1, <1>3 DEF Shares
<1> HIDE DEF g, h, m
<1>5. SumFunctionOnSet(m, User) = SumFunctionOnSet(f, User) + SumFunctionOnSet(g, User)
  <2>1. \A u \in User : f[u] \in Int /\ g[u] \in Int /\ m[u] = f[u] + g[u]
    BY <1>1, <1>3
  <2> QED BY <2>1, FiniteAccounts, SumPlus
<1>6. SumFunctionOnSet(shares, User)
          = SumFunctionOnSet(m, User) + SumFunctionOnSet(h, User)
  <2>1. \A u \in User : m[u] \in Int /\ h[u] \in Int /\ shares[u] = m[u] + h[u]
    BY <1>1, <1>3
  <2> QED BY <2>1, FiniteAccounts, SumPlus
<1> QED BY <1>2, <1>4, <1>5, <1>6

LEMMA CreatorIsUser ==
    ASSUME PayoutTypeOK, NEW n \in NFT, NEW seller \in User
    PROVE  Creator(n, seller) \in User /\ royalty[n].bps \in 0..MaxRoyaltyBps
BY DEF PayoutTypeOK, Creator, Royalty, SomeUser

LEMMA SaleSharesAddUp ==
    ASSUME PayoutTypeOK, NEW n \in NFT, NEW price \in Nat, NEW seller \in User,
           NEW fee \in Int
    PROVE  /\ SaleShares(n, price, seller, fee) \in Shares
           /\ SumFunctionOnSet(SaleShares(n, price, seller, fee), User) = price
<1> DEFINE cut == Split(price, CalculatePercentage(price, royalty[n].bps), fee)
           f == [u \in User |-> Credit(u, Creator(n, seller), cut.creator)]
           shares == SaleShares(n, price, seller, fee)
<1>1. Creator(n, seller) \in User /\ recipient \in User
  BY CreatorIsUser DEF PayoutTypeOK
<1>2. CalculatePercentage(price, royalty[n].bps) \in 0..price
  BY CreatorIsUser, RoyaltyFits
<1>3. /\ cut.creator \in Nat /\ cut.seller \in Nat /\ cut.platform \in Nat
      /\ cut.creator + cut.seller + cut.platform = price
  BY <1>2, SplitFits
<1>4. shares = [u \in User |-> f[u] + Credit(u, seller, cut.seller)
                              + Credit(u, recipient, cut.platform)]
  BY DEF SaleShares
<1> HIDE DEF cut, shares
<1>5. f \in [User -> Nat]
  BY <1>3 DEF Credit
<1>6. SumFunctionOnSet(f, User) = cut.creator
  BY <1>1, <1>3, CreditSum
<1> HIDE DEF f
<1> DEFINE y == cut.seller
           z == cut.platform
<1>7. y \in Nat /\ z \in Nat
  BY <1>3
<1>8. shares = [u \in User |-> f[u] + Credit(u, seller, y) + Credit(u, recipient, z)]
  BY <1>4
<1> HIDE DEF y, z
<1>9. AddCredits(shares, f, seller, y, recipient, z)
  BY <1>5, <1>7, <1>8 DEF Credit, AddCredits
<1>10. recipient \in User /\ seller \in User /\ f \in [User -> Nat]
  BY <1>1, <1>5
<1>11. /\ shares \in Shares
       /\ SumFunctionOnSet(shares, User) = SumFunctionOnSet(f, User) + y + z
  BY <1>7, <1>9, <1>10, CreditsSum
<1> QED BY <1>3, <1>6, <1>11 DEF shares, y, z

LEMMA BundleSharesAddUp ==
    ASSUME PayoutTypeOK, NEW items \in SUBSET NFT, IsFiniteSet(items), items # {},
           NEW price \in Nat, NEW seller \in User, NEW fee \in Int
    PROVE  /\ BundleShares(items, price, seller, fee) \in Shares
           /\ SumFunctionOnSet(BundleShares(items, price, seller, fee), User) = price
<1> DEFINE k == Cardinality(items)
           each == ItemShare(price, k)
           due == [n \in items |-> CalculatePercentage(each, royalty[n].bps)]
           cut == Split(price, SumFunction(due), fee)
           own == [n \in items |-> Creator(n, seller)]
           f == [u \in User |-> SumFunctionOnSet(due, {n \in items : own[n] = u})]
           shares == BundleShares(items, price, seller, fee)
<1>1. k \in Nat /\ k > 0
  BY FS_CardinalityType, FS_EmptySet
<1>2. each \in Nat /\ k * each <= price
  BY <1>1 DEF ItemShare
<1> HIDE DEF k
<1>3. \A n \in items : due[n] \in 0..each
  <2> HIDE DEF each
  <2> SUFFICES ASSUME NEW n \in items PROVE due[n] \in 0..each
    OBVIOUS
  <2>1. royalty[n].bps \in 0..MaxRoyaltyBps
    BY CreatorIsUser
  <2> QED BY <1>2, <2>1, RoyaltyFits
<1>4. SumFunctionOnSet(due, items) \in 0..price
  <2> DEFINE all == [n \in items |-> each]
             d == SumFunctionOnSet(due, items)
             e == SumFunctionOnSet(all, items)
  <2>1. \A n \in items : /\ due[n] \in Nat /\ due[n] \in Int /\ all[n] \in Int
                         /\ due[n] <= all[n] /\ all[n] = each
    <3> HIDE DEF due, each
    <3> QED BY <1>2, <1>3
  <2> HIDE DEF due, all
  <2>2. d \in Nat
    BY <2>1, SumNat
  <2>3. d <= e
    BY <2>1, SumAtMost
  <2>4. e = k * each
    <3>1. each \in Int
      BY <1>2
    <3> HIDE DEF each
    <3> QED BY <2>1, <3>1, SumConstant DEF k
  <2> HIDE DEF d, e, each
  <2>5. d \in 0..price
    BY <1>1, <1>2, <2>2, <2>3, <2>4
  <2> QED BY <2>5 DEF d
<1>5. SumFunction(due) = SumFunctionOnSet(due, items)
  BY DEF SumFunction
<1>6. /\ cut.creator = SumFunctionOnSet(due, items)
      /\ cut.seller \in Nat /\ cut.platform \in Nat
      /\ cut.creator + cut.seller + cut.platform = price
  <2> HIDE DEF due
  <2> QED BY <1>4, <1>5, SplitFits
<1>7. \A n \in items : own[n] \in User /\ due[n] \in Nat /\ due[n] \in Int
  <2>1. \A n \in items : own[n] \in User
    BY CreatorIsUser
  <2>2. \A n \in items : due[n] \in Nat /\ due[n] \in Int
    <3> HIDE DEF due, each
    <3> QED BY <1>3
  <2> HIDE DEF due, own
  <2> QED BY <2>1, <2>2
<1>8. shares = [u \in User |-> f[u] + Credit(u, seller, cut.seller)
                              + Credit(u, recipient, cut.platform)]
  <2>1. \A u \in User : {n \in items : own[n] = u} = {n \in items : Creator(n, seller) = u}
    OBVIOUS
  <2> QED BY <2>1 DEF BundleShares, k
<1> HIDE DEF shares, due, own, each, cut
<1>9. f \in [User -> Nat]
  <2> SUFFICES ASSUME NEW u \in User
               PROVE  SumFunctionOnSet(due, {n \in items : own[n] = u}) \in Nat
    OBVIOUS
  <2> DEFINE mine == {n \in items : own[n] = u}
  <2>1. IsFiniteSet(mine) /\ \A n \in mine : due[n] \in Nat
    BY <1>7, FS_Subset
  <2> HIDE DEF mine
  <2>2. SumFunctionOnSet(due, mine) \in Nat
    BY <2>1, SumNat
  <2> QED BY <2>2 DEF mine
<1>10. SumFunctionOnSet(f, User) = cut.creator
  <2>1. \A n \in items : own[n] \in User /\ due[n] \in Int
    BY <1>7
  <2>2. SumFunctionOnSet(f, User) = SumFunctionOnSet(due, items)
    BY <2>1, FiniteAccounts, SumByOwner
  <2> QED BY <1>6, <2>2
<1> HIDE DEF f
<1> DEFINE y == cut.seller
           z == cut.platform
<1>11. y \in Nat /\ z \in Nat /\ recipient \in User
  BY <1>6 DEF PayoutTypeOK
<1>12. shares = [u \in User |-> f[u] + Credit(u, seller, y) + Credit(u, recipient, z)]
  BY <1>8
<1> HIDE DEF y, z
<1>13. AddCredits(shares, f, seller, y, recipient, z)
  BY <1>9, <1>11, <1>12 DEF Credit, AddCredits
<1>14. /\ shares \in Shares
       /\ SumFunctionOnSet(shares, User) = SumFunctionOnSet(f, User) + y + z
  BY <1>9, <1>11, <1>13, CreditsSum
<1>15. SumFunctionOnSet(f, User) + y + z = price
  BY <1>6, <1>10 DEF y, z
<1> QED BY <1>14, <1>15 DEF shares

LEMMA PaymentDistributes ==
    ASSUME LedgerTypeOK, NEW u \in User, NEW price \in Nat, NEW shares \in Shares,
           SumFunctionOnSet(shares, User) = price, bal[u] >= price
    PROVE  CanDistribute(Pay(bal, u, Market, price), shares, price)
<1>1. DOMAIN shares = User
  BY DEF Shares
<1>2. SumFunction(shares) = price
  BY <1>1 DEF SumFunction
<1>3. u # Market /\ Market \in Account /\ bal[Market] \in Nat
  BY LedgerAssumption, FiniteAccounts DEF LedgerTypeOK
<1>4. CanPay(Pay(bal, u, Market, price), Market, price)
  BY <1>3 DEF CanPay, Pay
<1> QED BY <1>2, <1>4 DEF CanDistribute

-----------------------------------------------------------------------------
(* The surroundings keep their types.                                      *)

LEMMA SurroundingsType ==
    ASSUME LedgerTypeOK, Surroundings
    PROVE  LedgerTypeOK'
<1>1. CASE Tick
  BY <1>1 DEF Tick, LedgerTypeOK
<1>2. CASE \E n \in NFT, u \in User : TransferOutside(n, u)
  BY <1>2 DEF TransferOutside, LedgerTypeOK, gateVars, Account
<1>3. CASE \E p \in PauseInfos : SetPause(p)
  BY <1>3, LedgerAssumption DEF SetPause, LedgerTypeOK
<1>4. CASE \E B \in BlockSets : SetBlocked(B)
  BY <1>4, LedgerAssumption DEF SetBlocked, LedgerTypeOK
<1> QED BY <1>1, <1>2, <1>3, <1>4 DEF Surroundings

LEMMA TermsType ==
    ASSUME LedgerTypeOK, PayoutTypeOK, TermsNext
    PROVE  LedgerTypeOK' /\ PayoutTypeOK'
<1>1. ASSUME NEW n \in NFT, NEW u \in User, NEW bps \in RoyaltyBps,
             SetRoyaltyInfo(n, u, bps)
      PROVE  LedgerTypeOK' /\ PayoutTypeOK'
  <2>1. [creator |-> u, bps |-> bps] \in Royalty
    BY PayoutAssumption DEF Royalty, SomeUser
  <2> QED BY <1>1, <2>1 DEF SetRoyaltyInfo, LedgerTypeOK, PayoutTypeOK, ledgerVars
<1>2. ASSUME NEW u \in Recipients, SetFeeRecipient(u)
      PROVE  LedgerTypeOK' /\ PayoutTypeOK'
  BY <1>2, PayoutAssumption DEF SetFeeRecipient, LedgerTypeOK, PayoutTypeOK, ledgerVars
<1> QED BY <1>1, <1>2 DEF TermsNext

(* An update of a table, and a new entry.                                  *)
LEMMA Replace ==
    ASSUME NEW S, NEW s \in Seq(S), NEW i \in DOMAIN s, NEW e \in S
    PROVE  /\ [s EXCEPT ![i] = e] \in Seq(S)
           /\ Len([s EXCEPT ![i] = e]) = Len(s)
           /\ DOMAIN [s EXCEPT ![i] = e] = DOMAIN s
           /\ \A j \in DOMAIN s :
                 [s EXCEPT ![i] = e][j] = IF j = i THEN e ELSE s[j]
OBVIOUS

LEMMA Extend ==
    ASSUME NEW S, NEW s \in Seq(S), NEW e \in S
    PROVE  /\ Append(s, e) \in Seq(S)
           /\ Len(Append(s, e)) = Len(s) + 1
           /\ DOMAIN Append(s, e) = 1..(Len(s) + 1)
           /\ \A j \in DOMAIN s : Append(s, e)[j] = s[j]
           /\ Append(s, e)[Len(s) + 1] = e
OBVIOUS

LEMMA InitTypes ==
    ASSUME LedgerInit, PayoutInit
    PROVE  LedgerTypeOK /\ PayoutTypeOK
<1>1. LedgerTypeOK
  BY LedgerAssumption DEF LedgerInit, LedgerTypeOK, Account, Unpaused,
       PauseInfo, ModuleName
<1>2. PayoutTypeOK
  BY PayoutAssumption DEF PayoutInit, PayoutTypeOK, Royalty, SomeUser, MaxRoyaltyBps
<1> QED BY <1>1, <1>2

-----------------------------------------------------------------------------
(* Custody adds up too.  Escrow's steps keep the contract's holdings       *)
(* accounted for, whatever deals they are for and except for the items     *)
(* that are lost to the promise: an item a user owns is in no holding, so  *)
(* a deposit never adds a second holding of it.                            *)

Accounted(Deal, own, held, over, lost) ==
    /\ own \in [NFT -> Account] /\ held \subseteq [deal : Deal, item : NFT, from : User]
    /\ \A h \in held : h.deal \notin over
    /\ \A h \in held : h.item \notin lost => own[h.item] = Market
    /\ \A g, h \in held : g.item = h.item /\ h.item \notin lost => g = h
    /\ \A n \in NFT \ lost : own[n] = Market => \E h \in held : h.item = n

HeldFor(held, d) == {h \in held : h.deal = d}

LEMMA DepositAccounted ==
    ASSUME NEW Deal, NEW own, NEW held, NEW over, NEW lost,
           Accounted(Deal, own, held, over, lost),
           NEW d \in Deal \ over, NEW p \in User, NEW S \in SUBSET NFT, \A n \in S : own[n] = p,
           NEW after, after = [n \in NFT |-> IF n \in S THEN Market ELSE own[n]],
           NEW holds, holds = held \cup {[deal |-> d, item |-> n, from |-> p] : n \in S}
    PROVE  Accounted(Deal, after, holds, over, lost)
<1>1. \A h \in held : h.item \notin lost => h.item \notin S
  BY LedgerAssumption DEF Accounted
<1>2. \A h \in holds : \/ h \in held
                       \/ h.item \in S /\ h = [deal |-> d, item |-> h.item, from |-> p]
  OBVIOUS
<1>3. after \in [NFT -> Account] /\ holds \subseteq [deal : Deal, item : NFT, from : User]
  BY DEF Accounted, Account
<1>4. \A h \in holds : h.deal \notin over /\ (h.item \notin lost => after[h.item] = Market)
  <2> SUFFICES ASSUME NEW h \in holds
               PROVE  h.deal \notin over /\ (h.item \notin lost => after[h.item] = Market)
    OBVIOUS
  <2>1. h.item \in NFT
    BY <1>3
  <2> QED BY <1>2, <2>1 DEF Accounted
<1>5. \A g, h \in holds : g.item = h.item /\ h.item \notin lost => g = h
  BY <1>1, <1>2 DEF Accounted
<1>6. ASSUME NEW n \in NFT \ lost, after[n] = Market PROVE \E h \in holds : h.item = n
  <2>1. CASE n \in S
    <3>1. [deal |-> d, item |-> n, from |-> p] \in holds
      BY <2>1
    <3> QED BY <3>1
  <2>2. CASE n \notin S
    BY <1>6, <2>2 DEF Accounted
  <2> QED BY <2>1, <2>2
<1> QED BY <1>3, <1>4, <1>5, <1>6 DEF Accounted

LEMMA EndAccounted ==
    ASSUME NEW Deal, NEW own, NEW held, NEW over, NEW lost,
           Accounted(Deal, own, held, over, lost),
           NEW d \in Deal, NEW to \in [User -> User], NEW after \in [NFT -> Account],
           \A h \in HeldFor(held, d) : after[h.item] = to[h.from],
           \A n \in NFT \ {h.item : h \in HeldFor(held, d)} : after[n] = own[n]
    PROVE  Accounted(Deal, after, held \ HeldFor(held, d), over \cup {d}, lost)
<1> DEFINE left == held \ HeldFor(held, d)
<1>1. \A h \in left : /\ h \in held /\ h.deal # d
                      /\ h.item \notin lost =>
                            h.item \notin {g.item : g \in HeldFor(held, d)}
  BY DEF Accounted, HeldFor
<1>2. \A h \in left : /\ h.deal \notin over \cup {d}
                      /\ h.item \notin lost => after[h.item] = Market
  <2> SUFFICES ASSUME NEW h \in left
               PROVE  /\ h.deal \notin over \cup {d}
                      /\ h.item \notin lost => after[h.item] = Market
    OBVIOUS
  <2>1. h \in held /\ h.item \in NFT
    BY <1>1 DEF Accounted
  <2> QED BY <1>1, <2>1 DEF Accounted
<1>3. ASSUME NEW n \in NFT \ lost, after[n] = Market PROVE \E h \in left : h.item = n
  <2>1. n \notin {h.item : h \in HeldFor(held, d)}
    <3> SUFFICES ASSUME NEW h \in HeldFor(held, d), n = h.item PROVE FALSE
      OBVIOUS
    <3>1. h.from \in User
      BY DEF Accounted, HeldFor
    <3>2. to[h.from] \in User
      BY <3>1
    <3> QED BY <1>3, <3>2, LedgerAssumption
  <2>2. PICK h \in held : h.item = n
    BY <1>3, <2>1 DEF Accounted
  <2> QED BY <2>1, <2>2
<1> QED BY <1>1, <1>2, <1>3 DEF Accounted

LEMMA ElsewhereAccounted ==
    ASSUME NEW Deal, NEW own, NEW held, NEW over, NEW lost,
           Accounted(Deal, own, held, over, lost),
           NEW n \in NFT, NEW p \in User, own[n] # Market
    PROVE  Accounted(Deal, [own EXCEPT ![n] = p], held, over, lost)
<1>1. p # Market /\ p \in Account
  BY LedgerAssumption DEF Account
<1>2. \A h \in held : h.item \in NFT /\ (h.item \notin lost => h.item # n)
  BY DEF Accounted
<1> QED BY <1>1, <1>2 DEF Accounted

LEMMA StrayAccounted ==
    ASSUME NEW Deal, NEW own, NEW held, NEW over, NEW lost,
           Accounted(Deal, own, held, over, lost), NEW n \in NFT, NEW p \in User
    PROVE  Accounted(Deal, [own EXCEPT ![n] = p], held, over, lost \cup {n})
BY DEF Accounted, Account

LEMMA NothingHeld ==
    ASSUME NEW Deal, NEW own \in [NFT -> User]
    PROVE  Accounted(Deal, own, {}, {}, {})
BY LedgerAssumption DEF Accounted, Account
=============================================================================
