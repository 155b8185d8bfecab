----------------------------- MODULE ListLemmas -----------------------------
(***************************************************************************)
(* Facts about the sequences the lists of the kernel are modelled by, and  *)
(* the induction they rest on.                                             *)
(*                                                                         *)
(* The theorems of the library on induction and recursion take an operator *)
(* as a parameter.  Here a predicate is a set of numbers and a step of a   *)
(* recursion is a function, so that a lemma is cited for a set and a       *)
(* function the proof at hand writes down.                                 *)
(***************************************************************************)
EXTENDS Integers, FiniteSets, SequencesExt, TLAPS,
        WellFoundedInduction, FiniteSetTheorems, SequenceTheorems

-----------------------------------------------------------------------------
(* Induction and recursion *)

(* Every set of numbers that has one has a least one. *)
LEMMA LeastNatural ==
  ASSUME NEW S, S \subseteq Nat, S # {}
  PROVE  \E n \in S : \A m \in S : n <= m
<1> DEFINE R == {ss \in Nat \X Nat : ss[1] < ss[2]}
<1>1. IsWellFoundedOn(R, Nat)
  BY NatLessThanWellFounded DEF OpToRel
<1> HIDE DEF R
<1>2. PICK n \in S : \A m \in S : <<m, n>> \notin R
  BY <1>1, WFMin
<1>3. ASSUME NEW m \in S PROVE n <= m
  <2>1. ~ (m < n)
    BY <1>2, <1>3 DEF R
  <2> QED
    BY <2>1
<1> QED
  BY <1>3

(* Induction: the numbers up to n are in a set that has 0 and, with a number
   below n, the next one.                                                  *)
LEMMA InductionUpTo ==
  ASSUME NEW n \in Nat, NEW T, 0 \in T,
         \A i \in 1 .. n : i - 1 \in T => i \in T
  PROVE  0 .. n \subseteq T
<1> DEFINE Bad == {i \in 0 .. n : i \notin T}
<1>1. SUFFICES ASSUME Bad # {} PROVE FALSE
  OBVIOUS
<1>2. PICK k \in Bad : \A m \in Bad : k <= m
  <2>1. Bad \subseteq Nat
    OBVIOUS
  <2> QED
    BY <1>1, <2>1, LeastNatural
<1>3. k # 0 /\ k \in 1 .. n
  OBVIOUS
<1>4. k - 1 \notin Bad /\ k - 1 \in 0 .. n
  BY <1>2, <1>3
<1> QED
  BY <1>3, <1>4

(* A recursion over the numbers up to n: a first value, and a step that maps a
   number and the value before it to its own.                              *)
Iterates(f, n, base, step) ==
  f[0] = base /\ \A i \in 1 .. n : f[i] = step[<<i, f[i - 1]>>]

(* Every recursion has its values. *)
LEMMA Iteration ==
  ASSUME NEW n \in Nat, NEW T, NEW base \in T,
         NEW step \in [(1 .. n) \X T -> T]
  PROVE  \E f \in [0 .. n -> T] : Iterates(f, n, base, step)
<1> USE DEF Iterates
<1> DEFINE Goes(k, f) == f \in [0 .. k -> T] /\ Iterates(f, k, base, step)
           G == {k \in 0 .. n : \E f : Goes(k, f)}
<1>1. 0 \in G
  <2> DEFINE g == [i \in 0 .. 0 |-> base]
  <2>1. g \in [0 .. 0 -> T] /\ g[0] = base
    OBVIOUS
  <2>2. Goes(0, g)
    BY <2>1
  <2> HIDE DEF Goes, g
  <2> QED
    BY <2>2
<1>2. ASSUME NEW i \in 1 .. n, i - 1 \in G PROVE i \in G
  <2>1. PICK f : Goes(i - 1, f)
    <3> HIDE DEF Goes
    <3> QED
      BY <1>2
  <2>2. f[i - 1] \in T
    BY <2>1
  <2> DEFINE next == step[<<i, f[i - 1]>>]
             g == [k \in 0 .. i |-> IF k = i THEN next ELSE f[k]]
  <2>3. next \in T
    BY <2>2
  <2> HIDE DEF next
  <2>4. g \in [0 .. i -> T]
    BY <2>1, <2>3
  <2>5. g[i] = next /\ \A k \in 0 .. i - 1 : g[k] = f[k]
    OBVIOUS
  <2> HIDE DEF g
  <2>6. ASSUME NEW k \in 1 .. i PROVE g[k] = step[<<k, g[k - 1]>>]
    <3>1. k - 1 \in 0 .. i - 1 /\ g[k - 1] = f[k - 1]
      BY <2>5
    <3>2. CASE k = i
      BY <2>5, <3>1, <3>2 DEF next
    <3>3. CASE k # i
      <4>1. k \in 1 .. i - 1 /\ k \in 0 .. i - 1
        BY <3>3
      <4> QED
        BY <2>1, <2>5, <3>1, <4>1
    <3> QED
      BY <3>2, <3>3
  <2>7. g[0] = base
    BY <2>1, <2>5
  <2>8. Goes(i, g)
    BY <2>4, <2>6, <2>7
  <2> HIDE DEF Goes
  <2> QED
    BY <2>8
<1>3. n \in G
  <2> HIDE DEF G
  <2> QED
    BY <1>1, <1>2, InductionUpTo
<1> QED
  BY <1>3

(* Every set of numbers up to n that has one has a greatest one. *)
LEMMA GreatestNatural ==
  ASSUME NEW n \in Nat, NEW S, S \subseteq 0 .. n, S # {}
  PROVE  \E k \in S : \A m \in S : k >= m
<1> DEFINE T == {n - k : k \in S}
<1>1. T \subseteq Nat /\ T # {}
  <2>1. \A k \in S : n - k \in Nat
    OBVIOUS
  <2> QED
    BY <2>1
<1>2. PICK t \in T : \A m \in T : t <= m
  BY <1>1, LeastNatural
<1>3. PICK k \in S : t = n - k
  OBVIOUS
<1>4. ASSUME NEW m \in S PROVE k >= m
  <2>1. n - m \in T
    OBVIOUS
  <2>2. n - k <= n - m
    BY <1>2, <1>3, <2>1
  <2> QED
    BY <2>2
<1> QED
  BY <1>4

LEMMA MinOfNumbers ==
  ASSUME NEW S, S \subseteq Nat, S # {}
  PROVE  Min(S) \in S /\ \A m \in S : Min(S) <= m
<1>1. \E k \in S : \A m \in S : k <= m
  BY LeastNatural
<1> QED
  BY <1>1 DEF Min

LEMMA MaxOfNumbers ==
  ASSUME NEW n \in Nat, NEW S, S \subseteq 0 .. n, S # {}
  PROVE  Max(S) \in S /\ \A m \in S : Max(S) >= m
<1>1. \E k \in S : \A m \in S : k >= m
  BY GreatestNatural
<1> QED
  BY <1>1 DEF Max

(* A function that stops or goes on with a smaller argument. *)
TailCalls(f, D, Stops, val, jump) ==
  f = [d \in D |-> IF d \in Stops THEN val[d] ELSE f[jump[d]]]

LEMMA TailRecursion ==
  ASSUME NEW D, NEW n \in Nat, NEW size \in [D -> 0 .. n], NEW Stops, NEW val, NEW jump,
         \A d \in D : d \notin Stops => jump[d] \in D /\ size[jump[d]] < size[d]
  PROVE  \E f : TailCalls(f, D, Stops, val, jump)
<1> DEFINE Body(f, d) == IF d \in Stops THEN val[d] ELSE f[jump[d]]
           Right(k, f) == /\ f = [d \in D |-> f[d]]
                          /\ \A d \in D : size[d] <= k => f[d] = Body(f, d)
           G == {k \in 0 .. n : \E f : Right(k, f)}
<1>1. 0 \in G
  <2> DEFINE g == [d \in D |-> val[d]]
  <2>1. ASSUME NEW d \in D, size[d] <= 0 PROVE d \in Stops
    <3>1. size[d] = 0
      BY <2>1
    <3>2. \A e \in D : size[e] >= 0 /\ size[e] \in Int
      OBVIOUS
    <3> QED
      BY <3>1, <3>2
  <2>2. Right(0, g)
    BY <2>1
  <2> HIDE DEF Right, g
  <2> QED
    BY <2>2
<1>2. ASSUME NEW i \in 1 .. n, i - 1 \in G PROVE i \in G
  <2> HIDE DEF Right
  <2>1. PICK f : Right(i - 1, f)
    BY <1>2
  <2> DEFINE g == [d \in D |-> IF size[d] = i THEN Body(f, d) ELSE f[d]]
  <2>2. \A d \in D : size[d] \in 0 .. n
    OBVIOUS
  <2>3. ASSUME NEW d \in D, size[d] <= i - 1 PROVE g[d] = f[d]
    BY <2>2, <2>3
  <2>4. ASSUME NEW d \in D, size[d] <= i PROVE g[d] = Body(g, d)
    <3>1. g[d] = Body(f, d)
      <4>1. CASE size[d] = i
        BY <4>1
      <4>2. CASE size[d] # i
        <5>1. size[d] <= i - 1
          BY <2>2, <2>4, <4>2
        <5> QED
          BY <2>1, <2>3, <5>1 DEF Right
      <4> QED
        BY <4>1, <4>2
    <3>2. CASE d \in Stops
      BY <3>1, <3>2
    <3>3. CASE d \notin Stops
      <4>1. jump[d] \in D /\ size[jump[d]] < size[d]
        BY <3>3
      <4>2. size[jump[d]] <= i - 1
        BY <2>2, <2>4, <4>1
      <4>3. g[jump[d]] = f[jump[d]]
        BY <2>3, <4>1, <4>2
      <4> HIDE DEF g
      <4> QED
        BY <3>1, <3>3, <4>3
    <3> QED
      BY <3>2, <3>3
  <2>5. g = [d \in D |-> g[d]]
    OBVIOUS
  <2> HIDE DEF g, Body
  <2>6. Right(i, g)
    BY <2>4, <2>5 DEF Right
  <2> QED
    BY <2>6
<1>3. n \in G
  <2> HIDE DEF G
  <2>1. 0 .. n \subseteq G
    BY <1>1, <1>2, InductionUpTo
  <2> QED
    BY <2>1
<1>4. PICK f : Right(n, f)
  <2> HIDE DEF Right
  <2> QED
    BY <1>3
<1>5. \A d \in D : f[d] = Body(f, d)
  <2>1. \A d \in D : size[d] <= n
    OBVIOUS
  <2> QED
    BY <1>4, <2>1
<1>6. TailCalls(f, D, Stops, val, jump)
  BY <1>4, <1>5 DEF TailCalls
<1> QED
  BY <1>6

(* What holds for an element whenever it holds for all that are smaller holds
   for all.                                                                *)
LEMMA InductionOnSize ==
  ASSUME NEW D, NEW size \in [D -> Nat], NEW G,
         \A d \in D : (\A e \in D : size[e] < size[d] => e \in G) => d \in G
  PROVE  D \subseteq G
<1> DEFINE Bad == {d \in D : d \notin G}
           S == {size[d] : d \in Bad}
<1>1. SUFFICES ASSUME Bad # {} PROVE FALSE
  OBVIOUS
<1>2. S \subseteq Nat /\ S # {}
  BY <1>1
<1>3. PICK k \in S : \A m \in S : k <= m
  <2> HIDE DEF S
  <2> QED
    BY <1>2, LeastNatural
<1>4. PICK d \in Bad : k = size[d]
  OBVIOUS
<1>5. ASSUME NEW e \in D, size[e] < size[d] PROVE e \in G
  <2>1. CASE e \in Bad
    <3>1. k <= size[e] /\ size[e] \in Nat /\ size[d] \in Nat
      BY <1>3, <2>1
    <3> QED
      BY <1>4, <1>5, <3>1
  <2> QED
    BY <2>1
<1> QED
  BY <1>4, <1>5

(* What holds for the empty set, and with a set for one element more, holds
   for every subset of a finite set.                                       *)
LEMMA InductionOnSubsets ==
  ASSUME NEW S, IsFiniteSet(S), NEW G, {} \in G,
         \A T \in SUBSET S : \A x \in T : T \ {x} \in G => T \in G
  PROVE  SUBSET S \subseteq G
<1> DEFINE size == [T \in SUBSET S |-> Cardinality(T)]
<1>1. \A T \in SUBSET S : IsFiniteSet(T) /\ Cardinality(T) \in Nat
  BY FS_Subset, FS_CardinalityType
<1>2. size \in [SUBSET S -> Nat]
  BY <1>1
<1>3. ASSUME NEW T \in SUBSET S, NEW x \in T
      PROVE  T \ {x} \in SUBSET S /\ size[T \ {x}] < size[T]
  <2>1. Cardinality(T \ {x}) = Cardinality(T) - 1
    BY <1>1, FS_RemoveElement
  <2>2. T \ {x} \in SUBSET S
    OBVIOUS
  <2> QED
    BY <1>1, <2>1, <2>2
<1> HIDE DEF size
<1>4. ASSUME NEW T \in SUBSET S, \A U \in SUBSET S : size[U] < size[T] => U \in G
      PROVE  T \in G
  <2>1. CASE T = {}
    BY <2>1
  <2>2. CASE T # {}
    <3>1. PICK x : x \in T
      BY <2>2
    <3>2. T \ {x} \in G
      BY <1>3, <1>4, <3>1
    <3> QED
      BY <3>1, <3>2
  <2> QED
    BY <2>1, <2>2
<1> QED
  BY <1>2, <1>4, InductionOnSize

(* A function that stops or is a step from its value at a smaller argument. *)
StepsFrom(f, D, Stops, val, next, step) ==
  f = [d \in D |-> IF d \in Stops THEN val[d] ELSE step[<<d, f[next[d]]>>]]

LEMMA StepRecursion ==
  ASSUME NEW D, NEW n \in Nat, NEW size \in [D -> 0 .. n], NEW T, NEW Stops,
         NEW val \in [D \cap Stops -> T], NEW next, NEW step \in [D \X T -> T],
         \A d \in D : d \notin Stops => next[d] \in D /\ size[next[d]] < size[d]
  PROVE  \E f \in [D -> T] : StepsFrom(f, D, Stops, val, next, step)
<1> DEFINE Body(f, d) == IF d \in Stops THEN val[d] ELSE step[<<d, f[next[d]]>>]
           Low(k) == {d \in D : size[d] <= k}
           Right(k, f) == f \in [Low(k) -> T] /\ \A d \in Low(k) : f[d] = Body(f, d)
           G == {k \in 0 .. n : \E f : Right(k, f)}
<1>1. \A d \in D : size[d] \in 0 .. n
  OBVIOUS
<1>2. 0 \in G
  <2> DEFINE g == [d \in Low(0) |-> val[d]]
  <2>1. ASSUME NEW d \in Low(0) PROVE d \in Stops /\ val[d] \in T
    <3>1. d \in Stops
      BY <1>1
    <3> QED
      BY <3>1
  <2>2. g \in [Low(0) -> T] /\ \A d \in Low(0) : g[d] = Body(g, d)
    BY <2>1
  <2> HIDE DEF Low, g, Body
  <2>3. Right(0, g)
    BY <2>2
  <2> HIDE DEF Right
  <2> QED
    BY <2>3
<1>3. ASSUME NEW i \in 1 .. n, i - 1 \in G PROVE i \in G
  <2>1. PICK f : Right(i - 1, f)
    <3> HIDE DEF Right
    <3> QED
      BY <1>3
  <2> DEFINE g == [d \in Low(i) |-> IF size[d] = i THEN Body(f, d) ELSE f[d]]
  <2>2. Low(i - 1) \subseteq Low(i) /\ \A d \in Low(i) : size[d] # i => d \in Low(i - 1)
    BY <1>1
  <2>3. \A d \in Low(i) : d \notin Stops => next[d] \in Low(i - 1)
    <3> SUFFICES ASSUME NEW d \in Low(i), d \notin Stops PROVE next[d] \in Low(i - 1)
      OBVIOUS
    <3>1. next[d] \in D /\ size[next[d]] < size[d] /\ size[d] <= i
      OBVIOUS
    <3> QED
      BY <1>1, <3>1
  <2>4. \A d \in Low(i - 1) : g[d] = f[d]
    BY <1>1, <2>2
  <2>5. \A d \in Low(i) : d \in D
    OBVIOUS
  <2>6. f \in [Low(i - 1) -> T] /\ \A d \in Low(i - 1) : f[d] = Body(f, d)
    BY <2>1
  <2>7. \A d \in Low(i) : g[d] = IF size[d] = i THEN Body(f, d) ELSE f[d]
    OBVIOUS
  <2>8. g = [d \in Low(i) |-> g[d]]
    OBVIOUS
  <2> HIDE DEF Low, g
  <2>9. ASSUME NEW d \in Low(i) PROVE g[d] \in T /\ g[d] = Body(g, d)
    <3>1. g[d] = Body(f, d)
      BY <2>2, <2>6, <2>7
    <3>2. CASE d \in Stops
      BY <2>5, <3>1, <3>2
    <3>3. CASE d \notin Stops
      <4>1. g[next[d]] = f[next[d]] /\ f[next[d]] \in T
        BY <2>3, <2>4, <2>6, <3>3
      <4>2. <<d, f[next[d]]>> \in D \X T
        BY <2>5, <4>1
      <4> QED
        BY <3>1, <3>3, <4>1, <4>2
    <3> QED
      BY <3>2, <3>3
  <2>10. g \in [Low(i) -> T] /\ \A d \in Low(i) : g[d] = Body(g, d)
    BY <2>8, <2>9
  <2> HIDE DEF Body
  <2>11. Right(i, g)
    BY <2>10
  <2> HIDE DEF Right
  <2> QED
    BY <2>11
<1>4. n \in G
  <2> HIDE DEF G
  <2>1. 0 .. n \subseteq G
    BY <1>2, <1>3, InductionUpTo
  <2> QED
    BY <2>1
<1>5. PICK f : Right(n, f)
  <2> HIDE DEF Right
  <2> QED
    BY <1>4
<1>6. Low(n) = D
  BY <1>1
<1>7. f \in [D -> T] /\ \A d \in D : f[d] = Body(f, d)
  <2> HIDE DEF Low, Body
  <2> QED
    BY <1>5, <1>6
<1>8. StepsFrom(f, D, Stops, val, next, step)
  BY <1>7 DEF StepsFrom
<1> QED
  BY <1>7, <1>8

-----------------------------------------------------------------------------
(* Finite sets of numbers, and powers of two *)

LEMMA FiniteIsBounded ==
  ASSUME NEW S, S \subseteq Nat, IsFiniteSet(S)
  PROVE  \E n \in Nat : S \subseteq 0 .. n
<1> DEFINE G == {T \in SUBSET S : \E n \in Nat : T \subseteq 0 .. n}
<1>1. {} \in G
  <2>1. 0 \in Nat /\ {} \subseteq 0 .. 0
    OBVIOUS
  <2> QED
    BY <2>1
<1>2. ASSUME NEW T \in SUBSET S, NEW x \in T, T \ {x} \in G PROVE T \in G
  <2>1. PICK n \in Nat : T \ {x} \subseteq 0 .. n
    BY <1>2
  <2> DEFINE m == n + x
  <2>2. x \in Nat /\ m \in Nat /\ n <= m /\ x <= m
    OBVIOUS
  <2>3. T \subseteq 0 .. m
    <3> SUFFICES ASSUME NEW y \in T PROVE y \in 0 .. m
      OBVIOUS
    <3>1. y \in Nat
      OBVIOUS
    <3>2. CASE y = x
      BY <2>2, <3>1, <3>2
    <3>3. CASE y # x
      <4>1. y \in 0 .. n
        BY <2>1, <3>3
      <4> QED
        BY <2>2, <4>1
    <3> QED
      BY <3>2, <3>3
  <2> QED
    BY <2>2, <2>3
<1> HIDE DEF G
<1>3. S \in G
  BY <1>1, <1>2, InductionOnSubsets
<1> QED
  BY <1>3 DEF G

LEMMA PowerCounts ==
  ASSUME NEW n \in Nat
  PROVE  2 ^ n = Cardinality(SUBSET (1 .. n)) /\ IsFiniteSet(SUBSET (1 .. n))
<1> DEFINE I == 1 .. n
<1>1. IsFiniteSet(I) /\ Cardinality(I) = n
  BY FS_Interval
<1>2. Cardinality(SUBSET I) = 2 ^ Cardinality(I) /\ IsFiniteSet(SUBSET I)
  <2> HIDE DEF I
  <2> QED
    BY <1>1, FS_SUBSET
<1> QED
  BY <1>1, <1>2

(* Powers of two double: the subsets of one number more are those without and
   those with it.                                                          *)
LEMMA PowersOfTwo ==
  ASSUME NEW n \in Nat
  PROVE  2 ^ n \in Nat \ {0} /\ 2 ^ 0 = 1 /\ 2 ^ (n + 1) = 2 * 2 ^ n
<1> DEFINE A == SUBSET (1 .. n)
           B == {S \cup {n + 1} : S \in A}
<1>1. 2 ^ n = Cardinality(A) /\ IsFiniteSet(A) /\ 2 ^ (n + 1) = Cardinality(SUBSET (1 .. n + 1))
  BY PowerCounts
<1>2. SUBSET (1 .. n + 1) = A \cup B
  <2>1. 1 .. n + 1 = (1 .. n) \cup {n + 1} /\ n + 1 \notin 1 .. n
    OBVIOUS
  <2>2. ASSUME NEW U \in SUBSET (1 .. n + 1) PROVE U \in A \cup B
    <3>1. CASE n + 1 \in U
      <4>1. U \ {n + 1} \in A /\ U = (U \ {n + 1}) \cup {n + 1}
        BY <2>1, <3>1
      <4> QED
        BY <4>1
    <3>2. CASE n + 1 \notin U
      BY <2>1, <3>2
    <3> QED
      BY <3>1, <3>2
  <2>3. ASSUME NEW U \in A \cup B PROVE U \in SUBSET (1 .. n + 1)
    BY <2>1
  <2> QED
    BY <2>2, <2>3
<1>3. A \cap B = {}
  OBVIOUS
<1>4. IsFiniteSet(B) /\ Cardinality(B) = Cardinality(A)
  <2> DEFINE f == [S \in A |-> S \cup {n + 1}]
  <2>1. f \in Bijection(A, B)
    <3>1. f \in [A -> B] /\ \A b \in B : \E S \in A : f[S] = b
      OBVIOUS
    <3>2. ASSUME NEW S \in A, NEW U \in A, f[S] = f[U] PROVE S = U
      <4>1. n + 1 \notin S /\ n + 1 \notin U
        OBVIOUS
      <4>2. S \cup {n + 1} = U \cup {n + 1}
        BY <3>2
      <4> QED
        BY <4>1, <4>2
    <3> QED
      BY <3>1, <3>2 DEF Bijection, Injection, Surjection, IsInjective
  <2> HIDE DEF f, A, B
  <2>2. ExistsBijection(A, B)
    BY <2>1 DEF ExistsBijection
  <2> QED
    BY <1>1, <2>2, FS_Bijection
<1> HIDE DEF A, B
<1>5. Cardinality(A \cup B) = Cardinality(A) + Cardinality(B)
  <2>1. Cardinality(A \cup B) = Cardinality(A) + Cardinality(B) - Cardinality(A \cap B)
    BY <1>1, <1>4, FS_Union
  <2>2. Cardinality(A \cap B) = 0 /\ Cardinality(A) \in Nat
    BY <1>1, <1>3, FS_EmptySet, FS_CardinalityType
  <2> QED
    BY <1>4, <2>1, <2>2
<1>6. Cardinality(A) \in Nat
  BY <1>1, FS_CardinalityType
<1>7. A # {}
  BY DEF A
<1>8. Cardinality(A) # 0
  BY <1>1, <1>7, FS_EmptySet
<1>9. 2 ^ 0 = 1
  OBVIOUS
<1>10. 2 ^ n \in Nat \ {0}
  BY <1>1, <1>6, <1>8
<1>11. 2 ^ (n + 1) = Cardinality(A) + Cardinality(B)
  BY <1>1, <1>2, <1>5
<1>12. 2 ^ (n + 1) = 2 ^ n + 2 ^ n
  BY <1>1, <1>4, <1>11
<1> QED
  BY <1>9, <1>10, <1>12

-----------------------------------------------------------------------------
(* Sums over finite sets *)

Picks(c, S) == \A T \in SUBSET S : T # {} => c[T] \in T

(* The recursion of MapThenSumSet over S, and of FoldLeft over the places of a
   sequence, for the values f has on S, where c picks the next element.     *)
SumOf(sum, S, f, c) ==
  sum = [T \in SUBSET S |-> IF T = {} THEN 0 ELSE f[c[T]] + sum[T \ {c[T]}]]

LEMMA SumExists ==
  ASSUME NEW S, IsFiniteSet(S), NEW f \in [S -> Int], NEW c, Picks(c, S)
  PROVE  \E sum \in [SUBSET S -> Int] : SumOf(sum, S, f, c)
<1> DEFINE D == SUBSET S
           I == Int
           Some(T) == c[T]
           Stops == {{}}
           val == [T \in Stops |-> 0]
           next == [T \in D |-> T \ {Some(T)}]
           step == [y \in D \X I |-> IF y[1] = {} THEN 0 ELSE f[Some(y[1])] + y[2]]
           size == [T \in D |-> Cardinality(T)]
           n == Cardinality(S)
<1>1. ASSUME NEW T \in D, T # {}
      PROVE  /\ Some(T) \in T /\ f[Some(T)] \in Int
             /\ T \ {Some(T)} \in D
             /\ Cardinality(T \ {Some(T)}) < Cardinality(T)
  <2>1. IsFiniteSet(T)
    BY FS_Subset
  <2>2. Some(T) \in T
    BY <1>1 DEF Picks
  <2> HIDE DEF Some
  <2>3. Cardinality(T \ {Some(T)}) = Cardinality(T) - 1 /\ Cardinality(T) \in Nat
    BY <2>1, <2>2, FS_RemoveElement, FS_CardinalityType
  <2>4. Cardinality(T \ {Some(T)}) < Cardinality(T)
    BY <2>3
  <2> QED
    BY <2>2, <2>4
<1>2. n \in Nat /\ \A T \in D : Cardinality(T) \in 0 .. n
  <2>1. n \in Nat
    BY FS_CardinalityType
  <2>2. ASSUME NEW T \in D PROVE Cardinality(T) \in 0 .. n
    <3>1. IsFiniteSet(T) /\ Cardinality(T) <= n
      BY FS_Subset
    <3>2. Cardinality(T) \in Nat
      BY <3>1, FS_CardinalityType
    <3> QED
      BY <2>1, <3>1, <3>2
  <2> QED
    BY <2>1, <2>2
<1> HIDE DEF Some
<1>3. size \in [D -> 0 .. n] /\ n \in Nat
  BY <1>2
<1>4. val \in [D \cap Stops -> I]
  OBVIOUS
<1>5. step \in [D \X I -> I]
  <2> SUFFICES ASSUME NEW T \in D, NEW i \in I
               PROVE  (IF T = {} THEN 0 ELSE f[Some(T)] + i) \in I
    OBVIOUS
  <2> DEFINE w == f[Some(T)]
  <2>1. T # {} => w \in Int
    BY <1>1
  <2> HIDE DEF w
  <2>2. (IF T = {} THEN 0 ELSE w + i) \in Int
    BY <2>1
  <2> QED
    BY <2>2 DEF w
<1>6. ASSUME NEW T \in D, T \notin Stops
      PROVE  next[T] \in D /\ size[next[T]] < size[T]
  <2>1. next[T] = T \ {Some(T)} /\ T \ {Some(T)} \in D
    BY <1>1, <1>6
  <2>2. size[T] = Cardinality(T) /\ size[T \ {Some(T)}] = Cardinality(T \ {Some(T)})
    BY <2>1
  <2> QED
    BY <1>1, <1>6, <2>1, <2>2
<1>7. \A T \in D, i \in I : T # {} => step[<<T, i>>] = f[Some(T)] + i
  OBVIOUS
<1>8. \A T \in D : T # {} => next[T] = T \ {Some(T)}
  OBVIOUS
<1>9. val[{}] = 0
  OBVIOUS
<1>n. n \in Nat
  BY <1>2
<1>s. \A T : T \in Stops <=> T = {}
  OBVIOUS
<1>d. D = SUBSET S /\ I = Int
  OBVIOUS
<1> HIDE DEF D, I, Stops, val, next, step, size, n
<1>10. PICK sum \in [D -> I] : StepsFrom(sum, D, Stops, val, next, step)
  BY <1>3, <1>n, <1>4, <1>5, <1>6, StepRecursion
<1>11. ASSUME NEW T \in D
       PROVE  sum[T] = IF T = {} THEN 0 ELSE f[Some(T)] + sum[T \ {Some(T)}]
  <2>1. sum[T] = IF T \in Stops THEN val[T] ELSE step[<<T, sum[next[T]]>>]
    BY <1>10 DEF StepsFrom
  <2>2. CASE T = {}
    BY <1>9, <1>s, <2>1, <2>2
  <2>3. CASE T # {}
    <3>1. next[T] \in D
      BY <1>6, <1>s, <2>3
    <3>2. sum[next[T]] \in I
      BY <3>1
    <3> QED
      BY <1>7, <1>8, <1>s, <2>1, <2>3, <3>2
  <2> QED
    BY <2>2, <2>3
<1>12. sum = [T \in D |-> sum[T]]
  OBVIOUS
<1>13. sum = [T \in D |-> IF T = {} THEN 0 ELSE f[Some(T)] + sum[T \ {Some(T)}]]
  BY <1>11, <1>12
<1>14. SumOf(sum, S, f, c)
  BY <1>13 DEF SumOf, D, Some
<1> QED
  BY <1>14 DEF D, I

(* The sum does not depend on the order of the elements. *)
AddsUp(sum, S, f) ==
  /\ sum[{}] = 0
  /\ \A T \in SUBSET S : sum[T] \in Int
  /\ \A T \in SUBSET S : \A x \in T : sum[T] = f[x] + sum[T \ {x}]

LEMMA Summed ==
  ASSUME NEW S, IsFiniteSet(S), NEW f \in [S -> Int], NEW c, Picks(c, S),
         NEW sum, SumOf(sum, S, f, c)
  PROVE  AddsUp(sum, S, f)
<1> DEFINE D == SUBSET S
           Some(T) == c[T]
           size == [T \in D |-> Cardinality(T)]
           G == {T \in D : sum[T] \in Int /\ \A x \in T : sum[T] = f[x] + sum[T \ {x}]}
<1>1. \A T \in D : sum[T] = IF T = {} THEN 0 ELSE f[Some(T)] + sum[T \ {Some(T)}]
  BY DEF SumOf
<1>2. \A T \in D : T # {} => Some(T) \in T
  BY DEF Picks
<1> HIDE DEF Some
<1>3. \A T \in D : Cardinality(T) \in Nat /\ \A x \in T : Cardinality(T \ {x}) = Cardinality(T) - 1
  BY FS_Subset, FS_RemoveElement, FS_CardinalityType
<1>4. size \in [D -> Nat]
  BY <1>3
<1>5. ASSUME NEW T \in D, \A R \in D : size[R] < size[T] => R \in G
      PROVE  T \in G
  <2>1. CASE T = {}
    <3>1. sum[T] = 0
      BY <1>1, <2>1
    <3> QED
      BY <2>1, <3>1
  <2>2. CASE T # {}
    <3> DEFINE d == Some(T)
    <3>1. d \in T /\ sum[T] = f[d] + sum[T \ {d}]
      BY <1>1, <1>2, <2>2
    <3>2. ASSUME NEW x \in T PROVE T \ {x} \in G
      <4> DEFINE R == T \ {x}
      <4>1. R \in D /\ Cardinality(R) = Cardinality(T) - 1 /\ Cardinality(T) \in Nat
        BY <1>3
      <4> HIDE DEF R, G
      <4>2. size[R] = Cardinality(R) /\ size[T] = Cardinality(T)
        BY <4>1
      <4>3. size[R] < size[T]
        BY <4>1, <4>2
      <4>4. R \in G
        BY <1>5, <4>1, <4>3
      <4> QED
        BY <4>4 DEF R
    <3> HIDE DEF d
    <3>3. ASSUME NEW x \in T PROVE sum[T] = f[x] + sum[T \ {x}]
      <4>1. CASE x = d
        BY <3>1, <4>1
      <4>2. CASE x # d
        <5> DEFINE A == T \ {d}
                   B == T \ {x}
                   C == A \ {x}
        <5>1. x \in A /\ d \in B /\ B \ {d} = C
          BY <3>1, <4>2
        <5>2. A \in G /\ B \in G
          BY <3>1, <3>2
        <5> HIDE DEF A, B, C
        <5>3. sum[A] = f[x] + sum[A \ {x}] /\ sum[B] = f[d] + sum[B \ {d}]
          BY <5>1, <5>2
        <5>4. C \in G
          <6> DEFINE n == Cardinality(T)
          <6>1. C \in D /\ A \in D
            BY DEF A, C
          <6>2. Cardinality(A) = n - 1 /\ Cardinality(C) = Cardinality(A) - 1 /\ n \in Nat
            BY <1>3, <3>1, <5>1, <6>1 DEF A, C
          <6>3. size[C] = Cardinality(C) /\ size[T] = n
            BY <6>1
          <6> HIDE DEF n, G, size
          <6>4. size[C] < size[T]
            BY <6>2, <6>3
          <6> QED
            BY <1>5, <6>1, <6>4
        <5>5. f[x] \in Int /\ f[d] \in Int /\ sum[C] \in Int
          BY <3>1, <5>4
        <5> DEFINE u == f[x]
                   v == f[d]
                   w == sum[C]
        <5>6. sum[T] = v + (u + w) /\ sum[B] = v + w
          BY <3>1, <5>1, <5>3 DEF A, C
        <5>7. u \in Int /\ v \in Int /\ w \in Int
          BY <5>5
        <5> HIDE DEF u, v, w
        <5>8. sum[T] = u + sum[B]
          BY <5>6, <5>7
        <5> QED
          BY <5>8 DEF u, B
      <4> QED
        BY <4>1, <4>2
    <3>4. sum[T] \in Int
      <4>1. f[d] \in Int /\ sum[T \ {d}] \in Int
        BY <3>1, <3>2
      <4> QED
        BY <3>1, <4>1
    <3> QED
      BY <3>3, <3>4
  <2> QED
    BY <2>1, <2>2
<1> HIDE DEF G, size, D
<1>6. D \subseteq G
  BY <1>4, <1>5, InductionOnSize
<1>7. sum[{}] = 0
  BY <1>1 DEF D
<1> QED
  BY <1>6, <1>7 DEF G, D, AddsUp

(* Where f is zero nothing is added. *)
LEMMA SumOfZeros ==
  ASSUME NEW S, IsFiniteSet(S), NEW f \in [S -> Int], NEW sum, AddsUp(sum, S, f),
         NEW T \in SUBSET S, \A x \in T : f[x] = 0
  PROVE  sum[T] = 0
<1> DEFINE G == {R \in SUBSET T : sum[R] = 0}
<1>1. {} \in G
  BY DEF AddsUp
<1>2. ASSUME NEW R \in SUBSET T, NEW x \in R, R \ {x} \in G PROVE R \in G
  <2>1. sum[R] = f[x] + sum[R \ {x}]
    BY DEF AddsUp
  <2>2. f[x] = 0 /\ sum[R \ {x}] = 0
    BY <1>2
  <2> QED
    BY <2>1, <2>2
<1>3. IsFiniteSet(T)
  BY FS_Subset
<1> HIDE DEF G
<1>4. SUBSET T \subseteq G
  BY <1>1, <1>2, <1>3, InductionOnSubsets
<1> QED
  BY <1>4 DEF G

(* A sum of sizes is the size of the union, for sets that do not meet. *)
CountsApart(f, N, S) ==
  /\ \A x \in S : IsFiniteSet(N[x]) /\ f[x] = Cardinality(N[x])
  /\ \A x, y \in S : x # y => N[x] \cap N[y] = {}

AllOf(N, S) == UNION {N[x] : x \in S}

LEMMA SumOfCounts ==
  ASSUME NEW S, IsFiniteSet(S), NEW f \in [S -> Int], NEW sum, AddsUp(sum, S, f), NEW N,
         CountsApart(f, N, S)
  PROVE  /\ IsFiniteSet(AllOf(N, S))
         /\ sum[S] = Cardinality(AllOf(N, S))
<1>1. /\ \A x \in S : IsFiniteSet(N[x]) /\ f[x] = Cardinality(N[x])
      /\ \A x, y \in S : x # y => N[x] \cap N[y] = {}
  BY DEF CountsApart
<1>2. \A T \in SUBSET S : \A x \in T : sum[T] = f[x] + sum[T \ {x}]
  BY DEF AddsUp
<1> DEFINE All(T) == AllOf(N, T)
           G == {T \in SUBSET S : IsFiniteSet(All(T)) /\ sum[T] = Cardinality(All(T))}
<1>3. {} \in G
  <2>1. All({}) = {} /\ sum[{}] = 0
    BY DEF AddsUp, AllOf
  <2> HIDE DEF All
  <2> QED
    BY <2>1, FS_EmptySet
<1>4. ASSUME NEW T \in SUBSET S, NEW x \in T, T \ {x} \in G PROVE T \in G
  <2> DEFINE R == T \ {x}
             X == All(R)
             Y == N[x]
  <2>1. IsFiniteSet(X) /\ sum[R] = Cardinality(X)
    BY <1>4
  <2>2. IsFiniteSet(Y) /\ f[x] = Cardinality(Y)
    BY <1>1
  <2>3. X \cap Y = {} /\ All(T) = X \cup Y
    BY <1>1 DEF AllOf
  <2>4. sum[T] = f[x] + sum[R]
    BY <1>2
  <2> HIDE DEF All, X, Y, R
  <2>5. /\ IsFiniteSet(X \cup Y)
        /\ Cardinality(X \cup Y) = Cardinality(X) + Cardinality(Y) - Cardinality(X \cap Y)
    BY <2>1, <2>2, FS_Union
  <2>6. Cardinality(X \cap Y) = 0
    BY <2>3, FS_EmptySet
  <2>7. Cardinality(X) \in Nat /\ Cardinality(Y) \in Nat
    BY <2>1, <2>2, FS_CardinalityType
  <2>8. Cardinality(X \cup Y) = sum[T]
    BY <2>1, <2>2, <2>4, <2>5, <2>6, <2>7
  <2> QED
    BY <2>3, <2>5, <2>8
<1> HIDE DEF G
<1>5. SUBSET S \subseteq G
  BY <1>3, <1>4, InductionOnSubsets
<1>6. S \in G
  BY <1>5
<1> QED
  BY <1>6 DEF G

(* Two sums of the same values agree. *)
LEMMA SumsAgree ==
  ASSUME NEW S, NEW T, NEW f, NEW g, NEW sum, NEW total,
         AddsUp(sum, S, f), AddsUp(total, T, g),
         NEW R, IsFiniteSet(R), R \subseteq S, R \subseteq T, \A x \in R : f[x] = g[x]
  PROVE  sum[R] = total[R]
<1> DEFINE G == {Q \in SUBSET R : sum[Q] = total[Q]}
<1>1. {} \in G
  BY DEF AddsUp
<1>2. ASSUME NEW Q \in SUBSET R, NEW x \in Q, Q \ {x} \in G PROVE Q \in G
  <2>1. sum[Q] = f[x] + sum[Q \ {x}] /\ total[Q] = g[x] + total[Q \ {x}]
    BY DEF AddsUp
  <2> QED
    BY <1>2, <2>1
<1> HIDE DEF G
<1>3. SUBSET R \subseteq G
  BY <1>1, <1>2, InductionOnSubsets
<1>4. R \in G
  BY <1>3
<1> QED
  BY <1>4 DEF G

(* Running sums of weights. *)
Running(f, w, n) ==
  f \in [0 .. n -> Int] /\ w \in [1 .. n -> Int] /\ \A k \in 1 .. n : f[k] = f[k - 1] + w[k]

(* Equal weights lead to equal growth. *)
SameWeights(w, v, a, b, c) == \A j \in 1 .. c : w[a + j] = v[b + j]
SameGrowth(f, g, a, b, c) == \A j \in 0 .. c : g[b + j] - f[a + j] = g[b] - f[a]

LEMMA RunningAlike ==
  ASSUME NEW n \in Nat, NEW f, NEW w, Running(f, w, n),
         NEW m \in Nat, NEW g, NEW v, Running(g, v, m),
         NEW a \in Nat, NEW b \in Nat, NEW c \in Nat, a + c <= n, b + c <= m,
         SameWeights(w, v, a, b, c)
  PROVE  SameGrowth(f, g, a, b, c)
<1> DEFINE T == {j \in 0 .. c : g[b + j] - f[a + j] = g[b] - f[a]}
<1>1. 0 \in T
  OBVIOUS
<1>2. ASSUME NEW j \in 1 .. c, j - 1 \in T PROVE j \in T
  <2> DEFINE x == f[a + (j - 1)]
             y == g[b + (j - 1)]
             u == w[a + j]
  <2>1. a + j \in 1 .. n /\ b + j \in 1 .. m /\ (a + j) - 1 = a + (j - 1) /\ (b + j) - 1 = b + (j - 1)
    OBVIOUS
  <2>2. f[a + j] = x + u /\ g[b + j] = y + u
    BY <2>1 DEF Running, SameWeights
  <2>3. x \in Int /\ y \in Int /\ u \in Int
    <3>1. a + (j - 1) \in 0 .. n /\ b + (j - 1) \in 0 .. m
      OBVIOUS
    <3> QED
      BY <2>1, <3>1 DEF Running
  <2>4. y - x = g[b] - f[a]
    BY <1>2
  <2> HIDE DEF x, y, u
  <2>5. (y + u) - (x + u) = y - x
    BY <2>3
  <2>6. g[b + j] - f[a + j] = g[b] - f[a]
    BY <2>2, <2>4, <2>5
  <2> QED
    BY <2>6
<1> HIDE DEF T
<1>3. 0 .. c \subseteq T
  BY <1>1, <1>2, InductionUpTo
<1> QED
  BY <1>3 DEF T, SameGrowth

(* With weights that are not negative the sums never fall. *)
LEMMA RunningGrows ==
  ASSUME NEW n \in Nat, NEW f, NEW w, Running(f, w, n), \A k \in 1 .. n : w[k] >= 0
  PROVE  \A i, j \in 0 .. n : i <= j => f[i] <= f[j]
<1> SUFFICES ASSUME NEW i \in 0 .. n, NEW j \in 0 .. n, i <= j PROVE f[i] <= f[j]
  OBVIOUS
<1> DEFINE T == {k \in 0 .. n : i <= k => f[i] <= f[k]}
<1>1. \A k \in 0 .. n : f[k] \in Int
  BY DEF Running
<1>2. 0 \in T
  BY <1>1
<1>3. ASSUME NEW k \in 1 .. n, k - 1 \in T PROVE k \in T
  <2>1. f[k] = f[k - 1] + w[k] /\ w[k] \in Int /\ w[k] >= 0
    BY DEF Running
  <2>2. k - 1 \in 0 .. n /\ f[k - 1] \in Int /\ f[k] \in Int /\ f[i] \in Int
    BY <1>1
  <2>3. CASE i = k
    BY <2>2, <2>3
  <2>4. CASE i # k
    <3>1. i <= k => i <= k - 1
      BY <2>4
    <3>2. i <= k => f[i] <= f[k - 1]
      BY <1>3, <3>1
    <3> QED
      BY <2>1, <2>2, <3>2
  <2> QED
    BY <2>3, <2>4
<1> HIDE DEF T
<1>4. 0 .. n \subseteq T
  BY <1>2, <1>3, InductionUpTo
<1> QED
  BY <1>4 DEF T

-----------------------------------------------------------------------------
(* Lists as sequences *)

LEMMA ToSetOfSeq ==
  ASSUME NEW S, NEW s \in Seq(S)
  PROVE  ToSet(s) = {s[i] : i \in 1 .. Len(s)} /\ ToSet(s) \subseteq S /\ IsFiniteSet(ToSet(s))
<1>1. DOMAIN s = 1 .. Len(s) /\ Len(s) \in Nat /\ s \in [1 .. Len(s) -> S]
  BY LenProperties
<1>2. ToSet(s) = {s[i] : i \in 1 .. Len(s)} /\ ToSet(s) \subseteq S
  BY <1>1 DEF ToSet
<1>3. s \in Surjection(1 .. Len(s), ToSet(s))
  BY <1>1, <1>2 DEF Surjection
<1>4. IsFiniteSet(1 .. Len(s))
  BY <1>1, FS_Interval
<1> QED
  BY <1>2, <1>3, <1>4, FS_Surjection

(* A list without repetitions is as long as the set of its members. *)
LEMMA LengthOfInjective ==
  ASSUME NEW S, NEW s \in Seq(S), IsInjective(s)
  PROVE  Cardinality(ToSet(s)) = Len(s)
<1>1. DOMAIN s = 1 .. Len(s) /\ Len(s) \in Nat /\ s \in [1 .. Len(s) -> S]
  BY LenProperties
<1>2. ToSet(s) = {s[i] : i \in 1 .. Len(s)}
  BY ToSetOfSeq
<1>3. s \in Bijection(1 .. Len(s), ToSet(s))
  BY <1>1, <1>2 DEF Bijection, Surjection, Injection, IsInjective
<1> QED
  BY <1>1, <1>3, FS_CountingElements DEF ExistsBijection

LEMMA CountUpTo ==
  ASSUME NEW n \in Nat
  PROVE  IsFiniteSet(1 .. n) /\ Cardinality(1 .. n) = n
<1>1. IsFiniteSet(1 .. n) /\ Cardinality(1 .. n) = IF 1 > n THEN 0 ELSE n - 1 + 1
  BY FS_Interval
<1> QED
  BY <1>1

(* A list as long as the set of its members has no repetitions. *)
LEMMA InjectiveOfLength ==
  ASSUME NEW S, NEW s \in Seq(S), Cardinality(ToSet(s)) = Len(s)
  PROVE  IsInjective(s)
<1>1. DOMAIN s = 1 .. Len(s) /\ Len(s) \in Nat /\ s \in [1 .. Len(s) -> S]
  BY LenProperties
<1>2. s \in Surjection(1 .. Len(s), ToSet(s))
  BY <1>1 DEF Surjection, ToSet
<1>3. IsFiniteSet(1 .. Len(s)) /\ Cardinality(1 .. Len(s)) = Len(s)
  BY <1>1, CountUpTo
<1>4. s \in Injection(1 .. Len(s), ToSet(s))
  BY <1>2, <1>3, FS_Surjection
<1> QED
  BY <1>4 DEF Injection

LEMMA EmptyList == ToSet(<<>>) = {} /\ IsInjective(<<>>) /\ Len(<<>>) = 0
BY DEF ToSet, IsInjective

LEMMA SingleList ==
  ASSUME NEW S, NEW e \in S
  PROVE  /\ <<e>> \in Seq(S) /\ Len(<<e>>) = 1 /\ ToSet(<<e>>) = {e} /\ IsInjective(<<e>>)
<1>1. <<e>> \in Seq(S) /\ Len(<<e>>) = 1 /\ <<e>>[1] = e
  OBVIOUS
<1>2. DOMAIN <<e>> = 1 .. 1
  BY <1>1, LenProperties
<1> QED
  BY <1>1, <1>2 DEF ToSet, IsInjective

(* Joining two lists that share nothing. *)
LEMMA Joined ==
  ASSUME NEW S, NEW s \in Seq(S), NEW t \in Seq(S)
  PROVE  /\ s \o t \in Seq(S)
         /\ Len(s \o t) = Len(s) + Len(t)
         /\ ToSet(s \o t) = ToSet(s) \cup ToSet(t)
         /\ IsInjective(s) /\ IsInjective(t) /\ ToSet(s) \cap ToSet(t) = {}
              => IsInjective(s \o t)
<1> DEFINE r == s \o t
<1>1. /\ r \in Seq(S) /\ Len(r) = Len(s) + Len(t)
      /\ \A i \in 1 .. Len(s) + Len(t) : r[i] = IF i <= Len(s) THEN s[i] ELSE t[i - Len(s)]
  BY ConcatProperties
<1>2. /\ Len(s) \in Nat /\ DOMAIN s = 1 .. Len(s)
      /\ Len(t) \in Nat /\ DOMAIN t = 1 .. Len(t) /\ DOMAIN r = 1 .. Len(r)
  BY <1>1, LenProperties
<1>3. ToSet(r) = ToSet(s) \cup ToSet(t)
  <2>1. \A u : ToSet(u) = Range(u)
    BY DEF ToSet, Range
  <2>2. Range(s \o t) = Range(s) \cup Range(t)
    BY RangeConcatenation
  <2> QED
    BY <2>1, <2>2
<1>4. ASSUME IsInjective(s), IsInjective(t), ToSet(s) \cap ToSet(t) = {}
      PROVE  IsInjective(r)
  <2> SUFFICES ASSUME NEW i \in 1 .. Len(r), NEW j \in 1 .. Len(r), r[i] = r[j] PROVE i = j
    BY <1>2 DEF IsInjective
  <2> HIDE DEF r
  <2>0. \A k \in 1 .. Len(s) : s[k] \in ToSet(s)
    BY <1>2 DEF ToSet
  <2>01. \A k \in 1 .. Len(t) : t[k] \in ToSet(t)
    BY <1>2 DEF ToSet
  <2>1. CASE i <= Len(s) /\ j <= Len(s)
    BY <1>1, <1>2, <1>4, <2>1 DEF IsInjective
  <2>2. CASE i > Len(s) /\ j > Len(s)
    <3>1. i - Len(s) \in 1 .. Len(t) /\ j - Len(s) \in 1 .. Len(t)
      BY <1>1, <1>2, <2>2
    <3>2. t[i - Len(s)] = t[j - Len(s)]
      BY <1>1, <1>2, <2>2
    <3>3. i - Len(s) = j - Len(s)
      BY <1>2, <1>4, <3>1, <3>2 DEF IsInjective
    <3> QED
      BY <1>2, <3>3
  <2>3. CASE i <= Len(s) /\ j > Len(s)
    <3>1. i \in 1 .. Len(s) /\ j - Len(s) \in 1 .. Len(t)
      BY <1>1, <1>2, <2>3
    <3>2. r[i] = s[i] /\ r[j] = t[j - Len(s)]
      BY <1>1, <1>2, <2>3
    <3> QED
      BY <1>4, <2>0, <2>01, <3>1, <3>2
  <2>4. CASE j <= Len(s) /\ i > Len(s)
    <3>1. j \in 1 .. Len(s) /\ i - Len(s) \in 1 .. Len(t)
      BY <1>1, <1>2, <2>4
    <3>2. r[j] = s[j] /\ r[i] = t[i - Len(s)]
      BY <1>1, <1>2, <2>4
    <3> QED
      BY <1>4, <2>0, <2>01, <3>1, <3>2
  <2> QED
    BY <1>1, <1>2, <2>1, <2>2, <2>3, <2>4
<1> QED
  BY <1>1, <1>3, <1>4

LEMMA Appended ==
  ASSUME NEW S, NEW s \in Seq(S), NEW e \in S
  PROVE  /\ Append(s, e) \in Seq(S)
         /\ Len(Append(s, e)) = Len(s) + 1
         /\ ToSet(Append(s, e)) = ToSet(s) \cup {e}
         /\ IsInjective(s) /\ e \notin ToSet(s) => IsInjective(Append(s, e))
<1>1. Append(s, e) = s \o <<e>>
  BY AppendIsConcat
<1>2. /\ <<e>> \in Seq(S) /\ Len(<<e>>) = 1 /\ ToSet(<<e>>) = {e} /\ IsInjective(<<e>>)
  BY SingleList
<1>3. e \notin ToSet(s) => ToSet(s) \cap {e} = {}
  OBVIOUS
<1> DEFINE t == <<e>>
<1> HIDE DEF t
<1>4. /\ t \in Seq(S) /\ Len(t) = 1 /\ ToSet(t) = {e} /\ IsInjective(t) /\ Append(s, e) = s \o t
  BY <1>1, <1>2 DEF t
<1> QED
  BY <1>3, <1>4, Joined

LEMMA Prepended ==
  ASSUME NEW S, NEW s \in Seq(S), NEW e \in S
  PROVE  /\ <<e>> \o s \in Seq(S)
         /\ Len(<<e>> \o s) = Len(s) + 1
         /\ ToSet(<<e>> \o s) = ToSet(s) \cup {e}
         /\ IsInjective(s) /\ e \notin ToSet(s) => IsInjective(<<e>> \o s)
<1>1. /\ <<e>> \in Seq(S) /\ Len(<<e>>) = 1 /\ ToSet(<<e>>) = {e} /\ IsInjective(<<e>>)
  BY SingleList
<1>2. e \notin ToSet(s) => {e} \cap ToSet(s) = {}
  OBVIOUS
<1> DEFINE t == <<e>>
<1> HIDE DEF t
<1>3. /\ t \in Seq(S) /\ Len(t) = 1 /\ ToSet(t) = {e} /\ IsInjective(t)
      /\ <<e>> \o s = t \o s
  BY <1>1 DEF t
<1>4. Len(s) \in Nat
  BY LenProperties
<1> QED
  BY <1>2, <1>3, <1>4, Joined

(* Unlinking the one occurrence of a member. *)
LEMMA RemovedAt ==
  ASSUME NEW S, NEW s \in Seq(S), NEW i \in 1 .. Len(s)
  PROVE  /\ RemoveAt(s, i) \in Seq(S)
         /\ Len(RemoveAt(s, i)) = Len(s) - 1
         /\ \A k \in 1 .. Len(s) - 1 :
              RemoveAt(s, i)[k] = IF k < i THEN s[k] ELSE s[k + 1]
<1> DEFINE a == SubSeq(s, 1, i - 1)
           b == SubSeq(s, i + 1, Len(s))
<1>0. Len(s) \in Nat /\ \A k \in 1 .. Len(s) : s[k] \in S
  BY LenProperties
<1>1. /\ a \in Seq(S) /\ Len(a) = i - 1 /\ \A k \in 1 .. i - 1 : a[k] = s[k]
  BY <1>0, SubSeqProperties
<1>2. /\ b \in Seq(S) /\ Len(b) = Len(s) - i /\ \A k \in 1 .. Len(s) - i : b[k] = s[k + i]
  BY <1>0, SubSeqProperties
<1> HIDE DEF a, b
<1>3. RemoveAt(s, i) = a \o b
  BY DEF RemoveAt, a, b
<1>4. /\ a \o b \in Seq(S) /\ Len(a \o b) = Len(s) - 1
      /\ \A k \in 1 .. Len(s) - 1 : (a \o b)[k] = IF k <= i - 1 THEN a[k] ELSE b[k - (i - 1)]
  <2>1. /\ a \o b \in Seq(S) /\ Len(a \o b) = Len(a) + Len(b)
        /\ \A k \in 1 .. Len(a) + Len(b) : (a \o b)[k] = IF k <= Len(a) THEN a[k] ELSE b[k - Len(a)]
    BY <1>1, <1>2, ConcatProperties
  <2>2. Len(a) + Len(b) = Len(s) - 1
    BY <1>0, <1>1, <1>2
  <2> QED
    BY <1>1, <2>1, <2>2
<1>5. ASSUME NEW k \in 1 .. Len(s) - 1 PROVE (a \o b)[k] = IF k < i THEN s[k] ELSE s[k + 1]
  <2>1. CASE k < i
    BY <1>0, <1>1, <1>4, <2>1
  <2>2. CASE ~ (k < i)
    <3>1. k - (i - 1) \in 1 .. Len(s) - i
      BY <1>0, <2>2
    <3>2. b[k - (i - 1)] = s[k + 1]
      <4>1. (k - (i - 1)) + i = k + 1
        BY <1>0
      <4>2. b[k - (i - 1)] = s[(k - (i - 1)) + i]
        BY <1>2, <3>1
      <4> QED
        BY <4>1, <4>2
    <3> QED
      BY <1>0, <1>4, <2>2, <3>2
  <2> QED
    BY <2>1, <2>2
<1> QED
  BY <1>3, <1>4, <1>5

LEMMA Removed ==
  ASSUME NEW S, NEW s \in Seq(S), IsInjective(s), NEW e \in ToSet(s)
  PROVE  /\ RemoveFirst(s, e) \in Seq(S)
         /\ Len(RemoveFirst(s, e)) = Len(s) - 1
         /\ ToSet(RemoveFirst(s, e)) = ToSet(s) \ {e}
         /\ IsInjective(RemoveFirst(s, e))
<1>0. Len(s) \in Nat /\ DOMAIN s = 1 .. Len(s)
  BY LenProperties
<1>1. PICK i \in 1 .. Len(s) : s[i] = e
  BY <1>0 DEF ToSet
<1>2. \A j \in 1 .. Len(s) : s[j] = e => j = i
  BY <1>0, <1>1 DEF IsInjective
<1> DEFINE I == {j \in 1 .. Len(s) : s[j] = e}
<1>3. I = {i}
  BY <1>1, <1>2
<1>4. Min(I) = i
  BY <1>3 DEF Min
<1>5. SelectInSeq(s, LAMBDA v : v = e) = i
  BY <1>3, <1>4 DEF SelectInSeq
<1>6. RemoveFirst(s, e) = RemoveAt(s, i)
  BY <1>1, <1>5 DEF RemoveFirst
<1> DEFINE r == RemoveAt(s, i)
<1>7. /\ r \in Seq(S) /\ Len(r) = Len(s) - 1
      /\ \A k \in 1 .. Len(s) - 1 : r[k] = IF k < i THEN s[k] ELSE s[k + 1]
  BY RemovedAt
<1> HIDE DEF r
<1>8. DOMAIN r = 1 .. Len(s) - 1
  BY <1>7, LenProperties
<1>9. IsInjective(r)
  <2> SUFFICES ASSUME NEW j \in 1 .. Len(s) - 1, NEW k \in 1 .. Len(s) - 1, r[j] = r[k]
               PROVE  j = k
    BY <1>8 DEF IsInjective
  <2> DEFINE at(m) == IF m < i THEN m ELSE m + 1
  <2>1. \A m \in 1 .. Len(s) - 1 : at(m) \in 1 .. Len(s) /\ r[m] = s[at(m)]
    BY <1>0, <1>7
  <2>2. at(j) = at(k)
    BY <1>0, <2>1 DEF IsInjective
  <2> QED
    BY <1>0, <2>2
<1>10. ToSet(r) \subseteq ToSet(s) \ {e}
  <2> SUFFICES ASSUME NEW k \in 1 .. Len(s) - 1 PROVE r[k] \in ToSet(s) \ {e}
    BY <1>8 DEF ToSet
  <2>1. CASE k < i
    <3>1. k \in 1 .. Len(s) /\ k # i /\ r[k] = s[k]
      BY <1>0, <1>7, <2>1
    <3> QED
      BY <1>0, <1>2, <3>1 DEF ToSet
  <2>2. CASE ~ (k < i)
    <3>1. k + 1 \in 1 .. Len(s) /\ k + 1 # i /\ r[k] = s[k + 1]
      BY <1>0, <1>7, <2>2
    <3> QED
      BY <1>0, <1>2, <3>1 DEF ToSet
  <2> QED
    BY <2>1, <2>2
<1>11. ToSet(s) \ {e} \subseteq ToSet(r)
  <2> SUFFICES ASSUME NEW j \in 1 .. Len(s), s[j] # e PROVE s[j] \in ToSet(r)
    BY <1>0 DEF ToSet
  <2>1. CASE j < i
    <3>1. j \in 1 .. Len(s) - 1 /\ r[j] = s[j]
      BY <1>0, <1>7, <2>1
    <3> QED
      BY <1>8, <3>1 DEF ToSet
  <2>2. CASE j > i
    <3>1. j - 1 \in 1 .. Len(s) - 1 /\ r[j - 1] = s[j]
      BY <1>0, <1>7, <2>2
    <3> QED
      BY <1>8, <3>1 DEF ToSet
  <2> QED
    BY <1>0, <1>1, <2>1, <2>2
<1> QED
  BY <1>6, <1>7, <1>9, <1>10, <1>11 DEF r

LEMMA Reversed ==
  ASSUME NEW S, NEW s \in Seq(S)
  PROVE  /\ Reverse(s) \in Seq(S)
         /\ Len(Reverse(s)) = Len(s)
         /\ ToSet(Reverse(s)) = ToSet(s)
         /\ IsInjective(s) => IsInjective(Reverse(s))
<1> DEFINE r == Reverse(s)
           n == Len(s)
<1>1. n \in Nat /\ s \in [1 .. n -> S] /\ DOMAIN s = 1 .. n
  BY LenProperties
<1>2. r = [i \in 1 .. n |-> s[(n - i) + 1]]
  BY DEF Reverse
<1> HIDE DEF n
<1>3. \A i \in 1 .. n : (n - i) + 1 \in 1 .. n /\ (n - ((n - i) + 1)) + 1 = i
  BY <1>1
<1>4. r \in [1 .. n -> S]
  BY <1>1, <1>2, <1>3
<1> HIDE DEF r
<1>5. r \in Seq(S)
  BY <1>1, <1>4, SeqDef
<1>6. Len(r) = n
  BY <1>1, <1>4, <1>5, LenProperties
<1>7. DOMAIN r = 1 .. n
  BY <1>4
<1>8. ToSet(r) = ToSet(s)
  <2>1. ASSUME NEW i \in 1 .. n PROVE r[i] \in ToSet(s)
    BY <1>1, <1>2, <1>3 DEF ToSet
  <2>2. ASSUME NEW i \in 1 .. n PROVE s[i] \in ToSet(r)
    <3>1. (n - i) + 1 \in 1 .. n /\ r[(n - i) + 1] = s[i]
      BY <1>1, <1>2, <1>3
    <3> QED
      BY <1>7, <3>1 DEF ToSet
  <2>3. ToSet(r) \subseteq ToSet(s)
    BY <1>7, <2>1 DEF ToSet
  <2>4. ToSet(s) \subseteq ToSet(r)
    BY <1>1, <2>2 DEF ToSet
  <2> QED
    BY <2>3, <2>4
<1>9. ASSUME IsInjective(s) PROVE IsInjective(r)
  <2> SUFFICES ASSUME NEW i \in 1 .. n, NEW j \in 1 .. n, r[i] = r[j] PROVE i = j
    BY <1>7 DEF IsInjective
  <2>1. s[(n - i) + 1] = s[(n - j) + 1]
    BY <1>2
  <2>2. (n - i) + 1 = (n - j) + 1
    BY <1>1, <1>3, <1>9, <2>1 DEF IsInjective
  <2> QED
    BY <1>1, <2>2
<1> QED
  BY <1>5, <1>6, <1>8, <1>9 DEF r, n

(* The first k of a list. *)
LEMMA Cut ==
  ASSUME NEW S, NEW s \in Seq(S), IsInjective(s), NEW k \in 0 .. Len(s)
  PROVE  /\ SubSeq(s, 1, k) \in Seq(S) /\ Len(SubSeq(s, 1, k)) = k
         /\ ToSet(SubSeq(s, 1, k)) \subseteq ToSet(s)
         /\ IsInjective(SubSeq(s, 1, k))
         /\ k < Len(s) => /\ s[k + 1] \in ToSet(s)
                          /\ s[k + 1] \notin ToSet(SubSeq(s, 1, k))
<1> DEFINE c == SubSeq(s, 1, k)
<1>1. Len(s) \in Nat /\ DOMAIN s = 1 .. Len(s) /\ \A i \in 1 .. Len(s) : s[i] \in S
  BY LenProperties
<1>2. 1 \in Int /\ k \in Int /\ k \in Nat /\ \A i \in 1 .. k : i \in 1 .. Len(s) /\ s[i] \in S
  BY <1>1
<1>3. /\ c \in Seq(S) /\ Len(c) = IF 1 <= k THEN k - 1 + 1 ELSE 0
      /\ \A i \in 1 .. k - 1 + 1 : c[i] = s[1 + i - 1]
  BY <1>2, SubSeqProperties
<1> HIDE DEF c
<1>4. Len(c) = k /\ \A i \in 1 .. k : c[i] = s[i]
  BY <1>2, <1>3
<1>5. ToSet(c) = {c[i] : i \in 1 .. k} /\ ToSet(s) = {s[i] : i \in 1 .. Len(s)}
  BY <1>3, <1>4, ToSetOfSeq
<1>6. ToSet(c) \subseteq ToSet(s)
  BY <1>2, <1>4, <1>5
<1>7. IsInjective(c)
  <2>1. DOMAIN c = 1 .. k
    BY <1>3, <1>4, LenProperties
  <2> QED
    BY <1>1, <1>2, <1>4, <2>1 DEF IsInjective
<1>8. ASSUME k < Len(s) PROVE s[k + 1] \in ToSet(s) /\ s[k + 1] \notin ToSet(c)
  <2>1. k + 1 \in 1 .. Len(s) /\ k + 1 \notin 1 .. k
    BY <1>1, <1>2, <1>8
  <2>2. \A i \in 1 .. k : i \in 1 .. Len(s) /\ i # k + 1
    BY <1>2, <2>1
  <2>3. \A i \in 1 .. k : s[i] # s[k + 1]
    BY <1>1, <2>1, <2>2 DEF IsInjective
  <2> QED
    BY <1>4, <1>5, <2>1, <2>3
<1> QED
  BY <1>3, <1>4, <1>6, <1>7, <1>8 DEF c

(* A finite set put in a row. *)
LEMMA SetInARow ==
  ASSUME NEW S, IsFiniteSet(S)
  PROVE  /\ SetToSeq(S) \in Seq(S) /\ Len(SetToSeq(S)) = Cardinality(S)
         /\ IsInjective(SetToSeq(S))
<1> DEFINE n == Cardinality(S)
<1>1. n \in Nat /\ ExistsBijection(1 .. n, S)
  BY FS_CardinalityType
<1>2. PICK f \in Bijection(1 .. n, S) : TRUE
  BY <1>1 DEF ExistsBijection
<1>3. f \in [1 .. n -> S] /\ IsInjective(f)
  BY <1>2 DEF Bijection, Injection
<1>4. SetToSeq(S) \in [1 .. n -> S] /\ IsInjective(SetToSeq(S))
  BY <1>3 DEF SetToSeq
<1> HIDE DEF n
<1>5. SetToSeq(S) \in Seq(S) /\ Len(SetToSeq(S)) = n
  BY <1>1, <1>4
<1> QED
  BY <1>4, <1>5 DEF n

(* FlattenSeq joins its lists one after the other. *)
LEMMA FlattenRecursion ==
  ASSUME NEW S, NEW lists \in Seq(Seq(S)), Len(lists) # 0
  PROVE  \E f \in [1 .. Len(lists) -> Seq(S)] :
           /\ f[1] = lists[1]
           /\ \A i \in 2 .. Len(lists) : f[i] = f[i - 1] \o lists[i]
           /\ FlattenSeq(lists) = f[Len(lists)]
<1> DEFINE n == Len(lists)
           step == [p \in (1 .. n) \X Seq(S) |-> p[2] \o lists[p[1]]]
           Goes(f) == f = [i \in 1 .. n |-> IF i = 1 THEN lists[i] ELSE f[i - 1] \o lists[i]]
           flat == CHOOSE f : Goes(f)
<1>1. n \in Nat \ {0} /\ lists \in [1 .. n -> Seq(S)]
  BY LenProperties
<1>2. FlattenSeq(lists) = flat[n]
  BY DEF FlattenSeq
<1> HIDE DEF n
<1>3. step \in [(1 .. n) \X Seq(S) -> Seq(S)]
  <2> SUFFICES ASSUME NEW p \in (1 .. n) \X Seq(S) PROVE p[2] \o lists[p[1]] \in Seq(S)
    OBVIOUS
  <2>1. p[2] \in Seq(S) /\ lists[p[1]] \in Seq(S)
    BY <1>1
  <2> QED
    BY <2>1, ConcatProperties
<1>4. \A i \in 1 .. n, t \in Seq(S) : step[<<i, t>>] = t \o lists[i]
  OBVIOUS
<1>5. <<>> \in Seq(S)
  OBVIOUS
<1> HIDE DEF step
<1>6. PICK g \in [0 .. n -> Seq(S)] : Iterates(g, n, <<>>, step)
  BY <1>1, <1>3, <1>5, Iteration
<1> DEFINE h == [i \in 1 .. n |-> g[i]]
<1>7. h \in [1 .. n -> Seq(S)]
  BY <1>6
<1>8. ASSUME NEW i \in 1 .. n PROVE g[i] = g[i - 1] \o lists[i]
  <2>1. g[i - 1] \in Seq(S)
    BY <1>1, <1>6
  <2> QED
    BY <1>4, <1>6, <2>1 DEF Iterates
<1>9. g[1] = lists[1]
  <2>1. 1 \in 1 .. n /\ lists[1] \in Seq(S)
    BY <1>1
  <2>2. g[1] = g[1 - 1] \o lists[1]
    BY <1>8, <2>1
  <2>3. g[1] = <<>> \o lists[1]
    <3>1. g[1 - 1] = <<>>
      BY <1>6, 1 - 1 = 0 DEF Iterates
    <3> QED
      BY <2>2, <3>1
  <2> QED
    BY <2>1, <2>3, ConcatEmptySeq
<1>10. Goes(h)
  <2>1. ASSUME NEW i \in 1 .. n
        PROVE  h[i] = IF i = 1 THEN lists[i] ELSE h[i - 1] \o lists[i]
    <3>1. CASE i = 1
      BY <1>9, <3>1
    <3>2. CASE i # 1
      <4>1. i - 1 \in 1 .. n
        BY <1>1, <3>2
      <4> QED
        BY <1>8, <3>2, <4>1
    <3> QED
      BY <3>1, <3>2
  <2> HIDE DEF h
  <2>2. h = [i \in 1 .. n |-> h[i]]
    BY <1>7
  <2> QED
    BY <2>1, <2>2
<1> HIDE DEF h, Goes
<1>11. Goes(flat)
  BY <1>10
<1> USE DEF Goes
<1> HIDE DEF flat
<1>12. \A f : Goes(f) => DOMAIN f = 1 .. n
  BY DEF Goes
<1>13. flat \in [1 .. n -> Seq(S)]
  <2> DEFINE T == {0} \cup {i \in 1 .. n : flat[i] \in Seq(S)}
  <2>1. 0 \in T
    OBVIOUS
  <2>2. ASSUME NEW i \in 1 .. n, i - 1 \in T PROVE i \in T
    <3>1. flat[i] = IF i = 1 THEN lists[i] ELSE flat[i - 1] \o lists[i]
      BY <1>11
    <3>2. CASE i = 1
      BY <1>1, <3>1, <3>2
    <3>3. CASE i # 1
      <4>1. flat[i - 1] \in Seq(S) /\ lists[i] \in Seq(S)
        BY <1>1, <2>2, <3>3
      <4>2. flat[i - 1] \o lists[i] \in Seq(S)
        BY <4>1, ConcatProperties
      <4> QED
        BY <3>1, <3>3, <4>2
    <3> QED
      BY <3>2, <3>3
  <2> HIDE DEF T
  <2>3. 0 .. n \subseteq T
    BY <1>1, <2>1, <2>2, InductionUpTo
  <2>4. flat = [i \in 1 .. n |-> flat[i]]
    BY <1>11
  <2>5. \A i \in 1 .. n : flat[i] \in Seq(S)
    BY <2>3 DEF T
  <2> QED
    BY <2>4, <2>5
<1>14. flat[1] = lists[1] /\ \A i \in 2 .. n : flat[i] = flat[i - 1] \o lists[i]
  <2>1. \A i \in 1 .. n : flat[i] = IF i = 1 THEN lists[i] ELSE flat[i - 1] \o lists[i]
    BY <1>11
  <2>2. 1 \in 1 .. n /\ \A i \in 2 .. n : i \in 1 .. n /\ i # 1
    BY <1>1
  <2> HIDE DEF Goes
  <2> QED
    BY <2>1, <2>2
<1> QED
  BY <1>2, <1>13, <1>14 DEF n

(* Every pair of members of the list, in its order, is in R. *)
Related(s, R) == \A i, j \in 1 .. Len(s) : i < j => <<s[i], s[j]>> \in R

LEMMA InjectiveIsRelated ==
  ASSUME NEW S, NEW s \in Seq(S)
  PROVE  IsInjective(s) <=> Related(s, {p \in S \X S : p[1] # p[2]})
<1>1. Len(s) \in Nat /\ DOMAIN s = 1 .. Len(s) /\ \A i \in 1 .. Len(s) : s[i] \in S
  BY LenProperties
<1>2. ASSUME IsInjective(s) PROVE Related(s, {p \in S \X S : p[1] # p[2]})
  <2> SUFFICES ASSUME NEW i \in 1 .. Len(s), NEW j \in 1 .. Len(s), i < j PROVE s[i] # s[j]
    BY <1>1 DEF Related
  <2> QED
    BY <1>1, <1>2 DEF IsInjective
<1>3. ASSUME Related(s, {p \in S \X S : p[1] # p[2]}) PROVE IsInjective(s)
  <2>1. \A i, j \in 1 .. Len(s) : i < j => s[i] # s[j]
    BY <1>1, <1>3 DEF Related
  <2> SUFFICES ASSUME NEW i \in 1 .. Len(s), NEW j \in 1 .. Len(s), s[i] = s[j] PROVE i = j
    BY <1>1 DEF IsInjective
  <2> QED
    BY <1>1, <2>1
<1> QED
  BY <1>2, <1>3

LEMMA RelatedJoined ==
  ASSUME NEW S, NEW s \in Seq(S), NEW t \in Seq(S), NEW R,
         Related(s, R), Related(t, R),
         \A x \in ToSet(s), y \in ToSet(t) : <<x, y>> \in R
  PROVE  Related(s \o t, R)
<1> DEFINE r == s \o t
<1>1. /\ Len(r) = Len(s) + Len(t) /\ Len(s) \in Nat /\ Len(t) \in Nat
      /\ \A i \in 1 .. Len(s) + Len(t) : r[i] = IF i <= Len(s) THEN s[i] ELSE t[i - Len(s)]
  BY ConcatProperties, LenProperties
<1> HIDE DEF r
<1>2. (\A i \in 1 .. Len(s) : s[i] \in ToSet(s)) /\ (\A i \in 1 .. Len(t) : t[i] \in ToSet(t))
  BY LenProperties DEF ToSet
<1> SUFFICES ASSUME NEW i \in 1 .. Len(r), NEW j \in 1 .. Len(r), i < j
             PROVE  <<r[i], r[j]>> \in R
  BY DEF Related, r
<1>3. CASE j <= Len(s)
  <2>1. i \in 1 .. Len(s) /\ j \in 1 .. Len(s) /\ r[i] = s[i] /\ r[j] = s[j]
    BY <1>1, <1>3
  <2> QED
    BY <2>1 DEF Related
<1>4. CASE i > Len(s)
  <2>1. /\ i - Len(s) \in 1 .. Len(t) /\ j - Len(s) \in 1 .. Len(t) /\ i - Len(s) < j - Len(s)
        /\ r[i] = t[i - Len(s)] /\ r[j] = t[j - Len(s)]
    BY <1>1, <1>4
  <2> QED
    BY <2>1 DEF Related
<1>5. CASE i <= Len(s) /\ j > Len(s)
  <2>1. i \in 1 .. Len(s) /\ j - Len(s) \in 1 .. Len(t) /\ r[i] = s[i] /\ r[j] = t[j - Len(s)]
    BY <1>1, <1>5
  <2> QED
    BY <1>2, <2>1
<1> QED
  BY <1>1, <1>3, <1>4, <1>5

(* What FlattenSeq returns has the members of its lists, and is ordered as they
   are and as they follow each other.                                      *)
LEMMA Flattened ==
  ASSUME NEW S, NEW lists \in Seq(Seq(S)), Len(lists) # 0
  PROVE  /\ FlattenSeq(lists) \in Seq(S)
         /\ ToSet(FlattenSeq(lists)) = UNION {ToSet(lists[i]) : i \in 1 .. Len(lists)}
<1> DEFINE n == Len(lists)
<1>1. n \in Nat \ {0} /\ \A i \in 1 .. n : lists[i] \in Seq(S)
  BY LenProperties
<1>2. PICK f \in [1 .. n -> Seq(S)] :
        /\ f[1] = lists[1]
        /\ \A i \in 2 .. n : f[i] = f[i - 1] \o lists[i]
        /\ FlattenSeq(lists) = f[n]
  BY FlattenRecursion
<1> HIDE DEF n
<1> DEFINE U(k) == UNION {ToSet(lists[i]) : i \in 1 .. k}
           T == {0} \cup {k \in 1 .. n : ToSet(f[k]) = U(k)}
<1>3. 0 \in T
  OBVIOUS
<1>4. ASSUME NEW k \in 1 .. n, k - 1 \in T PROVE k \in T
  <2>1. CASE k = 1
    <3>1. 1 .. 1 = {1}
      OBVIOUS
    <3>2. U(1) = ToSet(lists[1])
      BY <3>1
    <3> QED
      BY <1>2, <2>1, <3>2
  <2>2. CASE k # 1
    <3>1. k - 1 \in 1 .. n /\ k \in 2 .. n /\ ToSet(f[k - 1]) = U(k - 1)
      BY <1>1, <1>4, <2>2
    <3>2. ToSet(f[k]) = ToSet(f[k - 1]) \cup ToSet(lists[k])
      <4>1. /\ f[k] = f[k - 1] \o lists[k] /\ f[k - 1] \in Seq(S) /\ lists[k] \in Seq(S)
        BY <1>1, <1>2, <3>1
      <4> QED
        BY <4>1, Joined
    <3>3. 1 .. k = (1 .. k - 1) \cup {k}
      BY <1>1
    <3>4. U(k) = U(k - 1) \cup ToSet(lists[k])
      BY <3>3
    <3> QED
      BY <3>1, <3>2, <3>4
  <2> QED
    BY <2>1, <2>2
<1> HIDE DEF T
<1>5. n \in T
  <2>1. 0 .. n \subseteq T
    BY <1>1, <1>3, <1>4, InductionUpTo
  <2> QED
    BY <1>1, <2>1
<1> QED
  BY <1>1, <1>2, <1>5 DEF T, n

LEMMA RelatedFlattened ==
  ASSUME NEW S, NEW lists \in Seq(Seq(S)), Len(lists) # 0, NEW R,
         \A i \in 1 .. Len(lists) : Related(lists[i], R),
         \A i, j \in 1 .. Len(lists) : i < j =>
           \A x \in ToSet(lists[i]), y \in ToSet(lists[j]) : <<x, y>> \in R
  PROVE  Related(FlattenSeq(lists), R)
<1> DEFINE n == Len(lists)
<1>1. n \in Nat \ {0} /\ \A i \in 1 .. n : lists[i] \in Seq(S)
  BY LenProperties
<1>2. PICK f \in [1 .. n -> Seq(S)] :
        /\ f[1] = lists[1]
        /\ \A i \in 2 .. n : f[i] = f[i - 1] \o lists[i]
        /\ FlattenSeq(lists) = f[n]
  BY FlattenRecursion
<1>3. \A i, j \in 1 .. n : i < j =>
        \A x \in ToSet(lists[i]), y \in ToSet(lists[j]) : <<x, y>> \in R
  OBVIOUS
<1>4. \A i \in 1 .. n : Related(lists[i], R)
  OBVIOUS
<1> HIDE DEF n
<1> DEFINE Before(k) == \A x \in ToSet(f[k]) : \E i \in 1 .. k : x \in ToSet(lists[i])
           T == {0} \cup {k \in 1 .. n : Before(k) /\ Related(f[k], R)}
<1>5. 0 \in T
  OBVIOUS
<1>6. ASSUME NEW k \in 1 .. n, k - 1 \in T PROVE k \in T
  <2>1. CASE k = 1
    <3>1. Before(1)
      BY <1>2
    <3> QED
      BY <1>2, <1>4, <2>1, <3>1
  <2>2. CASE k # 1
    <3>1. k - 1 \in 1 .. n /\ k \in 2 .. n /\ Before(k - 1) /\ Related(f[k - 1], R)
      BY <1>1, <1>6, <2>2
    <3>2. /\ f[k] = f[k - 1] \o lists[k] /\ f[k - 1] \in Seq(S) /\ lists[k] \in Seq(S)
      BY <1>1, <1>2, <3>1
    <3>3. ToSet(f[k]) = ToSet(f[k - 1]) \cup ToSet(lists[k])
      BY <3>2, Joined
    <3>4. Before(k)
      <4>1. \A i \in 1 .. k - 1 : i \in 1 .. k
        BY <1>1
      <4>2. k \in 1 .. k
        BY <1>1
      <4> QED
        BY <3>1, <3>3, <4>1, <4>2
    <3>5. ASSUME NEW x \in ToSet(f[k - 1]), NEW y \in ToSet(lists[k]) PROVE <<x, y>> \in R
      <4>1. PICK i \in 1 .. k - 1 : x \in ToSet(lists[i])
        BY <3>1
      <4>2. i \in 1 .. n /\ i < k
        BY <1>1
      <4> QED
        BY <1>3, <4>1, <4>2
    <3>6. Related(f[k], R)
      BY <1>4, <3>1, <3>2, <3>5, RelatedJoined
    <3> QED
      BY <3>4, <3>6
  <2> QED
    BY <2>1, <2>2
<1> HIDE DEF T
<1>7. n \in T
  <2>1. 0 .. n \subseteq T
    BY <1>1, <1>5, <1>6, InductionUpTo
  <2> QED
    BY <1>1, <2>1
<1> QED
  BY <1>1, <1>2, <1>7 DEF T, n

-----------------------------------------------------------------------------
(* One entry of a sequence put in or changed, and its front *)

LEMMA InsertedAt ==
  ASSUME NEW S, NEW s \in Seq(S), NEW e \in S, NEW p \in 1 .. Len(s) + 1
  PROVE  /\ InsertAt(s, p, e) \in Seq(S)
         /\ Len(InsertAt(s, p, e)) = Len(s) + 1
         /\ \A k \in 1 .. Len(s) + 1 :
              InsertAt(s, p, e)[k] = IF k < p THEN s[k] ELSE IF k = p THEN e ELSE s[k - 1]
<1> DEFINE a == SubSeq(s, 1, p - 1)
           b == SubSeq(s, p, Len(s))
           n == Len(s)
           c == <<e>>
<1>0. n \in Nat /\ p \in 1 .. n + 1 /\ \A k \in 1 .. n : s[k] \in S
  BY LenProperties
<1>1. /\ a \in Seq(S) /\ Len(a) = p - 1 /\ \A k \in 1 .. p - 1 : a[k] = s[k]
  <2>1. 1 \in Int /\ p - 1 \in Int /\ \A k \in 1 .. p - 1 : s[k] \in S
    BY <1>0
  <2>2. a \in Seq(S) /\ Len(a) = (IF 1 <= p - 1 THEN p - 1 - 1 + 1 ELSE 0)
        /\ \A k \in 1 .. p - 1 - 1 + 1 : a[k] = s[1 + k - 1]
    BY <2>1, SubSeqProperties
  <2> HIDE DEF a
  <2> QED
    BY <2>1, <2>2
<1>2. /\ b \in Seq(S) /\ Len(b) = (n - p) + 1 /\ \A k \in 1 .. (n - p) + 1 : b[k] = s[(k + p) - 1]
  <2>1. p \in Int /\ n \in Int /\ \A k \in p .. n : s[k] \in S
    BY <1>0
  <2>2. b \in Seq(S) /\ Len(b) = (IF p <= n THEN n - p + 1 ELSE 0)
        /\ \A k \in 1 .. n - p + 1 : b[k] = s[p + k - 1]
    BY <2>1, SubSeqProperties
  <2> HIDE DEF b, n
  <2>3. Len(b) = (n - p) + 1
    BY <2>1, <2>2, <1>0
  <2>4. \A k \in 1 .. (n - p) + 1 : p + k - 1 = (k + p) - 1
    BY <2>1
  <2> QED
    BY <2>2, <2>3, <2>4
<1>3. c \in Seq(S) /\ Len(c) = 1 /\ c[1] = e
  OBVIOUS
<1>4. InsertAt(s, p, e) = (a \o c) \o b
  BY DEF InsertAt
<1> HIDE DEF a, b, c, n
<1>5. /\ a \o c \in Seq(S) /\ Len(a \o c) = p
      /\ \A k \in 1 .. p : (a \o c)[k] = IF k <= p - 1 THEN a[k] ELSE e
  <2>1. /\ a \o c \in Seq(S) /\ Len(a \o c) = Len(a) + Len(c)
        /\ \A k \in 1 .. Len(a) + Len(c) : (a \o c)[k] = IF k <= Len(a) THEN a[k] ELSE c[k - Len(a)]
    BY <1>1, <1>3, ConcatProperties
  <2>2. Len(a) + Len(c) = p /\ p \in Int
    BY <1>0, <1>1, <1>3
  <2>3. \A k \in 1 .. p : ~ (k <= p - 1) => k - Len(a) = 1
    BY <1>1, <2>2
  <2> QED
    BY <1>1, <1>3, <2>1, <2>2, <2>3
<1> DEFINE d == a \o c
<1>6. /\ d \in Seq(S) /\ Len(d) = p /\ \A k \in 1 .. p : d[k] = IF k <= p - 1 THEN a[k] ELSE e
  BY <1>5
<1> HIDE DEF d
<1>7. /\ d \o b \in Seq(S) /\ Len(d \o b) = Len(d) + Len(b)
      /\ \A k \in 1 .. Len(d) + Len(b) : (d \o b)[k] = IF k <= Len(d) THEN d[k] ELSE b[k - Len(d)]
  <2>1. d \in Seq(S) /\ b \in Seq(S)
    BY <1>2, <1>6
  <2> QED
    BY <2>1, ConcatProperties
<1>8. Len(d) + Len(b) = n + 1
  BY <1>0, <1>2, <1>6
<1>9. ASSUME NEW k \in 1 .. n + 1
      PROVE  (d \o b)[k] = IF k < p THEN s[k] ELSE IF k = p THEN e ELSE s[k - 1]
  <2>0. k \in Int /\ p \in Int /\ n \in Int
    BY <1>0
  <2>1. CASE k < p
    BY <1>1, <1>6, <1>7, <1>8, <2>0, <2>1
  <2>2. CASE k = p
    <3>1. k \in 1 .. p /\ ~ (k <= p - 1) /\ k <= Len(d)
      BY <1>6, <2>0, <2>2
    <3> QED
      BY <1>6, <1>7, <1>8, <2>2, <3>1
  <2>3. CASE k > p
    <3>1. k - p \in 1 .. (n - p) + 1 /\ (k - p) + p = k /\ ~ (k <= Len(d))
      BY <1>6, <2>0, <2>3
    <3>2. b[k - p] = s[k - 1]
      BY <1>2, <3>1
    <3> QED
      BY <1>6, <1>7, <1>8, <2>0, <2>3, <3>1, <3>2
  <2>4. k < p \/ k = p \/ k > p
    BY <2>0
  <2> QED
    BY <2>1, <2>2, <2>3, <2>4
<1>10. p \in Nat \ {0} /\ InsertAt(s, p, e) = d \o b
  BY <1>4, <1>0 DEF d
<1> QED
  BY <1>7, <1>8, <1>9, <1>10 DEF n

LEMMA ReplacedAt ==
  ASSUME NEW S, NEW s \in Seq(S), NEW i \in 1 .. Len(s), NEW e \in S
  PROVE  /\ ReplaceAt(s, i, e) \in Seq(S)
         /\ Len(ReplaceAt(s, i, e)) = Len(s)
         /\ \A k \in 1 .. Len(s) : ReplaceAt(s, i, e)[k] = IF k = i THEN e ELSE s[k]
<1>1. Len(s) \in Nat /\ s \in [1 .. Len(s) -> S]
  BY LenProperties
<1> DEFINE r == ReplaceAt(s, i, e)
           n == Len(s)
<1>2. r \in [1 .. n -> S] /\ \A k \in 1 .. n : r[k] = IF k = i THEN e ELSE s[k]
  BY <1>1 DEF ReplaceAt
<1> HIDE DEF r, n
<1>3. n \in Nat
  BY <1>1 DEF n
<1>4. r \in Seq(S) /\ Len(r) = n
  BY <1>2, <1>3
<1> QED
  BY <1>2, <1>4 DEF r, n

(* The first k of a sequence. *)
LEMMA CutAt ==
  ASSUME NEW S, NEW s \in Seq(S), NEW k \in 0 .. Len(s)
  PROVE  /\ SubSeq(s, 1, k) \in Seq(S) /\ Len(SubSeq(s, 1, k)) = k
         /\ \A i \in 1 .. k : SubSeq(s, 1, k)[i] = s[i]
<1> DEFINE c == SubSeq(s, 1, k)
<1>1. Len(s) \in Nat /\ \A i \in 1 .. Len(s) : s[i] \in S
  BY LenProperties
<1>2. 1 \in Int /\ k \in Int /\ k \in Nat /\ \A i \in 1 .. k : i \in 1 .. Len(s) /\ s[i] \in S
  BY <1>1
<1>3. /\ c \in Seq(S) /\ Len(c) = IF 1 <= k THEN k - 1 + 1 ELSE 0
      /\ \A i \in 1 .. k - 1 + 1 : c[i] = s[1 + i - 1]
  BY <1>2, SubSeqProperties
<1> HIDE DEF c
<1>4. Len(c) = k /\ \A i \in 1 .. k : c[i] = s[i]
  BY <1>2, <1>3
<1> QED
  BY <1>3, <1>4 DEF c
=============================================================================
