--------------------------- MODULE ServicesProofs ---------------------------
(***************************************************************************)
(* Proofs about the services of module Services: the memory pools, for any *)
(* finite set of elements behind a pool and any reserves callers ask for,  *)
(* the mappings of high memory, for any window, hash and fixmap, and the   *)
(* percpu allocator, for any unit and any types callers ask areas for.     *)
(***************************************************************************)
EXTENDS Services, ListLemmas

-----------------------------------------------------------------------------
(* The greater and the lesser of two numbers *)

LEMMA MaxOfTwo ==
  ASSUME NEW a \in Int, NEW b \in Int
  PROVE  Max({a, b}) = IF a >= b THEN a ELSE b
<1>1. CASE a >= b
  <2>1. \A x \in {a, b} : (\A y \in {a, b} : x >= y) => x = a
    BY <1>1
  <2>2. \A y \in {a, b} : a >= y
    BY <1>1
  <2> QED
    BY <1>1, <2>1, <2>2 DEF Max
<1>2. CASE ~ (a >= b)
  <2>1. \A x \in {a, b} : (\A y \in {a, b} : x >= y) => x = b
    BY <1>2
  <2>2. \A y \in {a, b} : b >= y
    BY <1>2
  <2> QED
    BY <1>2, <2>1, <2>2 DEF Max
<1> QED
  BY <1>1, <1>2

LEMMA MinOfTwo ==
  ASSUME NEW a \in Int, NEW b \in Int
  PROVE  Min({a, b}) = IF a <= b THEN a ELSE b
<1>1. CASE a <= b
  <2>1. \A x \in {a, b} : (\A y \in {a, b} : x =< y) => x = a
    BY <1>1
  <2>2. \A y \in {a, b} : a =< y
    BY <1>1
  <2> QED
    BY <1>1, <2>1, <2>2 DEF Min
<1>2. CASE ~ (a <= b)
  <2>1. \A x \in {a, b} : (\A y \in {a, b} : x =< y) => x = b
    BY <1>2
  <2>2. \A y \in {a, b} : b =< y
    BY <1>2
  <2> QED
    BY <1>2, <2>1, <2>2 DEF Min
<1> QED
  BY <1>1, <1>2

-----------------------------------------------------------------------------
(* Rows of elements *)

(* What the allocator gives for n elements are n of those it has. *)
LEMMA RowOfSpare ==
  ASSUME NEW n, NEW row \in Rows(n)
  PROVE  /\ row \in Seq(Elements) /\ Len(row) = n /\ IsInjective(row)
         /\ ToSet(row) \subseteq Spare
<1>1. PICK S \in SUBSET Spare : Cardinality(S) = n /\ row = SetToSeq(S)
  BY DEF Rows, kSubset
<1>2. IsFiniteSet(S) /\ S \subseteq Elements
  BY MempoolAssumption, FS_Subset DEF Spare
<1>3. row \in Seq(S) /\ Len(row) = n /\ IsInjective(row)
  BY <1>1, <1>2, SetInARow
<1>4. ToSet(row) \subseteq S
  BY <1>3, ToSetOfSeq
<1>5. row \in Seq(Elements)
  BY <1>2, <1>3
<1> QED
  BY <1>3, <1>4, <1>5

-----------------------------------------------------------------------------
(* The inductive invariant: the promise needs the types, and that the pool is
   never the structure it was before its creation while it is one.          *)

MempoolTypeOK ==
  /\ pool \in [min_nr : Nat, size : Nat, elements : Seq(Elements)]
  /\ inUse \subseteq Elements
  /\ asked \in BOOLEAN
  /\ unfilled \in Nat

MInv == MempoolTypeOK /\ ReserveKept

(* The promise as one implication about the new structure p. *)
Kept(p, taken, short) ==
  /\ p \in [min_nr : Nat, size : Nat, elements : Seq(Elements)]
  /\ Len(p.elements) + Cardinality(taken) + short >= p.min_nr
  /\ Len(p.elements) <= p.min_nr /\ p.min_nr <= p.size
  /\ ToSet(p.elements) \cap taken = {}
  /\ IsInjective(p.elements)

LEMMA PromiseKept ==
  ASSUME MInv, pool # NoPool
  PROVE  /\ Kept(pool, inUse, unfilled)
         /\ IsFiniteSet(inUse) /\ Cardinality(inUse) \in Nat
         /\ Len(pool.elements) \in Nat /\ pool.elements \in Seq(Elements)
         /\ pool.min_nr \in Nat /\ pool.size \in Nat
<1>1. IsFiniteSet(inUse) /\ Cardinality(inUse) \in Nat
  BY MempoolAssumption, FS_Subset, FS_CardinalityType DEF MInv, MempoolTypeOK
<1>2. /\ pool \in [min_nr : Nat, size : Nat, elements : Seq(Elements)]
      /\ pool.elements \in Seq(Elements) /\ pool.min_nr \in Nat /\ pool.size \in Nat
  BY DEF MInv, MempoolTypeOK
<1>3. Len(pool.elements) \in Nat
  BY <1>2, LenProperties
<1> QED
  BY <1>1, <1>2, <1>3 DEF Kept, MInv, ReserveKept, curr_nr

LEMMA KeptIsInv ==
  ASSUME Kept(pool', inUse', unfilled'),
         inUse' \subseteq Elements, asked' \in BOOLEAN, unfilled' \in Nat
  PROVE  MInv'
BY DEF Kept, MInv, MempoolTypeOK, ReserveKept, curr_nr

LEMMA MempoolInitSound == MempoolInit => MInv
<1> SUFFICES ASSUME MempoolInit PROVE MInv
  OBVIOUS
<1>1. pool = NoPool /\ inUse = {} /\ asked = FALSE /\ unfilled = 0
  BY DEF MempoolInit
<1>2. NoPool \in [min_nr : Nat, size : Nat, elements : Seq(Elements)]
  BY DEF NoPool
<1> QED
  BY <1>1, <1>2 DEF MInv, MempoolTypeOK, ReserveKept

LEMMA CreateKeeps ==
  ASSUME NEW n \in Nat PROVE MInv /\ mempool_create_node(n) => MInv'
<1> SUFFICES ASSUME MInv, mempool_create_node(n) PROVE MInv'
  OBVIOUS
<1>1. PICK row \in Rows(n) : pool' = [min_nr |-> n, size |-> n, elements |-> row]
  BY DEF mempool_create_node
<1>2. inUse' = {} /\ asked' = asked /\ unfilled' = 0 /\ asked \in BOOLEAN
  BY DEF mempool_create_node, MInv, MempoolTypeOK
<1>3. row \in Seq(Elements) /\ Len(row) = n /\ IsInjective(row)
  BY RowOfSpare
<1>4. Cardinality({}) = 0
  BY FS_EmptySet
<1>5. n + Cardinality({}) + 0 >= n
  BY <1>4
<1>6. Kept(pool', inUse', unfilled')
  BY <1>1, <1>2, <1>3, <1>5 DEF Kept
<1> QED
  BY <1>2, <1>6, KeptIsInv

LEMMA DestroyKeeps == MInv /\ mempool_destroy => MInv'
<1> SUFFICES ASSUME MInv, mempool_destroy PROVE MInv'
  OBVIOUS
<1>1. pool' = NoPool /\ unfilled' = 0 /\ inUse' = inUse /\ asked' = asked
  BY DEF mempool_destroy
<1>2. NoPool \in [min_nr : Nat, size : Nat, elements : Seq(Elements)]
  BY DEF NoPool
<1> QED
  BY <1>1, <1>2 DEF MInv, MempoolTypeOK, ReserveKept

LEMMA ShrinkKeeps ==
  ASSUME NEW n \in Nat PROVE MInv /\ Shrink(n) => MInv'
<1> SUFFICES ASSUME MInv, Shrink(n) PROVE MInv'
  OBVIOUS
<1> DEFINE m == pool.min_nr
           c == Len(pool.elements)
           k == Min({c, n})
           cut == SubSeq(pool.elements, 1, k)
           u == Cardinality(inUse)
<1>1. /\ pool # NoPool /\ n <= m
      /\ pool' = [pool EXCEPT !.min_nr = n, !.elements = cut]
      /\ unfilled' = Max({0, unfilled - (m - n)})
      /\ inUse' = inUse /\ asked' = asked
  BY DEF Shrink, Ready, curr_nr
<1>2. /\ Kept(pool, inUse, unfilled) /\ u \in Nat /\ c \in Nat /\ m \in Nat /\ pool.size \in Nat
      /\ pool.elements \in Seq(Elements)
  BY <1>1, PromiseKept
<1>3. /\ pool \in [min_nr : Nat, size : Nat, elements : Seq(Elements)]
      /\ c + u + unfilled >= m /\ c <= m /\ m <= pool.size
      /\ ToSet(pool.elements) \cap inUse = {} /\ IsInjective(pool.elements)
  BY <1>2 DEF Kept
<1>4. unfilled \in Nat /\ inUse \subseteq Elements /\ asked \in BOOLEAN
  BY DEF MInv, MempoolTypeOK
<1>5. k = IF c <= n THEN c ELSE n
  BY <1>2, MinOfTwo
<1>6. unfilled' = IF 0 >= unfilled - (m - n) THEN 0 ELSE unfilled - (m - n)
  <2>1. unfilled - (m - n) \in Int
    BY <1>2, <1>4
  <2> QED
    BY <1>1, <2>1, MaxOfTwo
<1> HIDE DEF k
<1>7. k \in 0 .. c
  BY <1>2, <1>5
<1>8. cut \in Seq(Elements) /\ Len(cut) = k /\ IsInjective(cut) /\ ToSet(cut) \subseteq ToSet(pool.elements)
  BY <1>2, <1>3, <1>7, Cut
<1> HIDE DEF cut
<1>9. /\ pool'.min_nr = n /\ pool'.elements = cut /\ pool'.size = pool.size
      /\ pool' \in [min_nr : Nat, size : Nat, elements : Seq(Elements)]
  <2>1. pool' = [pool EXCEPT !.min_nr = n, !.elements = cut]
    BY <1>1
  <2>2. pool \in [min_nr : Nat, size : Nat, elements : Seq(Elements)]
    BY <1>3
  <2>3. cut \in Seq(Elements) /\ n \in Nat
    BY <1>8
  <2> QED
    BY <2>1, <2>2, <2>3
<1> HIDE DEF m, c, u
<1>10. k + u + unfilled' >= n /\ k <= n /\ n <= pool.size /\ unfilled' \in Nat
  BY <1>1, <1>2, <1>3, <1>4, <1>5, <1>6, SMTT(30)
<1>11. Kept(pool', inUse', unfilled')
  BY <1>1, <1>3, <1>8, <1>9, <1>10 DEF Kept, u
<1> QED
  BY <1>1, <1>4, <1>10, <1>11, KeptIsInv

LEMMA GrowKeeps ==
  ASSUME NEW n \in Nat PROVE MInv /\ Grow(n) => MInv'
<1> SUFFICES ASSUME MInv, Grow(n) PROVE MInv'
  OBVIOUS
<1> DEFINE m == pool.min_nr
           c == Len(pool.elements)
           u == Cardinality(inUse)
<1>1. pool # NoPool /\ n > m /\ inUse' = inUse /\ asked' = asked
  BY DEF Grow, Ready
<1>0. PICK got \in 0 .. n - c :
        \E row \in Rows(got) :
          /\ pool' = [min_nr |-> n, size |-> n, elements |-> pool.elements \o row]
          /\ unfilled' = n - c - got
  BY DEF Grow, curr_nr
<1>2. PICK row \in Rows(got) :
        /\ pool' = [min_nr |-> n, size |-> n, elements |-> pool.elements \o row]
        /\ unfilled' = n - c - got
  BY <1>0
<1>3. /\ Kept(pool, inUse, unfilled) /\ u \in Nat /\ c \in Nat /\ m \in Nat
      /\ pool.elements \in Seq(Elements)
  BY <1>1, PromiseKept
<1>4. c <= m /\ ToSet(pool.elements) \cap inUse = {} /\ IsInjective(pool.elements)
  BY <1>3 DEF Kept
<1>5. inUse \subseteq Elements /\ asked \in BOOLEAN
  BY DEF MInv, MempoolTypeOK
<1>6. /\ row \in Seq(Elements) /\ Len(row) = got /\ IsInjective(row)
      /\ ToSet(row) \subseteq Spare
  BY RowOfSpare
<1>7. ToSet(row) \cap ToSet(pool.elements) = {} /\ ToSet(row) \cap inUse = {}
  BY <1>6 DEF Spare
<1> DEFINE all == pool.elements \o row
<1>8. /\ all \in Seq(Elements) /\ Len(all) = c + got /\ IsInjective(all)
      /\ ToSet(all) = ToSet(pool.elements) \cup ToSet(row)
  BY <1>3, <1>4, <1>6, <1>7, Joined
<1> HIDE DEF all
<1>9. /\ pool'.min_nr = n /\ pool'.size = n /\ pool'.elements = all
      /\ pool' \in [min_nr : Nat, size : Nat, elements : Seq(Elements)]
  BY <1>2, <1>8 DEF all
<1>10. ToSet(all) \cap inUse = {}
  BY <1>4, <1>7, <1>8
<1> HIDE DEF m, c, u
<1>11. /\ got \in Nat /\ n - c - got \in Nat
       /\ c + got + u + (n - c - got) >= n /\ c + got <= n
  BY <1>1, <1>3, <1>4
<1>12. Len(all) + Cardinality(inUse') + unfilled' >= n /\ Len(all) <= n /\ n <= n
  BY <1>1, <1>2, <1>8, <1>11 DEF u
<1>13. Kept(pool', inUse', unfilled')
  BY <1>1, <1>8, <1>9, <1>10, <1>12 DEF Kept
<1> QED
  BY <1>1, <1>2, <1>5, <1>11, <1>13, KeptIsInv

LEMMA AllocBehindKeeps == MInv /\ AllocBehind => MInv'
<1> SUFFICES ASSUME MInv, AllocBehind PROVE MInv'
  OBVIOUS
<1>1. PICK e \in Spare : inUse' = inUse \cup {e}
  BY DEF AllocBehind
<1>2. pool # NoPool /\ asked' = FALSE /\ pool' = pool /\ unfilled' = unfilled
  BY DEF AllocBehind
<1>3. /\ Kept(pool, inUse, unfilled) /\ IsFiniteSet(inUse) /\ Cardinality(inUse) \in Nat
      /\ Len(pool.elements) \in Nat /\ pool.min_nr \in Nat
  BY <1>2, PromiseKept
<1>4. unfilled \in Nat /\ inUse \subseteq Elements
  BY DEF MInv, MempoolTypeOK
<1>5. e \in Elements /\ e \notin inUse /\ e \notin ToSet(pool.elements)
  BY DEF Spare
<1>6. Cardinality(inUse \cup {e}) = Cardinality(inUse) + 1
  BY <1>3, <1>5, FS_AddElement
<1>7. Len(pool.elements) + (Cardinality(inUse) + 1) + unfilled >= pool.min_nr
  BY <1>3, <1>4 DEF Kept
<1>8. Kept(pool', inUse', unfilled')
  BY <1>1, <1>2, <1>3, <1>5, <1>6, <1>7 DEF Kept
<1> QED
  BY <1>1, <1>2, <1>4, <1>5, <1>8, KeptIsInv

LEMMA AllocReserveKeeps == MInv /\ AllocReserve => MInv'
<1> SUFFICES ASSUME MInv, AllocReserve PROVE MInv'
  OBVIOUS
<1> DEFINE s == pool.elements
           k == Len(s) - 1
           cut == SubSeq(s, 1, k)
<1>1. /\ pool # NoPool /\ Len(s) > 0 /\ inUse' = inUse \cup {s[Len(s)]}
      /\ pool' = [pool EXCEPT !.elements = cut]
      /\ asked' = FALSE /\ unfilled' = unfilled
  BY DEF AllocReserve, curr_nr, Last, Front
<1>2. /\ Kept(pool, inUse, unfilled) /\ IsFiniteSet(inUse) /\ Cardinality(inUse) \in Nat
      /\ Len(s) \in Nat /\ s \in Seq(Elements) /\ pool.min_nr \in Nat /\ pool.size \in Nat
  BY <1>1, PromiseKept
<1>3. /\ pool \in [min_nr : Nat, size : Nat, elements : Seq(Elements)]
      /\ Len(s) + Cardinality(inUse) + unfilled >= pool.min_nr
      /\ Len(s) <= pool.min_nr /\ pool.min_nr <= pool.size
      /\ ToSet(s) \cap inUse = {} /\ IsInjective(s)
  BY <1>2 DEF Kept
<1>4. unfilled \in Nat /\ inUse \subseteq Elements
  BY DEF MInv, MempoolTypeOK
<1>5. k \in 0 .. Len(s) /\ k < Len(s) /\ k + 1 = Len(s)
  BY <1>1, <1>2
<1>6. /\ cut \in Seq(Elements) /\ Len(cut) = k /\ IsInjective(cut) /\ ToSet(cut) \subseteq ToSet(s)
      /\ s[Len(s)] \in ToSet(s) /\ s[Len(s)] \notin ToSet(cut)
  <2> HIDE DEF k
  <2>1. /\ cut \in Seq(Elements) /\ Len(cut) = k /\ ToSet(cut) \subseteq ToSet(s) /\ IsInjective(cut)
        /\ k < Len(s) => s[k + 1] \in ToSet(s) /\ s[k + 1] \notin ToSet(cut)
    BY <1>2, <1>3, <1>5, Cut
  <2> QED
    BY <1>5, <2>1
<1>7. s[Len(s)] \in Elements /\ s[Len(s)] \notin inUse
  BY <1>2, <1>3, <1>6, ToSetOfSeq
<1>8. Cardinality(inUse') = Cardinality(inUse) + 1
  BY <1>1, <1>2, <1>7, FS_AddElement
<1> HIDE DEF cut
<1>9. /\ pool'.min_nr = pool.min_nr /\ pool'.elements = cut /\ pool'.size = pool.size
      /\ pool' \in [min_nr : Nat, size : Nat, elements : Seq(Elements)]
  BY <1>1, <1>3, <1>6
<1>10. Len(cut) + Cardinality(inUse') + unfilled >= pool.min_nr /\ Len(cut) <= pool.min_nr
  BY <1>2, <1>3, <1>4, <1>6, <1>8
<1>11. ToSet(cut) \cap inUse' = {}
  BY <1>1, <1>3, <1>6
<1>12. Kept(pool', inUse', unfilled')
  BY <1>1, <1>3, <1>6, <1>9, <1>10, <1>11 DEF Kept
<1> QED
  BY <1>1, <1>4, <1>7, <1>12, KeptIsInv

LEMMA FreeKeeps ==
  ASSUME NEW e \in inUse PROVE MInv /\ mempool_free(e) => MInv'
<1> SUFFICES ASSUME MInv, mempool_free(e) PROVE MInv'
  OBVIOUS
<1> DEFINE s == pool.elements
           m == pool.min_nr
           u == Cardinality(inUse)
<1>1. /\ pool # NoPool /\ inUse' = inUse \ {e} /\ asked' = asked /\ unfilled' = unfilled
      /\ pool' = IF Len(s) < m THEN [pool EXCEPT !.elements = Append(s, e)] ELSE pool
  BY DEF mempool_free, Ready, curr_nr
<1>2. /\ Kept(pool, inUse, unfilled) /\ IsFiniteSet(inUse) /\ u \in Nat
      /\ Len(s) \in Nat /\ s \in Seq(Elements) /\ m \in Nat /\ pool.size \in Nat
  BY <1>1, PromiseKept
<1>3. /\ pool \in [min_nr : Nat, size : Nat, elements : Seq(Elements)]
      /\ Len(s) + u + unfilled >= m /\ Len(s) <= m /\ m <= pool.size
      /\ ToSet(s) \cap inUse = {} /\ IsInjective(s)
  BY <1>2 DEF Kept
<1>4. unfilled \in Nat /\ inUse \subseteq Elements /\ asked \in BOOLEAN
  BY DEF MInv, MempoolTypeOK
<1>5. Cardinality(inUse') = u - 1 /\ e \in Elements /\ e \notin ToSet(s)
  BY <1>1, <1>2, <1>3, <1>4, FS_RemoveElement
<1>6. Cardinality(inUse') \in Nat
  <2>1. IsFiniteSet(inUse')
    BY <1>1, <1>2, FS_RemoveElement
  <2> QED
    BY <2>1, FS_CardinalityType
<1>7. CASE Len(s) < m
  <2> DEFINE t == Append(s, e)
  <2>1. /\ t \in Seq(Elements) /\ Len(t) = Len(s) + 1 /\ ToSet(t) = ToSet(s) \cup {e}
        /\ IsInjective(t)
    BY <1>2, <1>3, <1>5, Appended
  <2> HIDE DEF t
  <2>2. /\ pool'.min_nr = m /\ pool'.elements = t /\ pool'.size = pool.size
        /\ pool' \in [min_nr : Nat, size : Nat, elements : Seq(Elements)]
    BY <1>1, <1>3, <1>7, <2>1 DEF t
  <2>3. Len(t) + Cardinality(inUse') + unfilled >= m /\ Len(t) <= m
    BY <1>2, <1>3, <1>4, <1>5, <1>7, <2>1
  <2>4. ToSet(t) \cap inUse' = {}
    BY <1>1, <1>3, <2>1
  <2>5. Kept(pool', inUse', unfilled')
    BY <1>1, <1>3, <2>1, <2>2, <2>3, <2>4 DEF Kept
  <2> QED
    BY <1>1, <1>4, <2>5, KeptIsInv
<1>8. CASE ~ (Len(s) < m)
  <2>1. pool' = pool
    BY <1>1, <1>8
  <2>2. Len(s) + Cardinality(inUse') + unfilled >= m
    BY <1>2, <1>4, <1>6, <1>8
  <2>3. ToSet(s) \cap inUse' = {}
    BY <1>1, <1>3
  <2>4. Kept(pool', inUse', unfilled')
    BY <1>1, <1>3, <2>1, <2>2, <2>3 DEF Kept
  <2> QED
    BY <1>1, <1>4, <2>4, KeptIsInv
<1> QED
  BY <1>7, <1>8

LEMMA MempoolNextSound == MInv /\ [MempoolNext]_mempoolVars => MInv'
<1> SUFFICES ASSUME MInv, [MempoolNext]_mempoolVars PROVE MInv'
  OBVIOUS
<1>1. ASSUME NEW n \in MinNrs, mempool_create_node(n) \/ Shrink(n) \/ Grow(n) PROVE MInv'
  <2>1. n \in Nat
    BY MempoolAssumption
  <2> QED
    BY <1>1, <2>1, CreateKeeps, ShrinkKeeps, GrowKeeps
<1>2. CASE AllocWaits \/ UNCHANGED mempoolVars
  <2>1. pool' = pool /\ inUse' = inUse /\ unfilled' = unfilled /\ asked' \in BOOLEAN
    BY <1>2 DEF AllocWaits, mempoolVars, MInv, MempoolTypeOK
  <2> QED
    BY <2>1 DEF MInv, MempoolTypeOK, ReserveKept, curr_nr
<1>3. ASSUME NEW e \in inUse, mempool_free(e) PROVE MInv'
  BY <1>3, FreeKeeps
<1> QED
  BY <1>1, <1>2, <1>3, DestroyKeeps, AllocBehindKeeps, AllocReserveKeeps DEF MempoolNext

(* The elements callers hold and the elements in reserve never fall below what
   the pool was created or resized for, but by what a growth could not get; the
   two never share an element, and the reserve fits the array it was given.
   (mempool_create_node, mempool_resize, mempool_alloc, mempool_free)      *)
THEOREM ReserveIsKept == MempoolSpec => []ReserveKept
<1>1. MempoolInit => MInv
  BY MempoolInitSound
<1>2. MInv /\ [MempoolNext]_mempoolVars => MInv'
  BY MempoolNextSound
<1>3. MInv => ReserveKept
  BY DEF MInv
<1> QED
  BY <1>1, <1>2, <1>3, PTL DEF MempoolSpec

-----------------------------------------------------------------------------
(* The window of Highmem *)

Entry == [page : HighPages, nr : Pkmaps]
Used(count) == {n \in Pkmaps : count[n] # 0}

(* A slot in use maps a page, and a page has one slot. *)
SlotsApart(count, table) ==
  /\ \A n \in Used(count) : table[n] \in HighPages
  /\ \A m, n \in Used(count) : table[m] = table[n] => m = n

(* The hash table names each slot in use once, in the bucket of its page. *)
HashExact(count, table, htable) ==
  \A b \in Buckets :
    /\ \A i \in 1 .. Len(htable[b]) :
         /\ htable[b][i].nr \in Used(count)
         /\ table[htable[b][i].nr] = htable[b][i].page
         /\ Bucket[htable[b][i].page] = b
    /\ \A i, j \in 1 .. Len(htable[b]) : htable[b][i].nr = htable[b][j].nr => i = j
    /\ \A n \in Used(count) :
         Bucket[table[n]] = b => \E i \in 1 .. Len(htable[b]) : htable[b][i].nr = n

(* The count of a slot in use is one more than the uses of its page there. *)
CountsExact(count, table, users) ==
  \A n \in Pkmaps : \A p \in HighPages :
    IF n \in Used(count) /\ table[n] = p THEN count[n] = users[p][n] + 1 ELSE users[p][n] = 0

Window(count, table, htable, left, users) ==
  /\ count \in [Pkmaps -> Nat]
  /\ table \in [Pkmaps -> HighPages \cup {NoPage}]
  /\ htable \in [Buckets -> Seq(Entry)]
  /\ users \in [HighPages -> [Pkmaps -> Nat]]
  /\ left = Cardinality(Pkmaps \ Used(count))
  /\ SlotsApart(count, table)
  /\ HashExact(count, table, htable)
  /\ CountsExact(count, table, users)

HighmemSound == Window(pkmap_count, pkmap_page_table, page_address_htable, page_address_pool, kmaps)

(* A page map_new_virtual looks a slot for has none. *)
MapsNewPage ==
  /\ mapping \in HighPages \cup {NoPage}
  /\ mapping # NoPage => \A n \in Used(pkmap_count) : pkmap_page_table[n] # mapping

(* Each atomic mapping was made at a depth of its own, all below the current. *)
AtomicsApart ==
  /\ __kmap_atomic_idx \in Nat
  /\ \A a \in atomics : a.nr \in Nat /\ a.nr < __kmap_atomic_idx
  /\ \A a, c \in atomics : a.nr = c.nr => a = c

HighmemInv ==
  highmem # "strayed" => HighmemSound /\ MapsNewPage /\ AtomicsApart /\ last_pkmap_nr \in Nat

LEMMA WindowFinite ==
  /\ LAST_PKMAP \in Nat \ {0} /\ IsFiniteSet(HighPages) /\ NoPage \notin HighPages
  /\ IsFiniteSet(Pkmaps) /\ IsFiniteSet(Buckets)
  /\ Pkmaps \subseteq Nat
  /\ \A p \in HighPages : Bucket[p] \in Buckets
<1>1. LAST_PKMAP \in Nat \ {0} /\ IsFiniteSet(HighPages) /\ NoPage \notin HighPages
  BY HighmemAssumption
<1>2. IsFiniteSet(0 .. LAST_PKMAP - 1)
  BY <1>1, FS_Interval
<1> DEFINE f == [p \in HighPages |-> Bucket[p]]
<1>3. f \in Surjection(HighPages, Buckets)
  BY DEF Surjection, Buckets
<1>4. IsFiniteSet(Buckets)
  BY <1>1, <1>3, FS_Surjection
<1> QED
  BY <1>1, <1>2, <1>4 DEF Pkmaps, Buckets

LEMMA NextPkmapInWindow ==
  ASSUME last_pkmap_nr \in Nat
  PROVE  NextPkmap \in Pkmaps
<1> DEFINE m == LAST_PKMAP
           k == last_pkmap_nr + 1
<1>1. m \in Nat \ {0} /\ k \in Nat
  BY WindowFinite
<1> HIDE DEF m, k
<1>2. k % m \in 0 .. m - 1
  BY <1>1
<1> QED
  BY <1>2 DEF m, k, NextPkmap, Pkmaps

-----------------------------------------------------------------------------
(* What page_address finds *)

LEMMA EntriesTyped ==
  ASSUME NEW htable \in [Buckets -> Seq(Entry)], NEW b \in Buckets
  PROVE  /\ Len(htable[b]) \in Nat /\ DOMAIN htable[b] = 1 .. Len(htable[b])
         /\ \A i \in 1 .. Len(htable[b]) :
              htable[b][i] \in Entry /\ htable[b][i].nr \in Pkmaps /\ htable[b][i].page \in HighPages
<1> DEFINE s == htable[b]
<1>1. s \in Seq(Entry)
  OBVIOUS
<1> HIDE DEF s
<1>2. Len(s) \in Nat /\ DOMAIN s = 1 .. Len(s) /\ \A i \in 1 .. Len(s) : s[i] \in Entry
  BY <1>1, LenProperties
<1>3. \A e \in Entry : e.nr \in Pkmaps /\ e.page \in HighPages
  BY DEF Entry
<1> QED
  BY <1>2, <1>3 DEF s

LEMMA PageFound ==
  ASSUME HighmemSound, NEW p \in HighPages
  PROVE  /\ Mapped(p) => SlotOf(p) \in Used(pkmap_count) /\ pkmap_page_table[SlotOf(p)] = p
         /\ \A n \in Used(pkmap_count) : pkmap_page_table[n] = p => Mapped(p) /\ SlotOf(p) = n
<1> DEFINE b == Bucket[p]
           s == page_address_htable[b]
           E == {k \in 1 .. Len(s) : s[k].page = p}
           U == Used(pkmap_count)
           t == pkmap_page_table
<1>1. /\ page_address_htable \in [Buckets -> Seq(Entry)] /\ b \in Buckets
      /\ \A m, n \in U : t[m] = t[n] => m = n
  BY WindowFinite DEF HighmemSound, Window, SlotsApart
<1>2. Entries(p) = E /\ Len(s) \in Nat
  BY <1>1, EntriesTyped DEF Entries
<1>3. /\ \A i \in 1 .. Len(s) : s[i].nr \in U /\ t[s[i].nr] = s[i].page
      /\ \A i, j \in 1 .. Len(s) : s[i].nr = s[j].nr => i = j
      /\ \A n \in U : Bucket[t[n]] = b => \E i \in 1 .. Len(s) : s[i].nr = n
  BY <1>1 DEF HighmemSound, Window, HashExact
<1>4. SlotOf(p) = s[Min(E)].nr /\ (Mapped(p) <=> E # {})
  BY <1>2 DEF SlotOf, Mapped
<1> HIDE DEF s, b, U, t
<1>5. \A i, j \in E : i = j
  BY <1>1, <1>3
<1>6. ASSUME NEW k \in E PROVE Min(E) = k
  <2>1. E = {k} /\ k \in Int
    BY <1>5, <1>6
  <2> HIDE DEF E
  <2>2. \A x \in E : (\A y \in E : x =< y) => x = k
    BY <2>1
  <2>3. k \in E /\ \A y \in E : k =< y
    BY <2>1
  <2> QED
    BY <2>2, <2>3 DEF Min
<1>7. Mapped(p) => SlotOf(p) \in U /\ t[SlotOf(p)] = p
  BY <1>3, <1>4, <1>6
<1>8. ASSUME NEW n \in U, t[n] = p PROVE Mapped(p) /\ SlotOf(p) = n
  <2>1. PICK i \in 1 .. Len(s) : s[i].nr = n
    BY <1>3, <1>8 DEF b
  <2>2. i \in E
    BY <1>3, <1>8, <2>1
  <2> QED
    BY <1>4, <1>6, <2>1, <2>2
<1> QED
  BY <1>7, <1>8 DEF U, t

-----------------------------------------------------------------------------
(* The users of a slot, and the entries of the table, counted *)

LEMMA UsersAre ==
  ASSUME HighmemSound, NEW n \in Pkmaps
  PROVE  Users(n) = IF n \in Used(pkmap_count) THEN pkmap_count[n] - 1 ELSE 0
<1> DEFINE S == HighPages
           f == [p \in S |-> kmaps[p][n]]
           Goes(g) == g = [T \in SUBSET S |->
             IF T = {} THEN 0
             ELSE kmaps[CHOOSE x \in T : TRUE][n] + g[T \ {CHOOSE x \in T : TRUE}]]
           sum == CHOOSE g : Goes(g)
           c == [T \in SUBSET S |-> CHOOSE x \in T : TRUE]
<1>1. Users(n) = sum[S]
  BY DEF Users, MapThenSumSet, MapThenFoldSet
<1>2. IsFiniteSet(S) /\ f \in [S -> Int]
  BY WindowFinite DEF HighmemSound, Window
<1>3. ASSUME NEW g PROVE SumOf(g, S, f, c) <=> Goes(g)
  <2>1. \A T \in SUBSET S : T # {} => (CHOOSE x \in T : TRUE) \in S
    OBVIOUS
  <2>2. \A x \in S : f[x] = kmaps[x][n]
    OBVIOUS
  <2>3. \A T \in SUBSET S : c[T] = CHOOSE x \in T : TRUE
    OBVIOUS
  <2> HIDE DEF f, c
  <2>4. \A T \in SUBSET S : (IF T = {} THEN 0 ELSE f[c[T]] + g[T \ {c[T]}])
          = (IF T = {} THEN 0
             ELSE kmaps[CHOOSE x \in T : TRUE][n] + g[T \ {CHOOSE x \in T : TRUE}])
    BY <2>1, <2>2, <2>3
  <2> QED
    BY <2>4 DEF SumOf
<1>p. Picks(c, S)
  BY DEF Picks
<1> HIDE DEF S, f, c, Goes
<1>4. \E g : Goes(g)
  BY <1>2, <1>3, <1>p, SumExists
<1>5. Goes(sum)
  BY <1>4
<1> HIDE DEF sum
<1>6. AddsUp(sum, S, f)
  BY <1>2, <1>3, <1>5, <1>p, Summed
<1>7. /\ \A x \in S : f[x] = kmaps[x][n]
      /\ \A p \in S : IF n \in Used(pkmap_count) /\ pkmap_page_table[n] = p
                      THEN pkmap_count[n] = kmaps[p][n] + 1 ELSE kmaps[p][n] = 0
  BY DEF S, f, HighmemSound, Window, CountsExact
<1>8. CASE n \in Used(pkmap_count)
  <2> DEFINE p == pkmap_page_table[n]
             R == S \ {p}
  <2>1. p \in S
    BY <1>8 DEF S, HighmemSound, Window, SlotsApart
  <2>2. sum[S] = f[p] + sum[R]
    BY <1>6, <2>1 DEF AddsUp
  <2>3. \A x \in R : f[x] = 0
    BY <1>7
  <2>4. f[p] \in Int /\ pkmap_count[n] = f[p] + 1
    BY <1>2, <1>7, <1>8, <2>1
  <2>5. R \in SUBSET S
    OBVIOUS
  <2> HIDE DEF R, p
  <2>6. sum[R] = 0
    BY <1>2, <1>6, <2>3, <2>5, SumOfZeros
  <2> QED
    BY <1>1, <1>8, <2>2, <2>4, <2>6
<1>9. CASE n \notin Used(pkmap_count)
  <2>1. \A x \in S : f[x] = 0
    BY <1>7, <1>9
  <2>2. S \in SUBSET S
    OBVIOUS
  <2>3. sum[S] = 0
    BY <1>2, <1>6, <2>1, <2>2, SumOfZeros
  <2> QED
    BY <1>1, <1>9, <2>3
<1> QED
  BY <1>8, <1>9

LEMMA SizeIs ==
  ASSUME NEW count, NEW table, NEW htable \in [Buckets -> Seq(Entry)],
         SlotsApart(count, table), HashExact(count, table, htable)
  PROVE  Size(htable) = Cardinality(Used(count))
<1> DEFINE S == Buckets
           f == [b \in S |-> Len(htable[b])]
           Goes(g) == g = [T \in SUBSET S |->
             IF T = {} THEN 0
             ELSE Len(htable[CHOOSE x \in T : TRUE]) + g[T \ {CHOOSE x \in T : TRUE}]]
           sum == CHOOSE g : Goes(g)
           c == [T \in SUBSET S |-> CHOOSE x \in T : TRUE]
           U == Used(count)
           N == [b \in S |-> {n \in U : Bucket[table[n]] = b}]
<1>1. Size(htable) = sum[S]
  BY DEF Size, MapThenSumSet, MapThenFoldSet
<1>2. IsFiniteSet(S) /\ f \in [S -> Int]
  BY WindowFinite, EntriesTyped
<1>3. ASSUME NEW g PROVE SumOf(g, S, f, c) <=> Goes(g)
  <2>1. \A T \in SUBSET S : T # {} => (CHOOSE x \in T : TRUE) \in S
    OBVIOUS
  <2>2. \A x \in S : f[x] = Len(htable[x])
    OBVIOUS
  <2>3. \A T \in SUBSET S : c[T] = CHOOSE x \in T : TRUE
    OBVIOUS
  <2> HIDE DEF f, c
  <2>4. \A T \in SUBSET S : (IF T = {} THEN 0 ELSE f[c[T]] + g[T \ {c[T]}])
          = (IF T = {} THEN 0
             ELSE Len(htable[CHOOSE x \in T : TRUE]) + g[T \ {CHOOSE x \in T : TRUE}])
    BY <2>1, <2>2, <2>3
  <2> QED
    BY <2>4 DEF SumOf
<1>p. Picks(c, S)
  BY DEF Picks
<1>4. ASSUME NEW b \in S PROVE IsFiniteSet(N[b]) /\ f[b] = Cardinality(N[b])
  <2> DEFINE s == htable[b]
             g == [i \in 1 .. Len(s) |-> s[i].nr]
             M == N[b]
  <2>1. Len(s) \in Nat /\ f[b] = Len(s)
    BY EntriesTyped
  <2>2. M = {n \in U : Bucket[table[n]] = b}
    OBVIOUS
  <2>3. /\ \A i \in 1 .. Len(s) : s[i].nr \in U /\ table[s[i].nr] = s[i].page /\ Bucket[s[i].page] = b
        /\ \A i, j \in 1 .. Len(s) : s[i].nr = s[j].nr => i = j
        /\ \A n \in U : Bucket[table[n]] = b => \E i \in 1 .. Len(s) : s[i].nr = n
    BY DEF HashExact
  <2> HIDE DEF s, U, M, f
  <2>4. g \in Bijection(1 .. Len(s), M)
    <3>1. g \in [1 .. Len(s) -> M] /\ \A i \in 1 .. Len(s) : g[i] = s[i].nr
      BY <2>2, <2>3
    <3> HIDE DEF g
    <3>2. \A n \in M : \E i \in 1 .. Len(s) : g[i] = n
      BY <2>2, <2>3, <3>1
    <3>3. \A i, j \in 1 .. Len(s) : g[i] = g[j] => i = j
      BY <2>3, <3>1
    <3> QED
      BY <3>1, <3>2, <3>3 DEF Bijection, Injection, Surjection, IsInjective
  <2>5. IsFiniteSet(1 .. Len(s)) /\ Cardinality(1 .. Len(s)) = Len(s)
    <3> DEFINE k == Len(s)
    <3>1. k \in Nat /\ 1 \in Int /\ k \in Int
      BY <2>1
    <3> HIDE DEF k
    <3>2. IsFiniteSet(1 .. k) /\ Cardinality(1 .. k) = IF 1 > k THEN 0 ELSE k - 1 + 1
      BY <3>1, FS_Interval
    <3>3. Cardinality(1 .. k) = k
      BY <3>1, <3>2
    <3> QED
      BY <3>2, <3>3 DEF k
  <2>6. IsFiniteSet(M) /\ Cardinality(M) = Len(s)
    BY <2>4, <2>5, FS_Bijection DEF ExistsBijection
  <2> QED
    BY <2>1, <2>6 DEF M
<1>5. AllOf(N, S) = U
  BY WindowFinite DEF SlotsApart, AllOf
<1>6. \A b, d \in S : b # d => N[b] \cap N[d] = {}
  OBVIOUS
<1> HIDE DEF S, f, c, Goes, N, U
<1>7. \E g : Goes(g)
  BY <1>2, <1>3, <1>p, SumExists
<1>8. Goes(sum)
  BY <1>7
<1> HIDE DEF sum
<1>9. AddsUp(sum, S, f)
  BY <1>2, <1>3, <1>8, <1>p, Summed
<1>10. CountsApart(f, N, S)
  BY <1>4, <1>6 DEF CountsApart
<1>11. sum[S] = Cardinality(AllOf(N, S))
  BY <1>2, <1>9, <1>10, SumOfCounts
<1> QED
  BY <1>1, <1>5, <1>11 DEF U

-----------------------------------------------------------------------------
(* How the window changes *)

(* A page gets a slot that was free. *)
LEMMA SlotTaken ==
  ASSUME NEW count, NEW table, NEW htable, NEW left, NEW users,
         Window(count, table, htable, left, users),
         NEW n \in Pkmaps, count[n] = 0,
         NEW p \in HighPages, \A m \in Used(count) : table[m] # p
  PROVE  Window([count EXCEPT ![n] = 2], [table EXCEPT ![n] = p],
                [htable EXCEPT ![Bucket[p]] = Append(@, [page |-> p, nr |-> n])],
                left - 1, [users EXCEPT ![p][n] = @ + 1])
<1> DEFINE c2 == [count EXCEPT ![n] = 2]
           t2 == [table EXCEPT ![n] = p]
           e == [page |-> p, nr |-> n]
           d == Bucket[p]
           h2 == [htable EXCEPT ![d] = Append(@, e)]
           k2 == [users EXCEPT ![p][n] = @ + 1]
           U == Used(count)
           U2 == Used(c2)
<1>1. /\ count \in [Pkmaps -> Nat] /\ table \in [Pkmaps -> HighPages \cup {NoPage}]
      /\ htable \in [Buckets -> Seq(Entry)] /\ users \in [HighPages -> [Pkmaps -> Nat]]
      /\ left = Cardinality(Pkmaps \ U) /\ d \in Buckets
      /\ IsFiniteSet(Pkmaps)
  BY WindowFinite DEF Window
<1>2. SlotsApart(count, table) /\ HashExact(count, table, htable) /\ CountsExact(count, table, users)
  BY DEF Window
<1>3. /\ U2 = U \cup {n} /\ n \notin U /\ U \subseteq Pkmaps
      /\ \A m \in Pkmaps : m # n => c2[m] = count[m] /\ t2[m] = table[m]
      /\ c2[n] = 2 /\ t2[n] = p
  BY <1>1 DEF Used
<1>4. c2 \in [Pkmaps -> Nat] /\ t2 \in [Pkmaps -> HighPages \cup {NoPage}]
  BY <1>1
<1>5. /\ e \in Entry /\ e.nr = n /\ e.page = p
  BY DEF Entry
<1>6. /\ Len(h2[d]) = Len(htable[d]) + 1 /\ h2[d] \in Seq(Entry)
      /\ h2[d][Len(htable[d]) + 1] = e
      /\ \A i \in 1 .. Len(htable[d]) : h2[d][i] = htable[d][i]
      /\ Len(htable[d]) \in Nat
      /\ \A b \in Buckets : b # d => h2[b] = htable[b]
  <2> DEFINE s == htable[d]
  <2>1. s \in Seq(Entry) /\ h2[d] = Append(s, e)
    BY <1>1
  <2> HIDE DEF s, e
  <2>2. /\ Append(s, e) \in Seq(Entry) /\ Len(Append(s, e)) = Len(s) + 1
        /\ \A i \in 1 .. Len(s) : Append(s, e)[i] = s[i]
        /\ Append(s, e)[Len(s) + 1] = e /\ Len(s) \in Nat
    BY <1>5, <2>1, AppendProperties, LenProperties
  <2>3. \A b \in Buckets : b # d => h2[b] = htable[b]
    BY <1>1
  <2> HIDE DEF h2
  <2> QED
    BY <2>1, <2>2, <2>3 DEF s
<1>7. h2 \in [Buckets -> Seq(Entry)]
  BY <1>1, <1>5, <1>6
<1>8. k2 \in [HighPages -> [Pkmaps -> Nat]]
      /\ k2[p][n] = users[p][n] + 1
      /\ \A q \in HighPages, m \in Pkmaps : q # p \/ m # n => k2[q][m] = users[q][m]
  BY <1>1
<1>9. left - 1 = Cardinality(Pkmaps \ U2)
  <2> DEFINE A == Pkmaps \ U
  <2>1. Pkmaps \ U2 = A \ {n} /\ n \in A
    BY <1>3
  <2>2. IsFiniteSet(A)
    BY <1>1, FS_Subset
  <2> HIDE DEF A
  <2>3. Cardinality(A \ {n}) = Cardinality(A) - 1
    BY <2>1, <2>2, FS_RemoveElement
  <2> QED
    BY <1>1, <2>1, <2>3 DEF A
<1> HIDE DEF e, h2, c2, t2, k2, d
<1>10. SlotsApart(c2, t2)
  BY <1>2, <1>3 DEF SlotsApart
<1>11. CountsExact(c2, t2, k2)
  <2> SUFFICES ASSUME NEW m \in Pkmaps, NEW q \in HighPages
               PROVE  IF m \in U2 /\ t2[m] = q THEN c2[m] = k2[q][m] + 1 ELSE k2[q][m] = 0
    BY DEF CountsExact
  <2>1. IF m \in U /\ table[m] = q THEN count[m] = users[q][m] + 1 ELSE users[q][m] = 0
    BY <1>2 DEF CountsExact
  <2> QED
    BY <1>3, <1>8, <2>1
<1>12. HashExact(c2, t2, h2)
  <2> SUFFICES ASSUME NEW b \in Buckets
               PROVE  /\ \A i \in 1 .. Len(h2[b]) :
                           /\ h2[b][i].nr \in U2
                           /\ t2[h2[b][i].nr] = h2[b][i].page
                           /\ Bucket[h2[b][i].page] = b
                      /\ \A i, j \in 1 .. Len(h2[b]) : h2[b][i].nr = h2[b][j].nr => i = j
                      /\ \A m \in U2 :
                           Bucket[t2[m]] = b => \E i \in 1 .. Len(h2[b]) : h2[b][i].nr = m
    BY DEF HashExact
  <2>1. /\ \A i \in 1 .. Len(htable[b]) :
             /\ htable[b][i].nr \in U
             /\ table[htable[b][i].nr] = htable[b][i].page
             /\ Bucket[htable[b][i].page] = b
        /\ \A i, j \in 1 .. Len(htable[b]) : htable[b][i].nr = htable[b][j].nr => i = j
        /\ \A m \in U : Bucket[table[m]] = b => \E i \in 1 .. Len(htable[b]) : htable[b][i].nr = m
    BY <1>2 DEF HashExact
  <2> HIDE DEF U, U2
  <2>2. CASE b # d
    <3>1. h2[b] = htable[b]
      BY <1>6, <2>2
    <3>2. Bucket[t2[n]] # b
      BY <1>3, <2>2 DEF d
    <3> QED
      BY <1>3, <2>1, <3>1, <3>2
  <2>3. CASE b = d
    <3> DEFINE k == Len(htable[d])
               x == htable[d]
               y == h2[d]
    <3>1. /\ k \in Nat /\ Len(y) = k + 1 /\ y[k + 1] = e
          /\ \A i \in 1 .. k : y[i] = x[i]
      BY <1>6
    <3>2. /\ \A i \in 1 .. k :
               x[i].nr \in U /\ table[x[i].nr] = x[i].page /\ Bucket[x[i].page] = b
          /\ \A i, j \in 1 .. k : x[i].nr = x[j].nr => i = j
          /\ \A m \in U : Bucket[table[m]] = b => \E i \in 1 .. k : x[i].nr = m
      BY <2>1, <2>3
    <3> HIDE DEF k, x, y
    <3>3. \A i \in 1 .. k + 1 : i \in 1 .. k \/ i = k + 1
      BY <3>1
    <3>4. 1 .. k \subseteq 1 .. k + 1 /\ k + 1 \in 1 .. k + 1
      BY <3>1
    <3>5. ASSUME NEW i \in 1 .. k + 1
          PROVE  y[i].nr \in U2 /\ t2[y[i].nr] = y[i].page /\ Bucket[y[i].page] = b
      BY <1>3, <1>5, <2>3, <3>1, <3>2, <3>3 DEF d
    <3>6. ASSUME NEW i \in 1 .. k + 1, NEW j \in 1 .. k + 1, y[i].nr = y[j].nr
          PROVE  i = j
      BY <1>3, <1>5, <3>1, <3>2, <3>3, <3>6
    <3>7. ASSUME NEW m \in U2, Bucket[t2[m]] = b
          PROVE  \E i \in 1 .. k + 1 : y[i].nr = m
      <4>1. CASE m = n
        BY <1>5, <3>1, <3>4, <4>1
      <4>2. CASE m # n
        <5>1. m \in U /\ Bucket[table[m]] = b
          BY <1>3, <3>7, <4>2
        <5>2. PICK i \in 1 .. k : x[i].nr = m
          BY <3>2, <5>1
        <5> QED
          BY <3>1, <3>4, <5>2
      <4> QED
        BY <4>1, <4>2
    <3> QED
      BY <2>3, <3>1, <3>5, <3>6, <3>7 DEF y
  <2> QED
    BY <2>2, <2>3
<1>13. Window(c2, t2, h2, left - 1, k2)
  BY <1>4, <1>7, <1>8, <1>9, <1>10, <1>11, <1>12 DEF Window
<1> QED
  BY <1>13 DEF c2, t2, h2, k2, e, d

(* The users of a slot come and go, but for the last count. *)
LEMMA UsersChange ==
  ASSUME NEW count, NEW table, NEW htable, NEW left, NEW users,
         Window(count, table, htable, left, users),
         NEW n \in Used(count), NEW v \in Nat, NEW p \in HighPages, table[n] = p
  PROVE  Window([count EXCEPT ![n] = v + 1], table, htable, left, [users EXCEPT ![p][n] = v])
<1> DEFINE c2 == [count EXCEPT ![n] = v + 1]
           k2 == [users EXCEPT ![p][n] = v]
<1>1. /\ count \in [Pkmaps -> Nat] /\ users \in [HighPages -> [Pkmaps -> Nat]] /\ n \in Pkmaps
  BY DEF Window, Used
<1>2. SlotsApart(count, table) /\ HashExact(count, table, htable) /\ CountsExact(count, table, users)
  BY DEF Window
<1>3. c2 \in [Pkmaps -> Nat] /\ k2 \in [HighPages -> [Pkmaps -> Nat]]
  BY <1>1
<1>4. /\ c2[n] = v + 1 /\ \A m \in Pkmaps : m # n => c2[m] = count[m]
      /\ k2[p][n] = v
      /\ \A q \in HighPages, m \in Pkmaps : q # p \/ m # n => k2[q][m] = users[q][m]
  BY <1>1
<1> HIDE DEF c2, k2
<1>5. v + 1 # 0
  OBVIOUS
<1>6. Used(c2) = Used(count)
  BY <1>1, <1>4, <1>5 DEF Used
<1>7. CountsExact(c2, table, k2)
  <2> SUFFICES ASSUME NEW m \in Pkmaps, NEW q \in HighPages
               PROVE  IF m \in Used(count) /\ table[m] = q THEN c2[m] = k2[q][m] + 1 ELSE k2[q][m] = 0
    BY <1>6 DEF CountsExact
  <2>1. IF m \in Used(count) /\ table[m] = q THEN count[m] = users[q][m] + 1 ELSE users[q][m] = 0
    BY <1>2 DEF CountsExact
  <2> QED
    BY <1>4, <2>1
<1>8. SlotsApart(c2, table) /\ HashExact(c2, table, htable)
  BY <1>2, <1>6 DEF SlotsApart, HashExact
<1>9. Window(c2, table, htable, left, k2)
  BY <1>3, <1>6, <1>7, <1>8 DEF Window
<1> QED
  BY <1>9 DEF c2, k2

LEMMA HeadsTaken ==
  ASSUME NEW htable \in [Buckets -> Seq(Entry)], NEW b \in Buckets, NEW l \in Nat
  PROVE  LET s == htable[b]
             k == Min({l, Len(s)})
             t == SubSeq(s, k + 1, Len(s))
         IN /\ k \in 0 .. Len(s) /\ t \in Seq(Entry) /\ Len(t) = Len(s) - k
            /\ \A i \in 1 .. Len(t) : t[i] = s[i + k] /\ i + k \in 1 .. Len(s)
<1> DEFINE s == htable[b]
           m == Len(s)
           k == Min({l, m})
           t == SubSeq(s, k + 1, m)
<1>1. s \in Seq(Entry) /\ m \in Nat
  BY LenProperties
<1> HIDE DEF s, m
<1>2. k \in 0 .. m
  <2>1. {l, m} \subseteq Nat /\ {l, m} # {}
    BY <1>1
  <2>2. k \in {l, m} /\ k <= m
    BY <2>1, MinOfNumbers
  <2> HIDE DEF k
  <2> QED
    BY <1>1, <2>2
<1> HIDE DEF k
<1>3. \A i \in k + 1 .. m : i \in 1 .. m
  BY <1>1, <1>2
<1>4. s \in [1 .. m -> Entry] /\ DOMAIN s = 1 .. m
  BY <1>1, LenProperties DEF m
<1>5. t \in Seq(Entry)
  BY <1>1, <1>2, <1>3, <1>4, SubSeqProperties DEF m
<1>6. Len(t) = m - k /\ \A i \in 1 .. m - k : t[i] = s[k + 1 + i - 1]
  <2>1. Len(t) = IF k + 1 <= m THEN m - (k + 1) + 1 ELSE 0
    BY <1>1, <1>2, <1>3, <1>4, SubSeqProperties DEF m
  <2>2. \A i \in 1 .. m - (k + 1) + 1 : t[i] = s[k + 1 + i - 1]
    BY <1>1, <1>2, <1>3, <1>4, SubSeqProperties DEF m
  <2>3. Len(t) = m - k /\ m - (k + 1) + 1 = m - k
    BY <1>1, <1>2, <2>1
  <2> QED
    BY <2>2, <2>3
<1>7. \A i \in 1 .. m - k : k + 1 + i - 1 = i + k /\ i + k \in 1 .. m
  BY <1>1, <1>2
<1> QED
  BY <1>2, <1>5, <1>6, <1>7 DEF s, m, k

(* Slots without users are given up, and their entries with them. *)
LEMMA SlotsFlushed ==
  ASSUME HighmemSound, NEW gone \in [Buckets -> Nat],
         Lacks(WithoutHeads(gone), Unused)
  PROVE  Window([n \in Pkmaps |-> IF n \in Unused THEN 0 ELSE pkmap_count[n]],
                pkmap_page_table, WithoutHeads(gone),
                page_address_pool + Size(page_address_htable) - Size(WithoutHeads(gone)), kmaps)
<1> DEFINE c == pkmap_count
           t == pkmap_page_table
           h == page_address_htable
           c2 == [n \in Pkmaps |-> IF n \in Unused THEN 0 ELSE c[n]]
           h2 == WithoutHeads(gone)
           U == Used(c)
           U2 == Used(c2)
<1>1. /\ c \in [Pkmaps -> Nat] /\ t \in [Pkmaps -> HighPages \cup {NoPage}]
      /\ h \in [Buckets -> Seq(Entry)] /\ kmaps \in [HighPages -> [Pkmaps -> Nat]]
      /\ page_address_pool = Cardinality(Pkmaps \ U)
      /\ SlotsApart(c, t) /\ HashExact(c, t, h) /\ CountsExact(c, t, kmaps)
  BY DEF HighmemSound, Window
<1>2. /\ Unused \subseteq Pkmaps /\ \A n \in Unused : c[n] = 1
      /\ c2 \in [Pkmaps -> Nat]
      /\ \A n \in Pkmaps : c2[n] = IF n \in Unused THEN 0 ELSE c[n]
  BY <1>1 DEF Unused
<1> HIDE DEF c2
<1>3. U2 = U \ Unused /\ U \subseteq Pkmaps /\ U2 \subseteq Pkmaps
  BY <1>2 DEF Used
<1>4. ASSUME NEW b \in Buckets
      PROVE  /\ h2[b] \in Seq(Entry) /\ Len(h2[b]) \in Nat
             /\ \E k \in Nat : \A i \in 1 .. Len(h2[b]) :
                  h2[b][i] = h[b][i + k] /\ i + k \in 1 .. Len(h[b])
  <2> DEFINE s == h[b]
             k == Min({gone[b], Len(s)})
             x == SubSeq(s, k + 1, Len(s))
  <2>1. h2[b] = x
    BY DEF WithoutHeads
  <2>2. gone[b] \in Nat
    OBVIOUS
  <2>3. /\ k \in 0 .. Len(s) /\ x \in Seq(Entry)
        /\ \A i \in 1 .. Len(x) : x[i] = s[i + k] /\ i + k \in 1 .. Len(s)
    BY <1>1, <2>2, HeadsTaken
  <2>4. Len(x) \in Nat /\ k \in Nat
    <3> HIDE DEF x, k
    <3> QED
      BY <2>3, LenProperties
  <2> HIDE DEF x, k, h2
  <2> QED
    BY <2>1, <2>3, <2>4
<1>5. h2 \in [Buckets -> Seq(Entry)]
  BY <1>4 DEF WithoutHeads
<1> HIDE DEF h2
<1>6. SlotsApart(c2, t)
  BY <1>1, <1>3 DEF SlotsApart
<1>7. CountsExact(c2, t, kmaps)
  <2> SUFFICES ASSUME NEW n \in Pkmaps, NEW p \in HighPages
               PROVE  IF n \in U2 /\ t[n] = p THEN c2[n] = kmaps[p][n] + 1 ELSE kmaps[p][n] = 0
    BY DEF CountsExact
  <2>1. /\ IF n \in U /\ t[n] = p THEN c[n] = kmaps[p][n] + 1 ELSE kmaps[p][n] = 0
        /\ kmaps[p][n] \in Nat
    BY <1>1 DEF CountsExact
  <2>2. n \in Unused => c[n] = 1
    BY <1>2
  <2> QED
    BY <1>2, <1>3, <2>1, <2>2
<1>8. HashExact(c2, t, h2)
  <2> SUFFICES ASSUME NEW b \in Buckets
               PROVE  /\ \A i \in 1 .. Len(h2[b]) :
                           /\ h2[b][i].nr \in U2
                           /\ t[h2[b][i].nr] = h2[b][i].page
                           /\ Bucket[h2[b][i].page] = b
                      /\ \A i, j \in 1 .. Len(h2[b]) : h2[b][i].nr = h2[b][j].nr => i = j
                      /\ \A m \in U2 :
                           Bucket[t[m]] = b => \E i \in 1 .. Len(h2[b]) : h2[b][i].nr = m
    BY DEF HashExact
  <2> DEFINE x == h[b]
             y == h2[b]
             m == Len(x)
             q == Len(y)
  <2>1. /\ \A i \in 1 .. m : x[i].nr \in U /\ t[x[i].nr] = x[i].page /\ Bucket[x[i].page] = b
        /\ \A i, j \in 1 .. m : x[i].nr = x[j].nr => i = j
        /\ \A n \in U : Bucket[t[n]] = b => \E i \in 1 .. m : x[i].nr = n
    BY <1>1 DEF HashExact
  <2>2. PICK k \in Nat : \A i \in 1 .. q : y[i] = x[i + k] /\ i + k \in 1 .. m
    BY <1>4
  <2>3. /\ ToSet(y) = {e \in ToSet(x) : e.nr \notin Unused}
        /\ ToSet(x) = {x[i] : i \in 1 .. m} /\ ToSet(y) = {y[i] : i \in 1 .. q}
    <3>1. ToSet(y) = {e \in ToSet(x) : e.nr \notin Unused}
      BY DEF Lacks, h2
    <3>2. x \in Seq(Entry) /\ y \in Seq(Entry)
      BY <1>1, <1>4
    <3> HIDE DEF x, y
    <3> QED
      BY <3>1, <3>2, ToSetOfSeq
  <2>4. q \in Nat
    BY <1>4
  <2> HIDE DEF x, y, m, q, U, U2
  <2>5. ASSUME NEW i \in 1 .. q
        PROVE  y[i].nr \in U2 /\ t[y[i].nr] = y[i].page /\ Bucket[y[i].page] = b
    <3>1. y[i].nr \notin Unused
      BY <2>3
    <3> QED
      BY <1>3, <2>1, <2>2, <3>1
  <2>6. ASSUME NEW i \in 1 .. q, NEW j \in 1 .. q, y[i].nr = y[j].nr
        PROVE  i = j
    <3>1. i + k = j + k
      BY <2>1, <2>2, <2>6
    <3> QED
      BY <2>4, <3>1
  <2>7. ASSUME NEW n \in U2, Bucket[t[n]] = b
        PROVE  \E i \in 1 .. q : y[i].nr = n
    <3>1. n \in U /\ n \notin Unused
      BY <1>3
    <3>2. PICK i \in 1 .. m : x[i].nr = n
      BY <2>1, <2>7, <3>1
    <3>3. x[i] \in ToSet(y)
      BY <2>3, <3>1, <3>2
    <3> QED
      BY <2>3, <3>2, <3>3
  <2> QED
    BY <2>5, <2>6, <2>7 DEF y, q
<1>9. page_address_pool + Size(h) - Size(h2) = Cardinality(Pkmaps \ U2)
  <2>1. Size(h) = Cardinality(U)
    BY <1>1, SizeIs
  <2>2. Size(h2) = Cardinality(U2)
    BY <1>5, <1>6, <1>8, SizeIs
  <2> DEFINE P == Pkmaps
  <2>3. IsFiniteSet(P) /\ U \in SUBSET P /\ U2 \in SUBSET P
    BY <1>3, WindowFinite
  <2>7. page_address_pool = Cardinality(P \ U)
    BY <1>1
  <2> HIDE DEF P, U, U2, h, c
  <2>4. /\ Cardinality(P \ U) = Cardinality(P) - Cardinality(P \cap U)
        /\ Cardinality(P \ U2) = Cardinality(P) - Cardinality(P \cap U2)
    BY <2>3, FS_Difference
  <2>5. P \cap U = U /\ P \cap U2 = U2
    BY <2>3
  <2>6. Cardinality(P) \in Nat /\ Cardinality(U) \in Nat /\ Cardinality(U2) \in Nat
    BY <2>3, FS_Subset, FS_CardinalityType
  <2>8. /\ Cardinality(P \ U) = Cardinality(P) - Cardinality(U)
        /\ Cardinality(P \ U2) = Cardinality(P) - Cardinality(U2)
    BY <2>4, <2>5
  <2>9. page_address_pool + Cardinality(U) - Cardinality(U2) = Cardinality(P \ U2)
    BY <2>6, <2>7, <2>8
  <2> QED
    BY <2>1, <2>2, <2>9 DEF P
<1>10. Window(c2, t, h2, page_address_pool + Size(h) - Size(h2), kmaps)
  BY <1>1, <1>2, <1>5, <1>6, <1>7, <1>8, <1>9 DEF Window
<1> QED
  BY <1>10 DEF c2, h2

-----------------------------------------------------------------------------
(* The steps *)

LEMMA SoundNext ==
  ASSUME Window(pkmap_count', pkmap_page_table', page_address_htable', page_address_pool', kmaps')
  PROVE  HighmemSound'
BY DEF HighmemSound, Window, SlotsApart, HashExact, CountsExact, Used

LEMMA TurnKeeps ==
  ASSUME NEW count, NEW htable, NEW left,
         Window(count, pkmap_page_table, htable, left, kmaps),
         mapping \in HighPages, \A n \in Used(count) : pkmap_page_table[n] # mapping,
         last_pkmap_nr \in Nat, AtomicsApart, TryPkmap(count, htable, left)
  PROVE  HighmemSound' /\ MapsNewPage' /\ AtomicsApart' /\ last_pkmap_nr' \in Nat
<1> DEFINE n == NextPkmap
           t == pkmap_page_table
<1>1. n \in Pkmaps /\ n \in Nat /\ last_pkmap_nr' = n
  BY NextPkmapInWindow, WindowFinite DEF TryPkmap
<1>2. AtomicsApart'
  BY DEF TryPkmap, AtomicsApart
<1> HIDE DEF n
<1>3. CASE count[n] = 0
  <2>1. MapAt(mapping, n, count, htable, left)
    BY <1>3 DEF TryPkmap, n
  <2>2. /\ pkmap_count' = [count EXCEPT ![n] = 2]
        /\ pkmap_page_table' = [t EXCEPT ![n] = mapping]
        /\ page_address_htable' = [htable EXCEPT ![Bucket[mapping]] = Append(@, [page |-> mapping, nr |-> n])]
        /\ page_address_pool' = left - 1
        /\ kmaps' = [kmaps EXCEPT ![mapping][n] = @ + 1]
        /\ mapping' = NoPage
    BY <2>1 DEF MapAt
  <2>3. Window(pkmap_count', pkmap_page_table', page_address_htable', page_address_pool', kmaps')
    BY <1>1, <1>3, <2>2, SlotTaken
  <2>4. MapsNewPage'
    BY <2>2 DEF MapsNewPage
  <2> QED
    BY <1>1, <1>2, <2>3, <2>4, SoundNext
<1>4. CASE count[n] # 0
  <2>1. KeepLooking(count, htable, left)
    BY <1>4 DEF TryPkmap, n
  <2>2. /\ pkmap_count' = count /\ page_address_htable' = htable /\ page_address_pool' = left
        /\ pkmap_page_table' = t /\ kmaps' = kmaps /\ mapping' = mapping
    BY <2>1 DEF KeepLooking
  <2>3. Window(pkmap_count', pkmap_page_table', page_address_htable', page_address_pool', kmaps')
    BY <2>2
  <2>4. Used(count)' = Used(count)
    OBVIOUS
  <2>5. MapsNewPage'
    BY <2>2 DEF MapsNewPage, Used
  <2> QED
    BY <1>1, <1>2, <2>3, <2>5, SoundNext
<1> QED
  BY <1>3, <1>4

LEMMA ScanKeeps ==
  ASSUME HighmemInv, ScanPkmap
  PROVE  HighmemInv'
<1>1. /\ HighmemSound /\ MapsNewPage /\ AtomicsApart /\ last_pkmap_nr \in Nat
      /\ mapping # NoPage /\ highmem' = highmem
      /\ TryPkmap(pkmap_count, page_address_htable, page_address_pool)
  BY DEF HighmemInv, ScanPkmap, Looking
<1>2. /\ Window(pkmap_count, pkmap_page_table, page_address_htable, page_address_pool, kmaps)
      /\ mapping \in HighPages /\ \A n \in Used(pkmap_count) : pkmap_page_table[n] # mapping
  BY <1>1 DEF HighmemSound, MapsNewPage
<1>3. HighmemSound' /\ MapsNewPage' /\ AtomicsApart' /\ last_pkmap_nr' \in Nat
  BY <1>1, <1>2, TurnKeeps
<1> QED
  BY <1>3 DEF HighmemInv

LEMMA FlushKeeps ==
  ASSUME HighmemInv, FlushPkmaps
  PROVE  HighmemInv'
<1> DEFINE c2 == [n \in Pkmaps |-> IF n \in Unused THEN 0 ELSE pkmap_count[n]]
           Lost(hashed) == [b \in Buckets |-> Cardinality({n \in Unused : hashed[n] = b})]
<1>1. PICK hashed \in [Unused -> Buckets] :
        /\ TryPkmap(c2, WithoutHeads(Lost(hashed)),
                    page_address_pool + Size(page_address_htable) - Size(WithoutHeads(Lost(hashed))))
        /\ highmem' = IF Lacks(WithoutHeads(Lost(hashed)), Unused) THEN "ok" ELSE "strayed"
  BY DEF FlushPkmaps
<1> DEFINE gone == Lost(hashed)
           h2 == WithoutHeads(gone)
           left == page_address_pool + Size(page_address_htable) - Size(h2)
<1>2. CASE Lacks(h2, Unused)
  <2>1. /\ HighmemSound /\ MapsNewPage /\ AtomicsApart /\ last_pkmap_nr \in Nat
        /\ mapping # NoPage
    BY DEF HighmemInv, FlushPkmaps, Looking
  <2>2. gone \in [Buckets -> Nat]
    <3>1. IsFiniteSet(Unused)
      BY WindowFinite, FS_Subset DEF Unused
    <3>2. ASSUME NEW b \in Buckets
          PROVE  Cardinality({n \in Unused : hashed[n] = b}) \in Nat
      BY <3>1, FS_Subset, FS_CardinalityType
    <3> QED
      BY <3>2
  <2> HIDE DEF gone
  <2>3. Window(c2, pkmap_page_table, h2, left, kmaps)
    BY <1>2, <2>1, <2>2, SlotsFlushed
  <2>4. TryPkmap(c2, h2, left)
    BY <1>1 DEF gone
  <2>5. Used(c2) \subseteq Used(pkmap_count)
    BY DEF Used, Unused
  <2>6. mapping \in HighPages /\ \A n \in Used(c2) : pkmap_page_table[n] # mapping
    BY <2>1, <2>5 DEF MapsNewPage
  <2> HIDE DEF c2, h2, left
  <2>7. HighmemSound' /\ MapsNewPage' /\ AtomicsApart' /\ last_pkmap_nr' \in Nat
    BY <2>1, <2>3, <2>4, <2>6, TurnKeeps
  <2> QED
    BY <2>7 DEF HighmemInv
<1>3. CASE ~Lacks(h2, Unused)
  BY <1>1, <1>3 DEF HighmemInv
<1> QED
  BY <1>2, <1>3

LEMMA UserKeeps ==
  ASSUME HighmemInv, NEW p \in HighPages, KmapAgain(p) \/ kunmap(p)
  PROVE  HighmemInv'
<1> DEFINE n == SlotOf(p)
           c == pkmap_count
<1>1. /\ HighmemSound /\ MapsNewPage /\ AtomicsApart /\ last_pkmap_nr \in Nat
      /\ mapping = NoPage /\ Mapped(p)
      /\ highmem' = highmem /\ pkmap_page_table' = pkmap_page_table
      /\ page_address_htable' = page_address_htable /\ page_address_pool' = page_address_pool
      /\ mapping' = mapping /\ last_pkmap_nr' = last_pkmap_nr
      /\ atomics' = atomics /\ __kmap_atomic_idx' = __kmap_atomic_idx
  BY DEF HighmemInv, KmapAgain, kunmap, Idle
<1>2. n \in Used(c) /\ pkmap_page_table[n] = p
  BY <1>1, PageFound
<1>3. \/ /\ pkmap_count' = [c EXCEPT ![n] = @ + 1]
         /\ kmaps' = [kmaps EXCEPT ![p][n] = @ + 1]
      \/ /\ kmaps[p][n] > 0
         /\ pkmap_count' = [c EXCEPT ![n] = @ - 1]
         /\ kmaps' = [kmaps EXCEPT ![p][n] = @ - 1]
  BY DEF KmapAgain, kunmap
<1> HIDE DEF n
<1>4. /\ c \in [Pkmaps -> Nat] /\ kmaps \in [HighPages -> [Pkmaps -> Nat]] /\ n \in Pkmaps
      /\ c[n] = kmaps[p][n] + 1
  BY <1>1, <1>2 DEF HighmemSound, Window, CountsExact, Used
<1>5. PICK v \in Nat : /\ pkmap_count' = [c EXCEPT ![n] = v + 1]
                       /\ kmaps' = [kmaps EXCEPT ![p][n] = v]
  <2>1. kmaps[p][n] \in Nat
    BY <1>4
  <2> DEFINE u == kmaps[p][n]
  <2>2. CASE pkmap_count' = [c EXCEPT ![n] = @ + 1] /\ kmaps' = [kmaps EXCEPT ![p][n] = @ + 1]
    <3>1. pkmap_count' = [c EXCEPT ![n] = (u + 1) + 1] /\ kmaps' = [kmaps EXCEPT ![p][n] = u + 1]
      BY <1>4, <2>2
    <3>2. u + 1 \in Nat
      BY <2>1
    <3> QED
      BY <3>1, <3>2
  <2>3. CASE u > 0 /\ pkmap_count' = [c EXCEPT ![n] = @ - 1] /\ kmaps' = [kmaps EXCEPT ![p][n] = @ - 1]
    <3>1. c[n] - 1 = (u - 1) + 1 /\ u - 1 \in Nat
      BY <1>4, <2>1, <2>3
    <3>2. pkmap_count' = [c EXCEPT ![n] = (u - 1) + 1] /\ kmaps' = [kmaps EXCEPT ![p][n] = u - 1]
      BY <2>3, <3>1
    <3> QED
      BY <3>1, <3>2
  <2> QED
    BY <1>3, <2>2, <2>3
<1>6. Window(pkmap_count', pkmap_page_table', page_address_htable', page_address_pool', kmaps')
  BY <1>1, <1>2, <1>5, UsersChange DEF HighmemSound
<1>7. MapsNewPage' /\ AtomicsApart' /\ last_pkmap_nr' \in Nat
  BY <1>1 DEF MapsNewPage, AtomicsApart
<1> QED
  BY <1>6, <1>7, SoundNext DEF HighmemInv

LEMMA NewKeeps ==
  ASSUME HighmemInv, NEW p \in HighPages, KmapNew(p)
  PROVE  HighmemInv'
<1>1. /\ HighmemSound /\ AtomicsApart /\ last_pkmap_nr \in Nat /\ ~Mapped(p)
      /\ UNCHANGED <<kmapVars, userVars, highmem>> /\ mapping' = p
  BY DEF HighmemInv, KmapNew, Idle
<1>2. \A n \in Used(pkmap_count) : pkmap_page_table[n] # p
  BY <1>1, PageFound
<1>3. MapsNewPage'
  BY <1>1, <1>2 DEF MapsNewPage, Used, kmapVars
<1>4. HighmemSound' /\ AtomicsApart' /\ last_pkmap_nr' \in Nat
  BY <1>1 DEF HighmemSound, AtomicsApart, kmapVars, userVars
<1> QED
  BY <1>3, <1>4 DEF HighmemInv

LEMMA AtomicKeeps ==
  ASSUME HighmemInv,
         \/ \E p \in HighPages : __kmap_atomic(p)
         \/ \E a \in atomics : __kunmap_atomic(a)
  PROVE  HighmemInv'
<1>1. /\ HighmemSound /\ MapsNewPage /\ AtomicsApart /\ last_pkmap_nr \in Nat
      /\ UNCHANGED <<kmapVars, kmaps, mapping, highmem>>
      /\ __kmap_atomic_idx' = __kmap_atomic_idx + 1
      /\ \/ \E p \in HighPages : atomics' = atomics \cup {[nr |-> __kmap_atomic_idx, page |-> p]}
         \/ \E a \in atomics : atomics' = atomics \ {a}
  BY DEF HighmemInv, __kmap_atomic, __kunmap_atomic, Idle
<1>2. AtomicsApart'
  <2> DEFINE k == __kmap_atomic_idx
  <2>1. /\ k \in Nat /\ \A a \in atomics : a.nr \in Nat /\ a.nr < k
        /\ \A a, c \in atomics : a.nr = c.nr => a = c
    BY <1>1 DEF AtomicsApart
  <2>2. k + 1 \in Nat /\ (\A a \in atomics : a.nr \in Nat /\ a.nr < k + 1 /\ a.nr # k)
    BY <2>1
  <2>3. ASSUME NEW p \in HighPages, atomics' = atomics \cup {[nr |-> k, page |-> p]}
        PROVE  AtomicsApart'
    <3> DEFINE e == [nr |-> k, page |-> p]
    <3>1. e.nr = k /\ k < k + 1
      BY <2>1
    <3> HIDE DEF e
    <3>2. atomics' = atomics \cup {e}
      BY <2>3 DEF e
    <3>3. \A a \in atomics' : a.nr \in Nat /\ a.nr < k + 1
      BY <2>1, <2>2, <3>1, <3>2
    <3>4. \A a, c \in atomics' : a.nr = c.nr => a = c
      BY <2>1, <2>2, <3>1, <3>2
    <3> QED
      BY <1>1, <2>2, <3>3, <3>4 DEF AtomicsApart
  <2>4. ASSUME NEW a \in atomics, atomics' = atomics \ {a}
        PROVE  AtomicsApart'
    BY <1>1, <2>1, <2>2, <2>4 DEF AtomicsApart
  <2> QED
    BY <1>1, <2>3, <2>4
<1>3. HighmemSound' /\ MapsNewPage' /\ last_pkmap_nr' \in Nat
  BY <1>1 DEF HighmemSound, MapsNewPage, kmapVars
<1> QED
  BY <1>2, <1>3 DEF HighmemInv

LEMMA FaultKeeps ==
  ASSUME HighmemInv, Fault, highmem = "ok"
  PROVE  HighmemInv'
<1>1. /\ HighmemSound /\ MapsNewPage /\ AtomicsApart /\ last_pkmap_nr \in Nat
      /\ UNCHANGED <<kmapVars, userVars, mapping>>
  BY DEF HighmemInv, Fault
<1> QED
  BY <1>1 DEF HighmemInv, HighmemSound, MapsNewPage, AtomicsApart, kmapVars, userVars

LEMMA HighmemNextKeeps ==
  ASSUME HighmemInv, [HighmemNext]_highmemVars
  PROVE  HighmemInv'
<1>1. CASE UNCHANGED highmemVars
  BY <1>1 DEF HighmemInv, HighmemSound, MapsNewPage, AtomicsApart, highmemVars, kmapVars, userVars
<1>2. ASSUME NEW p \in HighPages, KmapAgain(p) \/ KmapNew(p) \/ kunmap(p) \/ __kmap_atomic(p)
      PROVE  HighmemInv'
  BY <1>2, UserKeeps, NewKeeps, AtomicKeeps
<1>3. CASE MapStep
  <2>1. CASE FlushWild
    <3>1. Fault /\ highmem = "ok"
      BY <2>1 DEF FlushWild, Looking
    <3> QED
      BY <3>1, FaultKeeps
  <2> QED
    BY <1>3, <2>1, ScanKeeps, FlushKeeps DEF MapStep
<1>4. ASSUME NEW a \in atomics, __kunmap_atomic(a)
      PROVE  HighmemInv'
  BY <1>4, AtomicKeeps
<1>5. CASE AtomicPastEnd
  <2>1. Fault /\ highmem = "ok"
    BY <1>5 DEF AtomicPastEnd, Idle
  <2> QED
    BY <2>1, FaultKeeps
<1> QED
  BY <1>1, <1>2, <1>3, <1>4, <1>5 DEF HighmemNext

LEMMA HighmemInitSound ==
  ASSUME HighmemInit
  PROVE  HighmemInv
<1> DEFINE c == [n \in Pkmaps |-> 0]
           t == [n \in Pkmaps |-> NoPage]
           h == [b \in Buckets |-> <<>>]
           k == [p \in HighPages |-> [n \in Pkmaps |-> 0]]
<1>1. Used(c) = {} /\ c \in [Pkmaps -> Nat] /\ t \in [Pkmaps -> HighPages \cup {NoPage}]
  BY DEF Used
<1>2. h \in [Buckets -> Seq(Entry)] /\ \A b \in Buckets : 1 .. Len(h[b]) = {}
  <2>1. <<>> \in Seq(Entry) /\ Len(<<>>) = 0 /\ 1 .. 0 = {}
    BY EmptySeq
  <2> QED
    BY <2>1
<1>3. k \in [HighPages -> [Pkmaps -> Nat]] /\ \A p \in HighPages, n \in Pkmaps : k[p][n] = 0
  OBVIOUS
<1>4. LAST_PKMAP = Cardinality(Pkmaps)
  <2>1. LAST_PKMAP - 1 \in Int /\ 0 \in Int /\ LAST_PKMAP \in Nat \ {0}
    BY WindowFinite
  <2>2. Cardinality(0 .. LAST_PKMAP - 1) = IF 0 > LAST_PKMAP - 1 THEN 0 ELSE LAST_PKMAP - 1 - 0 + 1
    BY <2>1, FS_Interval
  <2> QED
    BY <2>1, <2>2 DEF Pkmaps
<1> HIDE DEF c, t, h, k
<1>5. Pkmaps \ Used(c) = Pkmaps
  BY <1>1
<1>6. SlotsApart(c, t) /\ HashExact(c, t, h) /\ CountsExact(c, t, k)
  BY <1>1, <1>2, <1>3 DEF SlotsApart, HashExact, CountsExact
<1>7. Window(c, t, h, LAST_PKMAP, k)
  BY <1>1, <1>2, <1>3, <1>4, <1>5, <1>6 DEF Window
<1>8. HighmemSound
  BY <1>7 DEF HighmemSound, HighmemInit, c, t, h, k
<1>9. MapsNewPage /\ AtomicsApart /\ last_pkmap_nr \in Nat
  BY DEF HighmemInit, MapsNewPage, AtomicsApart
<1> QED
  BY <1>8, <1>9 DEF HighmemInv

LEMMA HighmemInvImplies ==
  ASSUME HighmemInv
  PROVE  AddressesRight
<1> SUFFICES ASSUME highmem # "strayed" PROVE AddressesRight
  BY DEF AddressesRight
<1> DEFINE c == pkmap_count
           t == pkmap_page_table
           U == Used(c)
<1>1. HighmemSound /\ AtomicsApart
  BY DEF HighmemInv
<1>2. /\ c \in [Pkmaps -> Nat]
      /\ page_address_pool = Cardinality(Pkmaps \ U)
      /\ \A n \in U : t[n] \in HighPages
      /\ \A n \in Pkmaps, p \in HighPages :
           IF n \in U /\ t[n] = p THEN c[n] = kmaps[p][n] + 1 ELSE kmaps[p][n] = 0
  BY <1>1 DEF HighmemSound, Window, SlotsApart, CountsExact
<1>3. \A n \in Pkmaps : n \in U <=> c[n] # 0
  BY DEF Used
<1>4. ASSUME NEW p \in HighPages, NEW n \in Pkmaps, kmaps[p][n] > 0
      PROVE  t[n] = p
  BY <1>2, <1>4
<1>5. \A a, b \in atomics : a.nr = b.nr => a = b
  BY <1>1 DEF AtomicsApart
<1>6. ASSUME NEW n \in Pkmaps
      PROVE  LET named == {p \in HighPages : Mapped(p) /\ SlotOf(p) = n}
             IN IF c[n] = 0 THEN named = {} /\ Users(n) = 0
                ELSE named = {t[n]} /\ c[n] = Users(n) + 1
  <2> DEFINE named == {p \in HighPages : Mapped(p) /\ SlotOf(p) = n}
  <2>1. \A p \in HighPages : Mapped(p) => SlotOf(p) \in U /\ t[SlotOf(p)] = p
    BY <1>1, PageFound
  <2>2. \A p \in HighPages : n \in U /\ t[n] = p => Mapped(p) /\ SlotOf(p) = n
    BY <1>1, PageFound
  <2>3. Users(n) = IF n \in U THEN c[n] - 1 ELSE 0
    BY <1>1, UsersAre
  <2> HIDE DEF U
  <2>4. CASE c[n] = 0
    <3>1. named = {}
      BY <1>3, <2>1, <2>4
    <3> QED
      BY <1>3, <2>3, <2>4, <3>1
  <2>5. CASE c[n] # 0
    <3>1. named = {t[n]}
      BY <1>2, <1>3, <2>1, <2>2, <2>5
    <3>2. c[n] \in Nat
      BY <1>2
    <3>3. c[n] = Users(n) + 1
      BY <1>3, <2>3, <2>5, <3>2
    <3> QED
      BY <2>5, <3>1, <3>3
  <2> QED
    BY <2>4, <2>5
<1>7. page_address_pool = Cardinality({n \in Pkmaps : c[n] = 0})
  <2>1. Pkmaps \ U = {n \in Pkmaps : c[n] = 0}
    BY <1>3
  <2> QED
    BY <1>2, <2>1
<1> QED
  BY <1>4, <1>5, <1>6, <1>7 DEF AddressesRight

(* As long as no flush has taken out a wrong entry, an address a caller holds
   maps the page it was given for, the use count of a slot is its users plus
   one, the hash table names one slot for each mapped page, and no two atomic
   mappings share a fixmap entry.
   (map_new_virtual, kunmap_high, set_page_address, __kmap_atomic)          *)
THEOREM AddressesAreRight == HighmemSpec => []AddressesRight
<1>1. HighmemInit => HighmemInv
  BY HighmemInitSound
<1>2. HighmemInv /\ [HighmemNext]_highmemVars => HighmemInv'
  BY HighmemNextKeeps
<1>3. HighmemInv => AddressesRight
  BY HighmemInvImplies
<1> QED
  BY <1>1, <1>2, <1>3, PTL DEF HighmemSpec

-----------------------------------------------------------------------------
(* The percpu allocator.  The model folds over maps that steps lengthen and
   shorten in the middle: offsets and free sizes are first shown to be running
   sums, then what one operation on a map does to them, and last that the
   operations together keep the blocks matched with the areas.

   Offsets and free sizes as running sums over a map *)

Frees(x) == IF x > 0 THEN x ELSE 0
FreeSum(m) == MapThenSumSet(LAMBDA i : m[i], FreeBlocks(m))
BlockSizes(m) == [k \in 1 .. Len(m) |-> BlockSize(m[k])]
FreeParts(m) == [k \in 1 .. Len(m) |-> Frees(m[k])]

(* The fold of Offset adds from the last block down. *)
AddsDown(s, g) ==
  g = [T \in SUBSET DOMAIN s |->
         IF T = {} THEN 0 ELSE g[T \ {Max(T)}] + BlockSize(s[Max(T)])]

Through(s) == FoldLeft(LAMBDA off, x : off + BlockSize(x), 0, s)

LEMMA ThroughIs == ASSUME NEW s PROVE Through(s) = (CHOOSE g : AddsDown(s, g))[DOMAIN s]
BY DEF Through, FoldLeft, MapThenFoldSet, AddsDown

LEMMA OffsetIsThrough ==
  ASSUME NEW m, NEW i PROVE Offset(m, i) = Through(SubSeq(m, 1, i - 1))
BY DEF Offset, Through

LEMMA OffsetAdds ==
  ASSUME NEW m \in Seq(Int), NEW n \in 0 .. Len(m), NEW total,
         AddsUp(total, 1 .. Len(m), BlockSizes(m))
  PROVE  Offset(m, n + 1) = total[1 .. n]
<1> DEFINE s == SubSeq(m, 1, n + 1 - 1)
           S == DOMAIN s
           Goes(g) == AddsDown(s, g)
           sum == CHOOSE g : AddsDown(s, g)
<1>1. Offset(m, n + 1) = sum[S]
  <2>1. Offset(m, n + 1) = Through(s)
    BY OffsetIsThrough
  <2> HIDE DEF s
  <2> QED
    BY <2>1, ThroughIs
<1>2. S = 1 .. n /\ \A k \in 1 .. n : s[k] = m[k]
  <2>1. s = SubSeq(m, 1, n)
    OBVIOUS
  <2> HIDE DEF s
  <2> QED
    BY <2>1
<1>3. /\ total[{}] = 0
      /\ \A T \in SUBSET (1 .. n) : total[T] \in Int
      /\ \A T \in SUBSET (1 .. n) : \A k \in T : total[T] = BlockSize(m[k]) + total[T \ {k}]
  <2>1. SUBSET (1 .. n) \subseteq SUBSET (1 .. Len(m))
    OBVIOUS
  <2>3. \A k \in 1 .. Len(m) : BlockSizes(m)[k] = BlockSize(m[k])
    BY DEF BlockSizes
  <2>2. /\ total[{}] = 0
        /\ \A T \in SUBSET (1 .. Len(m)) : total[T] \in Int
        /\ \A T \in SUBSET (1 .. Len(m)) : \A k \in T : total[T] = BlockSizes(m)[k] + total[T \ {k}]
    BY DEF AddsUp
  <2>4. ASSUME NEW T \in SUBSET (1 .. n), NEW k \in T
        PROVE  total[T] = BlockSize(m[k]) + total[T \ {k}]
    <3>1. T \in SUBSET (1 .. Len(m)) /\ k \in 1 .. Len(m)
      BY <2>1
    <3>2. total[T] = BlockSizes(m)[k] + total[T \ {k}]
      BY <2>2, <3>1
    <3> QED
      BY <2>3, <3>1, <3>2
  <2>5. \A T \in SUBSET (1 .. n) : total[T] \in Int
    BY <2>1, <2>2
  <2>6. total[{}] = 0
    BY <2>2
  <2> QED
    BY <2>4, <2>5, <2>6
<1>4. \A T \in SUBSET (1 .. n) : T # {} => Max(T) \in T
  <2>1. SUBSET (1 .. n) \subseteq SUBSET (0 .. n) /\ n \in Nat
    OBVIOUS
  <2> QED
    BY <2>1, MaxOfNumbers
<1>5. \A k \in 1 .. n : BlockSize(m[k]) \in Int
  BY DEF BlockSize
<1> HIDE DEF s, S
<1>6. \E g : Goes(g)
  <2> DEFINE g == [T \in SUBSET S |-> total[T]]
  <2>1. ASSUME NEW T \in SUBSET S
        PROVE  g[T] = IF T = {} THEN 0 ELSE g[T \ {Max(T)}] + BlockSize(s[Max(T)])
    <3>1. CASE T = {}
      BY <1>2, <1>3, <3>1
    <3>2. CASE T # {}
      <4>1. Max(T) \in T /\ T \ {Max(T)} \in SUBSET S
        BY <1>2, <1>4, <3>2
      <4>2. g[T] = total[T] /\ g[T \ {Max(T)}] = total[T \ {Max(T)}]
        BY <4>1
      <4>3. total[T] = BlockSize(m[Max(T)]) + total[T \ {Max(T)}] /\ s[Max(T)] = m[Max(T)]
        BY <1>2, <1>3, <4>1
      <4>4. BlockSize(m[Max(T)]) \in Int /\ total[T \ {Max(T)}] \in Int
        BY <1>2, <1>3, <1>5, <4>1
      <4> QED
        BY <3>2, <4>2, <4>3, <4>4
    <3> QED
      BY <3>1, <3>2
  <2>2. g = [T \in SUBSET S |-> g[T]]
    OBVIOUS
  <2> HIDE DEF g
  <2>3. g = [T \in SUBSET S |->
             IF T = {} THEN 0 ELSE g[T \ {Max(T)}] + BlockSize(s[Max(T)])]
    BY <2>1, <2>2
  <2> QED
    BY <2>3 DEF AddsDown, S
<1>7. Goes(sum)
  BY <1>6
<1>8. \A T \in SUBSET S :
        sum[T] = IF T = {} THEN 0 ELSE sum[T \ {Max(T)}] + BlockSize(s[Max(T)])
  BY <1>7 DEF AddsDown, S
<1> HIDE DEF sum, Goes
<1> DEFINE G == {T \in SUBSET S : sum[T] = total[T]}
           size == [T \in SUBSET S |-> Cardinality(T)]
<1>9. IsFiniteSet(S) /\ \A T \in SUBSET S : IsFiniteSet(T) /\ Cardinality(T) \in Nat
  <2>1. IsFiniteSet(S)
    BY <1>2, CountUpTo
  <2> QED
    BY <2>1, FS_Subset, FS_CardinalityType
<1>10. ASSUME NEW T \in SUBSET S, \A R \in SUBSET S : size[R] < size[T] => R \in G
       PROVE  T \in G
  <2>1. CASE T = {}
    BY <1>2, <1>3, <1>8, <2>1
  <2>2. CASE T # {}
    <3> DEFINE k == Max(T)
               R == T \ {k}
    <3>1. k \in T /\ R \in SUBSET S
      BY <1>2, <1>4, <2>2
    <3>2. size[R] < size[T]
      BY <1>9, <3>1, FS_RemoveElement
    <3>3. sum[R] = total[R]
      BY <1>10, <3>1, <3>2
    <3>4. sum[T] = sum[R] + BlockSize(s[k])
      BY <1>8, <2>2
    <3>5. total[T] = BlockSize(m[k]) + total[R] /\ s[k] = m[k]
      BY <1>2, <1>3, <3>1
    <3>6. BlockSize(m[k]) \in Int /\ total[R] \in Int
      BY <1>2, <1>3, <1>5, <3>1
    <3> QED
      BY <3>3, <3>4, <3>5, <3>6
  <2> QED
    BY <2>1, <2>2
<1>11. size \in [SUBSET S -> Nat]
  BY <1>9
<1> DEFINE D == SUBSET S
<1> HIDE DEF size, G, D
<1>d. D = SUBSET S
  BY DEF D
<1>12. D \subseteq G
  <2>1. size \in [D -> Nat]
    BY <1>11, <1>d
  <2>2. \A T \in D : (\A R \in D : size[R] < size[T] => R \in G) => T \in G
    BY <1>10, <1>d
  <2> QED
    BY <2>1, <2>2, InductionOnSize
<1> QED
  BY <1>1, <1>2, <1>12, <1>d DEF G

LEMMA OffsetRuns ==
  ASSUME NEW m \in Seq(Int)
  PROVE  \E f : /\ Running(f, BlockSizes(m), Len(m)) /\ f[0] = 0
                /\ \A k \in 0 .. Len(m) : f[k] = Offset(m, k + 1)
<1> DEFINE n == Len(m)
           S == 1 .. n
           w == BlockSizes(m)
           c == [T \in SUBSET S |-> CHOOSE x \in T : TRUE]
<1>1. n \in Nat /\ IsFiniteSet(S) /\ w \in [S -> Int] /\ Picks(c, S)
  BY CountUpTo DEF BlockSizes, BlockSize, Picks
<1> HIDE DEF w, c
<1>2. PICK total \in [SUBSET S -> Int] : SumOf(total, S, w, c)
  BY <1>1, SumExists
<1>3. AddsUp(total, S, w)
  BY <1>1, <1>2, Summed
<1> DEFINE f == [k \in 0 .. n |-> total[1 .. k]]
<1>4. \A k \in 0 .. n : f[k] = Offset(m, k + 1)
  BY <1>3, OffsetAdds DEF w
<1>5. f[0] = 0
  <2>1. 1 .. 0 = {}
    OBVIOUS
  <2> QED
    BY <1>1, <1>3, <2>1 DEF AddsUp
<1>6. ASSUME NEW k \in 1 .. n PROVE f[k] = f[k - 1] + w[k]
  <2>1. (1 .. k) \ {k} = 1 .. k - 1 /\ (1 .. k) \in SUBSET S /\ k \in 1 .. k
    BY <1>1
  <2>2. \A T \in SUBSET S : \A x \in T : total[T] = w[x] + total[T \ {x}]
    BY <1>3 DEF AddsUp
  <2>3. total[1 .. k] = w[k] + total[(1 .. k) \ {k}]
    BY <2>1, <2>2
  <2>4. k - 1 \in 0 .. n /\ k \in 0 .. n /\ (1 .. k - 1) \in SUBSET S
    BY <1>1
  <2>5. w[k] \in Int /\ total[1 .. k - 1] \in Int
    BY <1>1, <1>2, <2>4
  <2>6. f[k] = total[1 .. k] /\ f[k - 1] = total[1 .. k - 1]
    BY <2>4
  <2>7. total[(1 .. k) \ {k}] = total[1 .. k - 1]
    BY <2>1
  <2> HIDE DEF f
  <2> DEFINE x == total[1 .. k - 1]
             y == w[k]
  <2>8. f[k] = y + x /\ f[k - 1] = x /\ y \in Int /\ x \in Int
    BY <2>3, <2>5, <2>6, <2>7
  <2> HIDE DEF x, y
  <2>9. x + y = y + x
    BY <2>8
  <2>10. f[k] = f[k - 1] + y
    BY <2>8, <2>9
  <2> QED
    BY <2>10 DEF y
<1>7. f \in [0 .. n -> Int]
  BY <1>2, SMTT(30)
<1> HIDE DEF f
<1>8. Running(f, w, n)
  BY <1>1, <1>6, <1>7 DEF Running
<1> QED
  BY <1>4, <1>5, <1>8 DEF w

LEMMA FreeRuns ==
  ASSUME NEW m \in Seq(Int)
  PROVE  \E f : Running(f, FreeParts(m), Len(m)) /\ f[0] = 0 /\ f[Len(m)] = FreeSum(m)
<1> DEFINE n == Len(m)
           S == FreeBlocks(m)
           g == [i \in S |-> m[i]]
           Goes(h) == h = [T \in SUBSET S |->
             IF T = {} THEN 0
             ELSE m[CHOOSE x \in T : TRUE] + h[T \ {CHOOSE x \in T : TRUE}]]
           sum == CHOOSE h : Goes(h)
           c == [T \in SUBSET S |-> CHOOSE x \in T : TRUE]
<1>1. FreeSum(m) = sum[S]
  BY DEF FreeSum, MapThenSumSet, MapThenFoldSet
<1>2. n \in Nat /\ DOMAIN m = 1 .. n /\ S = {i \in 1 .. n : m[i] > 0} /\ m \in [1 .. n -> Int]
  BY DEF FreeBlocks
<1>3. IsFiniteSet(S) /\ g \in [S -> Int]
  BY <1>2, CountUpTo, FS_Subset
<1>4. ASSUME NEW h PROVE SumOf(h, S, g, c) <=> Goes(h)
  <2>1. \A T \in SUBSET S : T # {} => (CHOOSE x \in T : TRUE) \in S
    OBVIOUS
  <2>2. \A x \in S : g[x] = m[x]
    OBVIOUS
  <2>3. \A T \in SUBSET S : c[T] = CHOOSE x \in T : TRUE
    OBVIOUS
  <2> HIDE DEF g, c
  <2>4. \A T \in SUBSET S : (IF T = {} THEN 0 ELSE g[c[T]] + h[T \ {c[T]}])
          = (IF T = {} THEN 0
             ELSE m[CHOOSE x \in T : TRUE] + h[T \ {CHOOSE x \in T : TRUE}])
    BY <2>1, <2>2, <2>3
  <2> QED
    BY <2>4 DEF SumOf
<1>5. Picks(c, S)
  BY DEF Picks
<1>s. \A i \in S : g[i] = m[i]
  OBVIOUS
<1> HIDE DEF S, g, c, Goes
<1>6. \E h : Goes(h)
  BY <1>3, <1>4, <1>5, SumExists
<1>7. Goes(sum)
  BY <1>6
<1> HIDE DEF sum
<1>8. AddsUp(sum, S, g)
  BY <1>3, <1>4, <1>5, <1>7, Summed
<1> DEFINE P(k) == {i \in 1 .. k : m[i] > 0}
           f == [k \in 0 .. n |-> sum[P(k)]]
<1>9. \A k \in 0 .. n : P(k) \in SUBSET S
  BY <1>2
<1>10. f \in [0 .. n -> Int]
  BY <1>8, <1>9 DEF AddsUp
<1>11. f[0] = 0
  <2>1. P(0) = {}
    OBVIOUS
  <2> QED
    BY <1>2, <1>8, <2>1 DEF AddsUp
<1>12. f[n] = sum[S]
  BY <1>2
<1>13. ASSUME NEW k \in 1 .. n PROVE f[k] = f[k - 1] + Frees(m[k])
  <2>1. k - 1 \in 0 .. n /\ k \in 0 .. n /\ m[k] \in Int
    BY <1>2
  <2>2. f[k - 1] = sum[P(k - 1)] /\ f[k] = sum[P(k)]
    BY <2>1
  <2>3. f[k - 1] \in Int
    BY <1>10, <2>1
  <2> HIDE DEF f
  <2>4. CASE m[k] > 0
    <3>1. k \in P(k) /\ P(k) \ {k} = P(k - 1)
      BY <2>1, <2>4
    <3>2. sum[P(k)] = g[k] + sum[P(k) \ {k}] /\ g[k] = m[k]
      BY <1>8, <1>9, <1>s, <2>1, <3>1 DEF AddsUp
    <3> QED
      <4>1. sum[P(k) \ {k}] = sum[P(k - 1)]
        BY <3>1
      <4>2. f[k] = m[k] + f[k - 1]
        BY <2>2, <3>2, <4>1
      <4> QED
        BY <2>1, <2>3, <2>4, <4>2 DEF Frees
  <2>5. CASE ~ (m[k] > 0)
    <3>1. P(k) = P(k - 1)
      BY <2>1, <2>5
    <3> QED
      <4>1. f[k] = f[k - 1]
        BY <2>2, <3>1
      <4> QED
        BY <2>1, <2>3, <2>5, <4>1 DEF Frees
  <2> QED
    BY <2>4, <2>5
<1>14. FreeParts(m) \in [1 .. n -> Int] /\ \A k \in 1 .. n : FreeParts(m)[k] = Frees(m[k])
  BY <1>2 DEF FreeParts, Frees
<1> HIDE DEF f
<1>15. Running(f, FreeParts(m), n)
  BY <1>10, <1>13, <1>14 DEF Running
<1> QED
  BY <1>1, <1>11, <1>12, <1>15

LEMMA OffsetSteps ==
  ASSUME NEW m \in Seq(Int)
  PROVE  /\ Offset(m, 1) = 0
         /\ \A k \in 1 .. Len(m) + 1 : Offset(m, k) \in Nat
         /\ \A k \in 1 .. Len(m) : Offset(m, k + 1) = Offset(m, k) + BlockSize(m[k])
         /\ \A i, j \in 1 .. Len(m) + 1 : i <= j => Offset(m, i) <= Offset(m, j)
<1> DEFINE n == Len(m)
           w == BlockSizes(m)
<1>1. n \in Nat /\ \A k \in 1 .. n : m[k] \in Int
  OBVIOUS
<1>2. \A k \in 1 .. n : w[k] = BlockSize(m[k]) /\ w[k] >= 0
  BY <1>1 DEF BlockSizes, BlockSize
<1>3. PICK f : Running(f, w, n) /\ f[0] = 0 /\ \A k \in 0 .. n : f[k] = Offset(m, k + 1)
  BY OffsetRuns
<1> HIDE DEF w
<1>4. \A i, j \in 0 .. n : i <= j => f[i] <= f[j]
  BY <1>1, <1>2, <1>3, RunningGrows
<1>5. \A k \in 0 .. n : f[k] \in Int
  BY <1>3 DEF Running
<1>6. \A k \in 1 .. n + 1 : k - 1 \in 0 .. n /\ Offset(m, k) = f[k - 1]
  <2> SUFFICES ASSUME NEW k \in 1 .. n + 1 PROVE k - 1 \in 0 .. n /\ Offset(m, k) = f[k - 1]
    OBVIOUS
  <2>1. k - 1 \in 0 .. n /\ k - 1 + 1 = k
    BY <1>1
  <2>2. f[k - 1] = Offset(m, k - 1 + 1)
    BY <1>3, <2>1
  <2> QED
    BY <2>1, <2>2
<1>7. \A k \in 1 .. n + 1 : Offset(m, k) \in Nat
  <2> SUFFICES ASSUME NEW k \in 1 .. n + 1 PROVE Offset(m, k) \in Nat
    OBVIOUS
  <2>1. f[0] <= f[k - 1] /\ f[k - 1] \in Int
    BY <1>1, <1>4, <1>5, <1>6
  <2> QED
    BY <1>3, <1>6, <2>1
<1>8. ASSUME NEW k \in 1 .. n PROVE Offset(m, k + 1) = Offset(m, k) + BlockSize(m[k])
  <2>1. f[k] = f[k - 1] + w[k]
    BY <1>3 DEF Running
  <2>2. Offset(m, k + 1) = f[k] /\ Offset(m, k) = f[k - 1]
    BY <1>1, <1>3, <1>6
  <2> QED
    BY <1>2, <2>1, <2>2
<1>9. ASSUME NEW i \in 1 .. n + 1, NEW j \in 1 .. n + 1, i <= j
      PROVE  Offset(m, i) <= Offset(m, j)
  <2>1. f[i - 1] <= f[j - 1]
    BY <1>4, <1>6, <1>9
  <2> QED
    BY <1>6, <2>1
<1>10. Offset(m, 1) = 0
  BY <1>1, <1>3, <1>6
<1> QED
  BY <1>7, <1>8, <1>9, <1>10

(* A block is never larger than what is free. *)
LEMMA FreeSumInt ==
  ASSUME NEW m \in Seq(Int)
  PROVE  FreeSum(m) \in Nat /\ \A i \in 1 .. Len(m) : m[i] <= FreeSum(m)
<1> DEFINE n == Len(m)
           w == FreeParts(m)
<1>1. n \in Nat /\ \A k \in 1 .. n : m[k] \in Int
  OBVIOUS
<1>2. \A k \in 1 .. n : w[k] >= 0 /\ w[k] >= m[k] /\ w[k] \in Int
  BY <1>1 DEF FreeParts, Frees
<1>3. PICK f : Running(f, w, n) /\ f[0] = 0 /\ f[n] = FreeSum(m)
  BY FreeRuns
<1> HIDE DEF w, n
<1>4. \A i, j \in 0 .. n : i <= j => f[i] <= f[j]
  BY <1>1, <1>2, <1>3, RunningGrows
<1>5. \A k \in 0 .. n : f[k] \in Int
  BY <1>3 DEF Running
<1>6. ASSUME NEW i \in 1 .. n PROVE m[i] <= FreeSum(m)
  <2>1. i - 1 \in 0 .. n /\ i \in 0 .. n /\ 0 \in 0 .. n /\ n \in 0 .. n
    BY <1>1
  <2>2. f[i] = f[i - 1] + w[i] /\ 0 <= f[i - 1] /\ f[i] <= f[n]
    BY <1>1, <1>3, <1>4, <2>1 DEF Running
  <2>3. f[i] \in Int /\ f[i - 1] \in Int /\ f[n] \in Int
    BY <1>5, <2>1
  <2> QED
    BY <1>1, <1>2, <1>3, <2>2, <2>3
<1>7. FreeSum(m) \in Nat
  <2>1. 0 \in 0 .. n /\ n \in 0 .. n
    BY <1>1
  <2> QED
    BY <1>1, <1>3, <1>4, <1>5, <2>1
<1> QED
  BY <1>6, <1>7 DEF n

-----------------------------------------------------------------------------
(* Maps that differ in one place *)

(* The blocks of m behind the first i, a of them, are b others in n. *)
Spliced(m, n, i, a, b) ==
  /\ m \in Seq(Int) /\ n \in Seq(Int)
  /\ i \in Nat /\ a \in Nat /\ b \in Nat /\ i + a <= Len(m) /\ Len(n) = Len(m) - a + b
  /\ \A j \in 1 .. i : n[j] = m[j]
  /\ \A j \in 1 .. Len(m) - i - a : n[i + b + j] = m[i + a + j]

LEMMA SplicedRuns ==
  ASSUME NEW m, NEW n, NEW i, NEW a, NEW b, Spliced(m, n, i, a, b),
         NEW f, NEW g, NEW v, NEW w, Running(f, v, Len(m)), Running(g, w, Len(n)),
         \A j \in 1 .. Len(m) : \A k \in 1 .. Len(n) : m[j] = n[k] => v[j] = w[k],
         f[0] = g[0]
  PROVE  /\ \A j \in 0 .. i : g[j] = f[j]
         /\ \A j \in 0 .. Len(m) - i - a : g[i + b + j] - f[i + a + j] = g[i + b] - f[i + a]
<1> DEFINE x == Len(m)
           y == Len(n)
           c == x - i - a
<1>1. /\ x \in Nat /\ y \in Nat /\ i \in Nat /\ a \in Nat /\ b \in Nat /\ c \in Nat
      /\ i + a + c = x /\ i + b + c = y
  BY DEF Spliced
<1>2. /\ \A j \in 1 .. i : n[j] = m[j]
      /\ \A j \in 1 .. c : n[i + b + j] = m[i + a + j]
  BY DEF Spliced
<1>3. Running(f, v, x) /\ Running(g, w, y)
  OBVIOUS
<1>4. \A j \in 1 .. x : \A k \in 1 .. y : m[j] = n[k] => v[j] = w[k]
  OBVIOUS
<1> HIDE DEF x, y, c
<1>5. \A j \in 1 .. i : v[0 + j] = w[0 + j]
  <2> SUFFICES ASSUME NEW j \in 1 .. i PROVE v[0 + j] = w[0 + j]
    OBVIOUS
  <2>1. j \in 1 .. x /\ j \in 1 .. y /\ 0 + j = j
    BY <1>1
  <2> QED
    BY <1>2, <1>4, <2>1
<1>6. \A j \in 1 .. c : v[i + a + j] = w[i + b + j]
  <2> SUFFICES ASSUME NEW j \in 1 .. c PROVE v[i + a + j] = w[i + b + j]
    OBVIOUS
  <2>1. i + a + j \in 1 .. x /\ i + b + j \in 1 .. y
    BY <1>1
  <2> QED
    BY <1>2, <1>4, <2>1
<1>7. \A j \in 0 .. i : g[0 + j] - f[0 + j] = g[0] - f[0]
  <2>1. 0 + i <= x /\ 0 + i <= y /\ 0 \in Nat
    BY <1>1
  <2> QED
    <3>1. SameWeights(v, w, 0, 0, i)
      BY <1>5 DEF SameWeights
    <3>2. SameGrowth(f, g, 0, 0, i)
      BY <1>1, <1>3, <2>1, <3>1, RunningAlike
    <3> QED
      BY <3>2 DEF SameGrowth
<1>8. \A j \in 0 .. c : g[i + b + j] - f[i + a + j] = g[i + b] - f[i + a]
  <2> DEFINE p == i + a
             q == i + b
  <2>1. p \in Nat /\ q \in Nat /\ p + c <= x /\ q + c <= y
    BY <1>1
  <2>2. \A j \in 1 .. c : v[p + j] = w[q + j]
    BY <1>6
  <2> HIDE DEF p, q
  <2>3. \A j \in 0 .. c : g[q + j] - f[p + j] = g[q] - f[p]
    <3>1. SameWeights(v, w, p, q, c)
      BY <2>2 DEF SameWeights
    <3>2. SameGrowth(f, g, p, q, c)
      BY <1>1, <1>3, <2>1, <3>1, RunningAlike
    <3> QED
      BY <3>2 DEF SameGrowth
  <2> QED
    BY <2>3 DEF p, q
<1>9. ASSUME NEW j \in 0 .. i PROVE g[j] = f[j]
  <2>1. 0 + j = j /\ j \in 0 .. x /\ j \in 0 .. y /\ 0 \in 0 .. x /\ 0 \in 0 .. y
    BY <1>1
  <2>2. f[j] \in Int /\ g[j] \in Int /\ f[0] \in Int /\ g[0] \in Int
    BY <1>3, <2>1 DEF Running
  <2>3. g[j] - f[j] = g[0] - f[0]
    BY <1>7, <2>1
  <2> QED
    BY <2>2, <2>3
<1> QED
  BY <1>8, <1>9 DEF c, x

(* Offsets before the place stay, those behind it move alike. *)
LEMMA SplicedOffsets ==
  ASSUME NEW m, NEW n, NEW i, NEW a, NEW b, Spliced(m, n, i, a, b)
  PROVE  /\ \A j \in 1 .. i + 1 : Offset(n, j) = Offset(m, j)
         /\ \A j \in 1 .. Len(m) - i - a + 1 :
              Offset(n, i + b + j) - Offset(m, i + a + j)
                = Offset(n, i + b + 1) - Offset(m, i + a + 1)
<1> DEFINE x == Len(m)
           y == Len(n)
           c == x - i - a
           v == BlockSizes(m)
           w == BlockSizes(n)
<1>1. /\ x \in Nat /\ y \in Nat /\ i \in Nat /\ a \in Nat /\ b \in Nat /\ c \in Nat
      /\ i + a + c = x /\ i + b + c = y /\ m \in Seq(Int) /\ n \in Seq(Int)
  BY DEF Spliced
<1>2. PICK f : Running(f, v, x) /\ f[0] = 0 /\ \A k \in 0 .. x : f[k] = Offset(m, k + 1)
  BY <1>1, OffsetRuns
<1>3. PICK g : Running(g, w, y) /\ g[0] = 0 /\ \A k \in 0 .. y : g[k] = Offset(n, k + 1)
  BY <1>1, OffsetRuns
<1>4. \A j \in 1 .. x : \A k \in 1 .. y : m[j] = n[k] => v[j] = w[k]
  BY DEF BlockSizes
<1> HIDE DEF v, w
<1>5. /\ \A j \in 0 .. i : g[j] = f[j]
      /\ \A j \in 0 .. c : g[i + b + j] - f[i + a + j] = g[i + b] - f[i + a]
  BY <1>2, <1>3, <1>4, SplicedRuns
<1> HIDE DEF x, y, c
<1>6. ASSUME NEW j \in 1 .. i + 1 PROVE Offset(n, j) = Offset(m, j)
  <2>1. j - 1 \in 0 .. i /\ j - 1 \in 0 .. x /\ j - 1 \in 0 .. y /\ j - 1 + 1 = j
    BY <1>1
  <2>2. f[j - 1] = Offset(m, j - 1 + 1) /\ g[j - 1] = Offset(n, j - 1 + 1) /\ g[j - 1] = f[j - 1]
    BY <1>2, <1>3, <1>5, <2>1
  <2> QED
    BY <2>1, <2>2
<1>7. ASSUME NEW j \in 1 .. c + 1
      PROVE  Offset(n, i + b + j) - Offset(m, i + a + j)
               = Offset(n, i + b + 1) - Offset(m, i + a + 1)
  <2> DEFINE k == j - 1
             p == i + a + k
             q == i + b + k
  <2>1. /\ k \in 0 .. c /\ p \in 0 .. x /\ q \in 0 .. y
        /\ i + a \in 0 .. x /\ i + b \in 0 .. y
        /\ p + 1 = i + a + j /\ q + 1 = i + b + j
    BY <1>1
  <2>2. g[q] - f[p] = g[i + b] - f[i + a]
    BY <1>5, <2>1
  <2> HIDE DEF p, q
  <2>3. f[p] = Offset(m, p + 1) /\ g[q] = Offset(n, q + 1)
    BY <1>2, <1>3, <2>1
  <2>4. f[i + a] = Offset(m, i + a + 1) /\ g[i + b] = Offset(n, i + b + 1)
    BY <1>2, <1>3, <2>1
  <2> QED
    BY <2>1, <2>2, <2>3, <2>4
<1> QED
  BY <1>6, <1>7 DEF c, x

(* The free size changes by what is free in the place. *)
LEMMA SplicedFree ==
  ASSUME NEW m, NEW n, NEW i, NEW a, NEW b, Spliced(m, n, i, a, b)
  PROVE  \E f, g : /\ Running(f, FreeParts(m), Len(m)) /\ Running(g, FreeParts(n), Len(n))
                   /\ g[i] = f[i]
                   /\ FreeSum(n) - FreeSum(m) = g[i + b] - f[i + a]
<1> DEFINE x == Len(m)
           y == Len(n)
           c == x - i - a
           v == FreeParts(m)
           w == FreeParts(n)
<1>1. /\ x \in Nat /\ y \in Nat /\ i \in Nat /\ a \in Nat /\ b \in Nat /\ c \in Nat
      /\ i + a + c = x /\ i + b + c = y /\ m \in Seq(Int) /\ n \in Seq(Int)
  BY DEF Spliced
<1>2. PICK f : Running(f, v, x) /\ f[0] = 0 /\ f[x] = FreeSum(m)
  BY <1>1, FreeRuns
<1>3. PICK g : Running(g, w, y) /\ g[0] = 0 /\ g[y] = FreeSum(n)
  BY <1>1, FreeRuns
<1>4. \A j \in 1 .. x : \A k \in 1 .. y : m[j] = n[k] => v[j] = w[k]
  BY DEF FreeParts
<1> HIDE DEF v, w
<1>5. /\ \A j \in 0 .. i : g[j] = f[j]
      /\ \A j \in 0 .. c : g[i + b + j] - f[i + a + j] = g[i + b] - f[i + a]
  BY <1>2, <1>3, <1>4, SplicedRuns
<1> HIDE DEF x, y, c
<1>6. g[y] - f[x] = g[i + b] - f[i + a]
  <2>1. c \in 0 .. c
    BY <1>1
  <2>2. g[i + b + c] - f[i + a + c] = g[i + b] - f[i + a]
    BY <1>5, <2>1
  <2> QED
    BY <1>1, <2>2
<1>7. g[i] = f[i]
  BY <1>1, <1>5
<1> QED
  BY <1>2, <1>3, <1>6, <1>7 DEF v, w, x, y

LEMMA SplicedBehind ==
  ASSUME NEW m, NEW n, NEW i, NEW a, NEW b, Spliced(m, n, i, a, b),
         Offset(n, i + b + 1) = Offset(m, i + a + 1)
  PROVE  \A j \in i + a + 1 .. Len(m) + 1 : Offset(n, j - a + b) = Offset(m, j)
<1> SUFFICES ASSUME NEW j \in i + a + 1 .. Len(m) + 1
             PROVE  Offset(n, j - a + b) = Offset(m, j)
  OBVIOUS
<1> DEFINE x == Len(m)
           y == Len(n)
           k == j - i - a
<1>1. /\ x \in Nat /\ y \in Nat /\ i \in Nat /\ a \in Nat /\ b \in Nat
      /\ i + a <= x /\ y = x - a + b /\ m \in Seq(Int) /\ n \in Seq(Int)
  BY DEF Spliced
<1>2. /\ \A l \in 1 .. x + 1 : Offset(m, l) \in Nat
      /\ \A l \in 1 .. y + 1 : Offset(n, l) \in Nat
  BY <1>1, OffsetSteps
<1>3. /\ k \in 1 .. x - i - a + 1 /\ i + a + k = j /\ i + b + k = j - a + b
      /\ j \in 1 .. x + 1 /\ j - a + b \in 1 .. y + 1
      /\ i + a + 1 \in 1 .. x + 1 /\ i + b + 1 \in 1 .. y + 1
  BY <1>1
<1> HIDE DEF y, k
<1>4. Offset(n, i + b + k) - Offset(m, i + a + k) = Offset(n, i + b + 1) - Offset(m, i + a + 1)
  BY <1>3, SplicedOffsets
<1> HIDE DEF x
<1>5. Offset(n, j - a + b) - Offset(m, j) = Offset(n, i + b + 1) - Offset(m, i + a + 1)
  BY <1>3, <1>4
<1>6. /\ Offset(n, j - a + b) \in Nat /\ Offset(m, j) \in Nat
      /\ Offset(n, i + b + 1) \in Nat /\ Offset(m, i + a + 1) \in Nat
  BY <1>2, <1>3
<1> QED
  BY <1>5, <1>6

LEMMA FreeStep ==
  ASSUME NEW m \in Seq(Int), NEW f, Running(f, FreeParts(m), Len(m)), NEW k \in 1 .. Len(m)
  PROVE  f[k - 1] \in Int /\ f[k] \in Int /\ f[k] = f[k - 1] + Frees(m[k])
<1>1. k - 1 \in 0 .. Len(m) /\ k \in 0 .. Len(m) /\ FreeParts(m)[k] = Frees(m[k])
  BY DEF FreeParts
<1> QED
  BY <1>1 DEF Running

(* Block i of m is two blocks in n, all three free. *)
Parted(m, n, i) ==
  /\ m \in Seq(Int) /\ n \in Seq(Int) /\ i \in 1 .. Len(m) /\ Len(n) = Len(m) + 1
  /\ \A j \in 1 .. i - 1 : n[j] = m[j]
  /\ \A j \in i + 1 .. Len(m) : n[j + 1] = m[j]
  /\ n[i] > 0 /\ n[i + 1] > 0 /\ m[i] = n[i] + n[i + 1]

LEMMA PartedOffsets ==
  ASSUME NEW m, NEW n, NEW i, Parted(m, n, i)
  PROVE  /\ \A j \in 1 .. i : Offset(n, j) = Offset(m, j)
         /\ \A j \in i + 1 .. Len(m) + 1 : Offset(n, j + 1) = Offset(m, j)
         /\ Offset(n, i + 1) = Offset(m, i) + n[i]
         /\ FreeSum(n) = FreeSum(m)
<1> DEFINE x == Len(m)
           y == Len(n)
           p == i - 1
           u == n[i]
           v == n[i + 1]
<1>1. /\ m \in Seq(Int) /\ n \in Seq(Int) /\ i \in 1 .. x /\ x \in Nat /\ y = x + 1
      /\ p \in Nat /\ p + 1 = i /\ u \in Int /\ v \in Int /\ u > 0 /\ v > 0 /\ m[i] = u + v
      /\ \A j \in 1 .. i - 1 : n[j] = m[j]
      /\ \A j \in i + 1 .. x : n[j + 1] = m[j]
  BY DEF Parted
<1>2. Spliced(m, n, p, 1, 2)
  <2>1. p + 1 <= x /\ y = x - 1 + 2 /\ \A j \in 1 .. p : n[j] = m[j]
    BY <1>1
  <2>2. ASSUME NEW j \in 1 .. x - p - 1 PROVE n[p + 2 + j] = m[p + 1 + j]
    <3>1. p + 1 + j \in i + 1 .. x /\ (p + 1 + j) + 1 = p + 2 + j
      BY <1>1
    <3>2. n[(p + 1 + j) + 1] = m[p + 1 + j]
      BY <1>1, <3>1
    <3> QED
      BY <3>1, <3>2
  <2> QED
    BY <1>1, <2>1, <2>2 DEF Spliced
<1>u. u = n[i] /\ v = n[i + 1] /\ x = Len(m) /\ y = Len(n)
  OBVIOUS
<1> HIDE DEF x, y, p, u, v
<1>3. \A j \in 1 .. p + 1 : Offset(n, j) = Offset(m, j)
  BY <1>2, SplicedOffsets
<1>4. /\ \A k \in 1 .. x + 1 : Offset(m, k) \in Nat
      /\ \A k \in 1 .. x : Offset(m, k + 1) = Offset(m, k) + BlockSize(m[k])
  BY <1>1, OffsetSteps DEF x
<1>5. /\ \A k \in 1 .. y + 1 : Offset(n, k) \in Nat
      /\ \A k \in 1 .. y : Offset(n, k + 1) = Offset(n, k) + BlockSize(n[k])
  BY <1>1, OffsetSteps DEF y
<1>6. Offset(n, i) = Offset(m, i)
  BY <1>1, <1>3
<1>7. BlockSize(u) = u /\ BlockSize(v) = v /\ BlockSize(u + v) = u + v
  BY <1>1 DEF BlockSize
<1>8. i \in 1 .. y /\ i + 1 \in 1 .. y /\ i + 1 \in 1 .. x + 1 /\ i \in 1 .. x + 1
  BY <1>1
<1>9. Offset(n, i + 1) = Offset(m, i) + u
  BY <1>5, <1>6, <1>7, <1>8, <1>u
<1>10. Offset(n, p + 2 + 1) = Offset(m, p + 1 + 1)
  <2>1. Offset(n, (i + 1) + 1) = Offset(n, i + 1) + v
    BY <1>5, <1>7, <1>8, <1>u
  <2>2. Offset(m, i + 1) = Offset(m, i) + (u + v) /\ Offset(m, i) \in Nat
    BY <1>1, <1>4, <1>7, <1>8
  <2>3. (i + 1) + 1 = p + 2 + 1 /\ i + 1 = p + 1 + 1
    BY <1>1
  <2>4. Offset(n, (i + 1) + 1) = Offset(m, i + 1)
    BY <1>1, <1>9, <2>1, <2>2
  <2> QED
    BY <2>3, <2>4
<1>11. \A j \in p + 1 + 1 .. Len(m) + 1 : Offset(n, j - 1 + 2) = Offset(m, j)
  BY <1>2, <1>10, SplicedBehind
<1>12. \A j \in i + 1 .. x + 1 : Offset(n, j + 1) = Offset(m, j)
  <2> SUFFICES ASSUME NEW j \in i + 1 .. x + 1 PROVE Offset(n, j + 1) = Offset(m, j)
    OBVIOUS
  <2>1. j \in p + 1 + 1 .. Len(m) + 1 /\ j - 1 + 2 = j + 1
    BY <1>1, <1>u
  <2>2. Offset(n, j - 1 + 2) = Offset(m, j)
    BY <1>11, <2>1
  <2> QED
    BY <2>1, <2>2
<1>13. FreeSum(n) = FreeSum(m)
  <2>1. PICK f, g : /\ Running(f, FreeParts(m), Len(m)) /\ Running(g, FreeParts(n), Len(n))
                    /\ g[p] = f[p]
                    /\ FreeSum(n) - FreeSum(m) = g[p + 2] - f[p + 1]
    BY <1>2, SplicedFree
  <2>2. f[i - 1] \in Int /\ f[i] = f[i - 1] + Frees(m[i])
    BY <1>1, <1>u, <2>1, FreeStep
  <2>r. n \in Seq(Int) /\ Running(g, FreeParts(n), Len(n)) /\ i \in 1 .. Len(n) /\ i + 1 \in 1 .. Len(n)
    BY <1>1, <1>8, <1>u, <2>1
  <2>3. g[i - 1] \in Int /\ g[i] = g[i - 1] + Frees(u)
    BY <1>u, <2>r, FreeStep
  <2>4. g[i] \in Int /\ g[i + 1] = g[i] + Frees(v)
    <3> DEFINE k == i + 1
    <3>1. k \in 1 .. Len(n) /\ n[k] = v /\ k - 1 = i
      BY <1>1, <1>u, <2>r
    <3>2. k = i + 1
      OBVIOUS
    <3> HIDE DEF k
    <3>3. g[k - 1] \in Int /\ g[k] = g[k - 1] + Frees(v)
      BY <2>r, <3>1, FreeStep
    <3> QED
      BY <3>1, <3>2, <3>3
  <2>5. i - 1 = p /\ i + 1 - 1 = i /\ p + 2 = i + 1 /\ p + 1 = i
    BY <1>1
  <2>6. Frees(u) = u /\ Frees(v) = v /\ Frees(m[i]) = u + v
    BY <1>1 DEF Frees
  <2>7. g[p + 2] - f[p + 1] = 0
    BY <1>1, <2>1, <2>2, <2>3, <2>4, <2>5, <2>6
  <2>8. FreeSum(n) \in Nat /\ FreeSum(m) \in Nat
    BY <1>1, FreeSumInt
  <2> QED
    BY <2>1, <2>7, <2>8
<1>14. \A j \in 1 .. i : Offset(n, j) = Offset(m, j)
  BY <1>1, <1>3
<1> QED
  BY <1>9, <1>12, <1>13, <1>14 DEF x, u

(* Block i of m changes between free and allocated. *)
Flipped(m, n, i) ==
  /\ m \in Seq(Int) /\ n \in Seq(Int) /\ i \in 1 .. Len(m) /\ Len(n) = Len(m)
  /\ \A j \in 1 .. Len(m) : n[j] = IF j = i THEN -m[i] ELSE m[j]

LEMMA FlippedOffsets ==
  ASSUME NEW m, NEW n, NEW i, Flipped(m, n, i)
  PROVE  /\ \A j \in 1 .. Len(m) + 1 : Offset(n, j) = Offset(m, j)
         /\ FreeSum(n) = FreeSum(m) + Frees(-m[i]) - Frees(m[i])
<1> DEFINE x == Len(m)
           p == i - 1
           u == m[i]
<1>1. /\ m \in Seq(Int) /\ n \in Seq(Int) /\ i \in 1 .. x /\ x \in Nat /\ Len(n) = x
      /\ p \in Nat /\ p + 1 = i /\ u \in Int /\ n[i] = -u
      /\ \A j \in 1 .. x : j # i => n[j] = m[j]
  BY DEF Flipped
<1>2. Spliced(m, n, p, 1, 1)
  <2>1. p + 1 <= x /\ Len(n) = x - 1 + 1 /\ \A j \in 1 .. p : n[j] = m[j]
    BY <1>1
  <2>2. \A j \in 1 .. x - p - 1 : n[p + 1 + j] = m[p + 1 + j]
    BY <1>1
  <2> QED
    BY <1>1, <2>1, <2>2 DEF Spliced
<1>u. u = m[i] /\ x = Len(m)
  OBVIOUS
<1> HIDE DEF x, p, u
<1>3. \A j \in 1 .. p + 1 : Offset(n, j) = Offset(m, j)
  BY <1>2, SplicedOffsets
<1>4. /\ \A k \in 1 .. x + 1 : Offset(m, k) \in Nat
      /\ \A k \in 1 .. x : Offset(m, k + 1) = Offset(m, k) + BlockSize(m[k])
  BY <1>1, <1>u, OffsetSteps
<1>5. /\ \A k \in 1 .. x + 1 : Offset(n, k) \in Nat
      /\ \A k \in 1 .. x : Offset(n, k + 1) = Offset(n, k) + BlockSize(n[k])
  BY <1>1, OffsetSteps
<1>6. Offset(n, i) = Offset(m, i)
  BY <1>1, <1>3
<1>7. Offset(n, p + 1 + 1) = Offset(m, p + 1 + 1)
  <2>1. BlockSize(u) = BlockSize(-u)
    BY <1>1 DEF BlockSize
  <2>2. Offset(n, i + 1) = Offset(m, i + 1)
    BY <1>1, <1>4, <1>5, <1>6, <1>u, <2>1
  <2> QED
    BY <1>1, <2>2
<1>8. \A j \in p + 1 + 1 .. Len(m) + 1 : Offset(n, j - 1 + 1) = Offset(m, j)
  BY <1>2, <1>7, SplicedBehind
<1>9. ASSUME NEW j \in 1 .. x + 1 PROVE Offset(n, j) = Offset(m, j)
  <2>1. CASE j <= i
    BY <1>1, <1>3, <2>1
  <2>2. CASE j > i
    <3>1. j \in p + 1 + 1 .. Len(m) + 1 /\ j - 1 + 1 = j
      BY <1>1, <1>u, <2>2
    <3>2. Offset(n, j - 1 + 1) = Offset(m, j)
      BY <1>8, <3>1
    <3> QED
      BY <3>1, <3>2
  <2> QED
    BY <1>1, <2>1, <2>2
<1>10. FreeSum(n) = FreeSum(m) + Frees(-u) - Frees(u)
  <2>1. PICK f, g : /\ Running(f, FreeParts(m), Len(m)) /\ Running(g, FreeParts(n), Len(n))
                    /\ g[p] = f[p]
                    /\ FreeSum(n) - FreeSum(m) = g[p + 1] - f[p + 1]
    BY <1>2, SplicedFree
  <2>2. f[i - 1] \in Int /\ f[i] = f[i - 1] + Frees(u)
    BY <1>1, <1>u, <2>1, FreeStep
  <2>3. g[i - 1] \in Int /\ g[i] = g[i - 1] + Frees(-u)
    BY <1>1, <2>1, FreeStep
  <2>4. i - 1 = p /\ p + 1 = i /\ Frees(u) \in Int /\ Frees(-u) \in Int
    BY <1>1 DEF Frees
  <2>5. g[p + 1] - f[p + 1] = Frees(-u) - Frees(u)
    BY <2>1, <2>2, <2>3, <2>4
  <2>6. FreeSum(n) \in Nat /\ FreeSum(m) \in Nat
    BY <1>1, FreeSumInt
  <2> QED
    BY <2>1, <2>4, <2>5, <2>6
<1> QED
  BY <1>9, <1>10, <1>u

(* Block i gives its first d bytes to the allocated block before it. *)
Shifted(m, n, i, d) ==
  /\ m \in Seq(Int) /\ n \in Seq(Int) /\ i \in 2 .. Len(m) /\ Len(n) = Len(m)
  /\ d \in Nat /\ d < m[i] /\ m[i - 1] < 0
  /\ n[i - 1] = m[i - 1] - d /\ n[i] = m[i] - d
  /\ \A j \in 1 .. Len(m) : j \notin {i - 1, i} => n[j] = m[j]

LEMMA ShiftedOffsets ==
  ASSUME NEW m, NEW n, NEW i, NEW d, Shifted(m, n, i, d)
  PROVE  /\ \A j \in 1 .. Len(m) + 1 : j # i => Offset(n, j) = Offset(m, j)
         /\ Offset(n, i) = Offset(m, i) + d
         /\ FreeSum(n) = FreeSum(m) - d
<1> DEFINE x == Len(m)
           p == i - 2
           u == m[i]
           t == m[i - 1]
<1>1. /\ m \in Seq(Int) /\ n \in Seq(Int) /\ i \in 2 .. x /\ x \in Nat /\ Len(n) = x
      /\ d \in Nat /\ p \in Nat /\ p + 1 = i - 1 /\ p + 2 = i /\ u \in Int /\ t \in Int
      /\ n[i] = u - d /\ n[i - 1] = t - d /\ t < 0 /\ d < u
      /\ \A j \in 1 .. x : j \notin {i - 1, i} => n[j] = m[j]
  BY DEF Shifted
<1>u. u = m[i] /\ t = m[i - 1] /\ x = Len(m)
  OBVIOUS
<1> HIDE DEF x, p, u, t
<1>2. Spliced(m, n, p, 2, 2)
  <2>1. p + 2 <= x /\ Len(n) = x - 2 + 2 /\ \A j \in 1 .. p : n[j] = m[j]
    BY <1>1
  <2>2. \A j \in 1 .. x - p - 2 : n[p + 2 + j] = m[p + 2 + j]
    BY <1>1
  <2> QED
    BY <1>1, <1>u, <2>1, <2>2 DEF Spliced
<1>3. \A j \in 1 .. p + 1 : Offset(n, j) = Offset(m, j)
  BY <1>2, SplicedOffsets
<1>4. /\ \A k \in 1 .. x + 1 : Offset(m, k) \in Nat
      /\ \A k \in 1 .. x : Offset(m, k + 1) = Offset(m, k) + BlockSize(m[k])
  BY <1>1, <1>u, OffsetSteps
<1>5. /\ \A k \in 1 .. x + 1 : Offset(n, k) \in Nat
      /\ \A k \in 1 .. x : Offset(n, k + 1) = Offset(n, k) + BlockSize(n[k])
  BY <1>1, OffsetSteps
<1>6. BlockSize(t) = -t /\ BlockSize(t - d) = d - t /\ BlockSize(u) = u /\ BlockSize(u - d) = u - d
  BY <1>1 DEF BlockSize
<1>7. Offset(n, i) = Offset(m, i) + d
  <2>1. i - 1 \in 1 .. x /\ i - 1 \in 1 .. x + 1 /\ i - 1 + 1 = i
    BY <1>1
  <2>2. Offset(n, i - 1) = Offset(m, i - 1)
    BY <1>1, <1>3, <2>1
  <2>3. Offset(m, i) = Offset(m, i - 1) + (-t)
    BY <1>4, <1>6, <1>u, <2>1
  <2>4. Offset(n, i) = Offset(n, i - 1) + (d - t)
    BY <1>1, <1>5, <1>6, <2>1
  <2>5. Offset(m, i - 1) \in Nat
    BY <1>4, <2>1
  <2> QED
    BY <1>1, <2>2, <2>3, <2>4, <2>5
<1>8. Offset(n, p + 2 + 1) = Offset(m, p + 2 + 1)
  <2>1. i \in 1 .. x /\ i \in 1 .. x + 1 /\ p + 2 + 1 = i + 1
    BY <1>1
  <2>2. Offset(m, i + 1) = Offset(m, i) + u
    BY <1>4, <1>6, <1>u, <2>1
  <2>3. Offset(n, i + 1) = Offset(n, i) + (u - d)
    BY <1>1, <1>5, <1>6, <2>1
  <2>4. Offset(m, i) \in Nat
    BY <1>4, <2>1
  <2>5. Offset(n, i + 1) = Offset(m, i + 1)
    BY <1>1, <1>7, <2>2, <2>3, <2>4
  <2> QED
    BY <2>1, <2>5
<1>9. \A j \in p + 2 + 1 .. Len(m) + 1 : Offset(n, j - 2 + 2) = Offset(m, j)
  BY <1>2, <1>8, SplicedBehind
<1>10. ASSUME NEW j \in 1 .. x + 1, j # i PROVE Offset(n, j) = Offset(m, j)
  <2>1. CASE j < i
    BY <1>1, <1>3, <2>1
  <2>2. CASE j > i
    <3>1. j \in p + 2 + 1 .. Len(m) + 1 /\ j - 2 + 2 = j
      BY <1>1, <1>u, <2>2
    <3>2. Offset(n, j - 2 + 2) = Offset(m, j)
      BY <1>9, <3>1
    <3> QED
      BY <3>1, <3>2
  <2> QED
    BY <1>1, <1>10, <2>1, <2>2
<1>11. FreeSum(n) = FreeSum(m) - d
  <2>1. PICK f, g : /\ Running(f, FreeParts(m), Len(m)) /\ Running(g, FreeParts(n), Len(n))
                    /\ g[p] = f[p]
                    /\ FreeSum(n) - FreeSum(m) = g[p + 2] - f[p + 2]
    BY <1>2, SplicedFree
  <2>2. i - 1 \in 1 .. Len(m) /\ i \in 1 .. Len(m) /\ i - 1 \in 1 .. Len(n) /\ i \in 1 .. Len(n)
    BY <1>1, <1>u
  <2> DEFINE k == i - 1
  <2>k. k = i - 1 /\ k - 1 = p
    BY <1>1
  <2> HIDE DEF k
  <2>3. f[p] \in Int /\ f[k] = f[p] + Frees(t) /\ f[i] = f[k] + Frees(u)
    <3>1. f[k - 1] \in Int /\ f[k] = f[k - 1] + Frees(m[k])
      BY <1>1, <2>1, <2>2, <2>k, FreeStep
    <3>2. f[i] = f[i - 1] + Frees(m[i])
      BY <1>1, <2>1, <2>2, FreeStep
    <3> QED
      BY <1>u, <2>k, <3>1, <3>2
  <2>4. g[p] \in Int /\ g[k] = g[p] + Frees(t - d) /\ g[i] = g[k] + Frees(u - d)
    <3>1. g[k - 1] \in Int /\ g[k] = g[k - 1] + Frees(n[k])
      BY <1>1, <2>1, <2>2, <2>k, FreeStep
    <3>2. g[i] = g[i - 1] + Frees(n[i])
      BY <1>1, <2>1, <2>2, FreeStep
    <3>3. n[k] = t - d /\ n[i] = u - d
      BY <1>1, <2>k
    <3> QED
      BY <2>k, <3>1, <3>2, <3>3
  <2>6. Frees(t) = 0 /\ Frees(t - d) = 0 /\ Frees(u) = u /\ Frees(u - d) = u - d
    BY <1>1 DEF Frees
  <2> DEFINE base == f[p]
  <2>5. base \in Int /\ g[p] = base /\ f[k] = base /\ g[k] = base /\ f[i] = base + u /\ g[i] = base + (u - d)
    BY <1>1, <2>1, <2>3, <2>4, <2>6, SMTT(30)
  <2> HIDE DEF base
  <2>7. g[p + 2] - f[p + 2] = -d
    <3>1. g[i] - f[i] = -d
      BY <1>1, <2>5
    <3> QED
      BY <1>1, <3>1
  <2>8. FreeSum(n) \in Nat /\ FreeSum(m) \in Nat
    BY <1>1, FreeSumInt
  <2> QED
    BY <1>1, <2>1, <2>7, <2>8, SMTT(30)
<1> QED
  BY <1>7, <1>10, <1>11, <1>u

-----------------------------------------------------------------------------
(* A sound map: the empty static area and blocks that fill the unit, the
   allocated ones matched with the areas callers hold.  Two free blocks may
   touch only at the places of S, where an operation has not merged yet.   *)
Shape(m) ==
  /\ m \in Seq(Int) /\ Len(m) >= 2 /\ m[1] = 0 /\ \A i \in 2 .. Len(m) : m[i] # 0
  /\ Offset(m, Len(m) + 1) = UnitSize

TouchOnlyAt(m, S) == \A i \in 1 .. Len(m) - 1 : m[i] > 0 /\ m[i + 1] > 0 => i \in S

Covers(m, areas) ==
  \A a \in areas : \E i \in 2 .. Len(m) : Offset(m, i) = a.off /\ m[i] <= -a.size

Owned(m, areas) ==
  \A i \in 2 .. Len(m) :
    m[i] < 0 /\ Offset(m, i) # 0 => \E a \in areas : a.off = Offset(m, i)

Areas == [off : 0 .. UnitSize, size : IntSize .. UnitSize, align : 1 .. UnitSize]

SoundMap(m, areas, S) ==
  Shape(m) /\ TouchOnlyAt(m, S) /\ areas \subseteq Areas /\ Covers(m, areas) /\ Owned(m, areas)

LEMMA PercpuConstants == UnitSize \in Nat /\ IntSize \in Nat /\ UnitSize > 0 /\ IntSize > 0 /\ IntSize <= UnitSize
BY PercpuAssumption

(* Blocks start at different offsets, only the first two at zero. *)
LEMMA OffsetsApart ==
  ASSUME NEW m, Shape(m)
  PROVE  /\ \A i, j \in 2 .. Len(m) + 1 : i < j => Offset(m, i) < Offset(m, j)
         /\ Offset(m, 2) = 0
         /\ \A i \in 1 .. Len(m) + 1 : Offset(m, i) \in 0 .. UnitSize
         /\ \A i \in 1 .. Len(m) : m[i] <= UnitSize - Offset(m, i) /\ -m[i] <= UnitSize - Offset(m, i)
<1> DEFINE x == Len(m)
<1>1. /\ m \in Seq(Int) /\ x \in Nat /\ x >= 2 /\ m[1] = 0
      /\ \A i \in 1 .. x : m[i] \in Int
      /\ \A i \in 2 .. x : m[i] # 0
      /\ Offset(m, x + 1) = UnitSize
  BY DEF Shape
<1>2. /\ Offset(m, 1) = 0
      /\ \A k \in 1 .. x + 1 : Offset(m, k) \in Nat
      /\ \A k \in 1 .. x : Offset(m, k + 1) = Offset(m, k) + BlockSize(m[k])
      /\ \A i, j \in 1 .. x + 1 : i <= j => Offset(m, i) <= Offset(m, j)
  BY <1>1, OffsetSteps
<1> HIDE DEF x
<1>3. ASSUME NEW i \in 2 .. x + 1, NEW j \in 2 .. x + 1, i < j
      PROVE  Offset(m, i) < Offset(m, j)
  <2>1. i \in 2 .. x /\ i \in 1 .. x /\ i \in 1 .. x + 1 /\ i + 1 \in 1 .. x + 1 /\ j \in 1 .. x + 1 /\ i + 1 <= j
    BY <1>1, <1>3
  <2>2. Offset(m, i + 1) = Offset(m, i) + BlockSize(m[i]) /\ Offset(m, i + 1) <= Offset(m, j)
    BY <1>2, <2>1
  <2>3. BlockSize(m[i]) \in Nat /\ BlockSize(m[i]) > 0
    BY <1>1, <2>1 DEF BlockSize
  <2>4. Offset(m, i) \in Nat /\ Offset(m, j) \in Nat
    BY <1>2, <2>1
  <2> QED
    BY <2>2, <2>3, <2>4
<1>4. Offset(m, 2) = 0
  <2>1. 1 \in 1 .. x /\ 1 + 1 = 2 /\ BlockSize(m[1]) = 0
    BY <1>1 DEF BlockSize
  <2>2. Offset(m, 1 + 1) = Offset(m, 1) + BlockSize(m[1])
    BY <1>2, <2>1
  <2> QED
    BY <1>2, <2>1, <2>2
<1>5. ASSUME NEW i \in 1 .. x + 1 PROVE Offset(m, i) \in 0 .. UnitSize
  <2>1. x + 1 \in 1 .. x + 1 /\ i <= x + 1
    BY <1>1
  <2>2. Offset(m, i) <= Offset(m, x + 1) /\ Offset(m, i) \in Nat
    BY <1>2, <2>1
  <2> QED
    BY <1>1, <2>2, PercpuConstants
<1>6. ASSUME NEW i \in 1 .. x
      PROVE  m[i] <= UnitSize - Offset(m, i) /\ -m[i] <= UnitSize - Offset(m, i)
  <2>1. i \in 1 .. x + 1 /\ i + 1 \in 1 .. x + 1
    BY <1>1
  <2>2. Offset(m, i + 1) = Offset(m, i) + BlockSize(m[i])
    BY <1>2
  <2>3. Offset(m, i + 1) <= UnitSize /\ Offset(m, i) \in Nat
    BY <1>5, <1>2, <2>1
  <2>4. m[i] <= BlockSize(m[i]) /\ -m[i] <= BlockSize(m[i]) /\ BlockSize(m[i]) \in Int /\ m[i] \in Int
    BY <1>1 DEF BlockSize
  <2> QED
    BY <2>2, <2>3, <2>4, PercpuConstants
<1> QED
  BY <1>3, <1>4, <1>5, <1>6 DEF x

LEMMA OffsetInjective ==
  ASSUME NEW m, Shape(m), NEW i \in 2 .. Len(m) + 1, NEW j \in 2 .. Len(m) + 1,
         Offset(m, i) = Offset(m, j)
  PROVE  i = j
<1>1. Len(m) \in Nat /\ Offset(m, i) \in Int /\ Offset(m, j) \in Int
  <2>1. i \in 1 .. Len(m) + 1 /\ j \in 1 .. Len(m) + 1 /\ m \in Seq(Int)
    BY DEF Shape
  <2> QED
    BY <2>1, OffsetsApart, PercpuConstants
<1>2. i < j => Offset(m, i) < Offset(m, j)
  BY OffsetsApart
<1>3. j < i => Offset(m, j) < Offset(m, i)
  BY OffsetsApart
<1> QED
  BY <1>1, <1>2, <1>3

(* The allocated blocks of one map are those of another. *)
HasBlocksOf(n, m) ==
  \A i \in 2 .. Len(m) : m[i] < 0 => \E j \in 2 .. Len(n) : n[j] = m[i] /\ Offset(n, j) = Offset(m, i)

LEMMA SameBlocks ==
  ASSUME NEW m, NEW n, NEW areas, Shape(m), Shape(n), areas \subseteq Areas,
         Covers(m, areas), Owned(m, areas), HasBlocksOf(n, m), HasBlocksOf(m, n)
  PROVE  Covers(n, areas) /\ Owned(n, areas)
<1>1. ASSUME NEW a \in areas
      PROVE  \E j \in 2 .. Len(n) : Offset(n, j) = a.off /\ n[j] <= -a.size
  <2>1. PICK i \in 2 .. Len(m) : Offset(m, i) = a.off /\ m[i] <= -a.size
    BY DEF Covers
  <2>2. m[i] \in Int /\ a.size \in IntSize .. UnitSize
    BY <2>1 DEF Shape, Areas
  <2>3. m[i] < 0
    BY <2>1, <2>2, PercpuConstants
  <2>4. PICK j \in 2 .. Len(n) : n[j] = m[i] /\ Offset(n, j) = Offset(m, i)
    BY <2>1, <2>3 DEF HasBlocksOf
  <2> QED
    BY <2>1, <2>4
<1>2. ASSUME NEW j \in 2 .. Len(n), n[j] < 0, Offset(n, j) # 0
      PROVE  \E a \in areas : a.off = Offset(n, j)
  <2>1. PICK i \in 2 .. Len(m) : m[i] = n[j] /\ Offset(m, i) = Offset(n, j)
    BY <1>2 DEF HasBlocksOf
  <2> QED
    BY <1>2, <2>1 DEF Owned
<1> QED
  BY <1>1, <1>2 DEF Covers, Owned

LEMMA PartedBlocks ==
  ASSUME NEW m, NEW n, NEW i, Parted(m, n, i), i >= 2
  PROVE  HasBlocksOf(n, m) /\ HasBlocksOf(m, n) /\ (Shape(m) <=> Shape(n))
<1> DEFINE x == Len(m)
           y == Len(n)
<1>1. /\ m \in Seq(Int) /\ n \in Seq(Int) /\ i \in 2 .. x /\ x \in Nat /\ y = x + 1
      /\ \A j \in 1 .. i - 1 : n[j] = m[j]
      /\ \A j \in i + 1 .. x : n[j + 1] = m[j]
      /\ n[i] > 0 /\ n[i + 1] > 0 /\ m[i] > 0
  BY DEF Parted
<1>2. /\ \A j \in 1 .. i : Offset(n, j) = Offset(m, j)
      /\ \A j \in i + 1 .. x + 1 : Offset(n, j + 1) = Offset(m, j)
  BY PartedOffsets
<1>3. \A j \in 2 .. x : j = i \/ j \in 1 .. i - 1 \/ j \in i + 1 .. x
  BY <1>1
<1>4. \A j \in 2 .. y : j = i \/ j = i + 1 \/ j \in 1 .. i - 1
                        \/ \E k \in i + 1 .. x : j = k + 1
  <2> SUFFICES ASSUME NEW j \in 2 .. y, j > i + 1 PROVE \E k \in i + 1 .. x : j = k + 1
    BY <1>1
  <2>1. j - 1 \in i + 1 .. x /\ j = (j - 1) + 1
    BY <1>1
  <2> QED
    BY <2>1
<1>5. HasBlocksOf(n, m)
  <2> SUFFICES ASSUME NEW j \in 2 .. x, m[j] < 0
               PROVE  \E k \in 2 .. y : n[k] = m[j] /\ Offset(n, k) = Offset(m, j)
    BY DEF HasBlocksOf
  <2>1. CASE j \in 1 .. i - 1
    <3>1. j \in 2 .. y /\ j \in 1 .. i
      BY <1>1, <2>1
    <3> QED
      BY <1>1, <1>2, <2>1, <3>1
  <2>2. CASE j \in i + 1 .. x
    <3>1. j + 1 \in 2 .. y /\ j \in i + 1 .. x + 1
      BY <1>1, <2>2
    <3> QED
      BY <1>1, <1>2, <2>2, <3>1
  <2>3. j # i
    BY <1>1
  <2> QED
    BY <1>3, <2>1, <2>2, <2>3
<1>6. HasBlocksOf(m, n)
  <2> SUFFICES ASSUME NEW j \in 2 .. y, n[j] < 0
               PROVE  \E k \in 2 .. x : m[k] = n[j] /\ Offset(m, k) = Offset(n, j)
    BY DEF HasBlocksOf
  <2>1. CASE j \in 1 .. i - 1
    <3>1. j \in 2 .. x /\ j \in 1 .. i
      BY <1>1, <2>1
    <3> QED
      BY <1>1, <1>2, <2>1, <3>1
  <2>2. CASE \E k \in i + 1 .. x : j = k + 1
    <3>1. PICK k \in i + 1 .. x : j = k + 1
      BY <2>2
    <3>2. k \in 2 .. x /\ k \in i + 1 .. x + 1
      BY <1>1
    <3> QED
      BY <1>1, <1>2, <3>1, <3>2
  <2>3. j # i /\ j # i + 1
    BY <1>1, SMTT(30)
  <2> QED
    BY <1>4, <2>1, <2>2, <2>3
<1>7. n[1] = m[1]
  BY <1>1
<1>8. (\A j \in 2 .. x : m[j] # 0) <=> (\A j \in 2 .. y : n[j] # 0)
  <2>1. ASSUME \A j \in 2 .. x : m[j] # 0 PROVE \A j \in 2 .. y : n[j] # 0
    <3> SUFFICES ASSUME NEW j \in 2 .. y PROVE n[j] # 0
      OBVIOUS
    <3>1. CASE j \in 1 .. i - 1
      <4>0. j \in 2 .. x
        BY <1>1, <3>1
      <4>1. n[j] = m[j]
        BY <1>1, <3>1
      <4> QED
        BY <2>1, <4>0, <4>1
    <3>2. CASE \E k \in i + 1 .. x : j = k + 1
      <4>1. PICK k \in i + 1 .. x : j = k + 1
        BY <3>2
      <4>2. n[k + 1] = m[k] /\ k \in 2 .. x
        BY <1>1
      <4>3. n[k + 1] # 0
        BY <2>1, <4>2
      <4> QED
        BY <4>1, <4>3
    <3>3. n[i] # 0 /\ n[i + 1] # 0
      BY <1>1
    <3> QED
      BY <1>4, <3>1, <3>2, <3>3
  <2>2. ASSUME \A j \in 2 .. y : n[j] # 0 PROVE \A j \in 2 .. x : m[j] # 0
    <3> SUFFICES ASSUME NEW j \in 2 .. x PROVE m[j] # 0
      OBVIOUS
    <3>1. CASE j \in 1 .. i - 1
      <4>1. n[j] = m[j]
        BY <1>1, <3>1
      <4>2. j \in 2 .. y
        BY <1>1, <3>1
      <4> QED
        BY <2>2, <4>1, <4>2
    <3>2. CASE j \in i + 1 .. x
      <4>1. n[j + 1] = m[j] /\ j + 1 \in 2 .. y
        BY <1>1, <3>2
      <4> QED
        BY <2>2, <4>1
    <3> QED
      BY <1>1, <1>3, <3>1, <3>2
  <2> QED
    BY <2>1, <2>2
<1>9. Offset(n, y + 1) = Offset(m, x + 1)
  <2>1. x + 1 \in i + 1 .. x + 1 /\ (x + 1) + 1 = y + 1
    BY <1>1
  <2> QED
    BY <1>2, <2>1
<1> HIDE DEF x, y
<1>10. x >= 2 /\ y >= 2
  BY <1>1
<1> QED
  BY <1>1, <1>5, <1>6, <1>7, <1>8, <1>9, <1>10 DEF Shape, x, y

(* Splitting a free block: its two parts touch. *)
LEMMA SplitSound ==
  ASSUME NEW m, NEW areas, NEW S, SoundMap(m, areas, S),
         NEW n, NEW i, Parted(m, n, i), i >= 2, \A k \in S : k < i
  PROVE  SoundMap(n, areas, S \cup {i})
<1> DEFINE x == Len(m)
           y == Len(n)
<1>1. /\ i \in 2 .. x /\ x \in Nat /\ y = x + 1
      /\ \A j \in 1 .. i - 1 : n[j] = m[j]
      /\ \A j \in i + 1 .. x : n[j + 1] = m[j]
      /\ n[i] > 0 /\ n[i + 1] > 0 /\ m[i] > 0
  BY DEF Parted
<1>2. Shape(n) /\ Covers(n, areas) /\ Owned(n, areas)
  BY PartedBlocks, SameBlocks DEF SoundMap
<1>3. ASSUME NEW j \in 1 .. y - 1, n[j] > 0, n[j + 1] > 0, j # i PROVE j \in S
  <2>1. \A k \in 1 .. x - 1 : m[k] > 0 /\ m[k + 1] > 0 => k \in S
    BY DEF SoundMap, TouchOnlyAt
  <2>2. CASE j < i
    <3>1. j \in 1 .. x - 1 /\ j \in 1 .. i - 1
      BY <1>1, <2>2
    <3>2. n[j] = m[j]
      BY <1>1, <3>1
    <3>3. m[j + 1] > 0
      <4>1. CASE j + 1 = i
        BY <1>1, <4>1
      <4>2. CASE j + 1 # i
        <5>1. j + 1 \in 1 .. i - 1
          BY <1>1, <2>2, <4>2
        <5>2. n[j + 1] = m[j + 1]
          BY <1>1, <5>1
        <5> QED
          BY <1>3, <5>2
      <4> QED
        BY <4>1, <4>2
    <3> QED
      BY <1>3, <2>1, <3>1, <3>2, <3>3
  <2>3. CASE j > i
    <3> DEFINE k == j - 1
    <3>1. k \in 1 .. x - 1 /\ k + 1 \in i + 1 .. x /\ k + 1 = j /\ (k + 1) + 1 = j + 1 /\ k >= i
      BY <1>1, <2>3
    <3> HIDE DEF k
    <3>2. m[k + 1] > 0
      <4>1. n[(k + 1) + 1] = m[k + 1]
        BY <1>1, <3>1
      <4> QED
        BY <1>3, <3>1, <4>1
    <3>3. m[k] > 0
      <4>1. CASE k = i
        BY <1>1, <4>1
      <4>2. CASE k # i
        <5>1. k \in i + 1 .. x
          BY <1>1, <3>1, <4>2
        <5>2. n[k + 1] = m[k]
          BY <1>1, <5>1
        <5> QED
          BY <1>3, <3>1, <5>2
      <4> QED
        BY <4>1, <4>2
    <3>4. k \in S
      BY <2>1, <3>1, <3>2, <3>3
    <3> QED
      BY <1>1, <3>1, <3>4
  <2> QED
    BY <1>1, <1>3, <2>2, <2>3
<1> HIDE DEF x
<1>4. TouchOnlyAt(n, S \cup {i})
  BY <1>3 DEF TouchOnlyAt
<1> QED
  BY <1>2, <1>4 DEF SoundMap

(* Joining two free blocks. *)
LEMMA JoinSound ==
  ASSUME NEW n, NEW areas, NEW S, SoundMap(n, areas, S),
         NEW m, NEW i, Parted(m, n, i), i >= 2, S \subseteq {i, i + 1},
         NEW T, i + 1 \in S => i \in T
  PROVE  SoundMap(m, areas, T)
<1> DEFINE x == Len(m)
           y == Len(n)
<1>1. /\ i \in 2 .. x /\ x \in Nat /\ y = x + 1
      /\ \A j \in 1 .. i - 1 : n[j] = m[j]
      /\ \A j \in i + 1 .. x : n[j + 1] = m[j]
      /\ n[i] > 0 /\ n[i + 1] > 0 /\ m[i] > 0
  BY DEF Parted
<1>2. Shape(m) /\ Covers(m, areas) /\ Owned(m, areas)
  BY PartedBlocks, SameBlocks DEF SoundMap
<1>3. \A k \in 1 .. y - 1 : n[k] > 0 /\ n[k + 1] > 0 => k \in S
  BY DEF SoundMap, TouchOnlyAt
<1>4. ASSUME NEW j \in 1 .. x - 1, m[j] > 0, m[j + 1] > 0 PROVE j \in T
  <2>1. CASE j < i
    <3>1. j \in 1 .. y - 1 /\ j \in 1 .. i - 1 /\ j # i /\ j # i + 1
      BY <1>1, <2>1
    <3>2. n[j] = m[j]
      BY <1>1, <3>1
    <3>3. n[j + 1] > 0
      <4>1. CASE j + 1 = i
        BY <1>1, <4>1
      <4>2. CASE j + 1 # i
        <5>1. j + 1 \in 1 .. i - 1
          BY <1>1, <2>1, <4>2
        <5>2. n[j + 1] = m[j + 1]
          BY <1>1, <5>1
        <5> QED
          BY <1>4, <5>2
      <4> QED
        BY <4>1, <4>2
    <3>4. j \in S
      BY <1>3, <1>4, <3>1, <3>2, <3>3
    <3> QED
      BY <3>1, <3>4
  <2>2. CASE j >= i
    <3>1. j + 1 \in 1 .. y - 1 /\ j + 1 \in i + 1 .. x
      BY <1>1, <2>2
    <3>2. n[(j + 1) + 1] = m[j + 1]
      BY <1>1, <3>1
    <3>3. n[j + 1] > 0
      <4>1. CASE j = i
        BY <1>1, <4>1
      <4>2. CASE j # i
        <5>1. j \in i + 1 .. x
          BY <1>1, <2>2, <4>2
        <5>2. n[j + 1] = m[j]
          BY <1>1, <5>1
        <5> QED
          BY <1>4, <5>2
      <4> QED
        BY <4>1, <4>2
    <3>4. j + 1 \in S
      BY <1>3, <1>4, <3>1, <3>2, <3>3
    <3>5. j = i
      BY <1>1, <2>2, <3>4
    <3> QED
      BY <3>4, <3>5
  <2> QED
    BY <1>1, <2>1, <2>2
<1> HIDE DEF x
<1>5. TouchOnlyAt(m, T)
  BY <1>4 DEF TouchOnlyAt, x
<1> QED
  BY <1>2, <1>5 DEF SoundMap

LEMMA FlippedShape ==
  ASSUME NEW m, NEW n, NEW i, Flipped(m, n, i), Shape(m), i >= 2
  PROVE  Shape(n)
<1>1. n \in Seq(Int) /\ Len(n) = Len(m) /\ Len(m) >= 2 /\ Len(m) \in Nat /\ i \in 2 .. Len(m)
  BY DEF Flipped, Shape
<1>2. n[1] = 0
  BY <1>1 DEF Flipped, Shape
<1>3. \A j \in 2 .. Len(n) : n[j] # 0
  <2> SUFFICES ASSUME NEW j \in 2 .. Len(m) PROVE n[j] # 0
    BY <1>1
  <2>1. m[j] # 0 /\ m[i] # 0 /\ m[i] \in Int /\ n[j] = IF j = i THEN -m[i] ELSE m[j]
    BY <1>1 DEF Flipped, Shape
  <2> QED
    BY <2>1
<1>4. Offset(n, Len(n) + 1) = UnitSize
  <2>1. Len(m) + 1 \in 1 .. Len(m) + 1
    BY <1>1
  <2> QED
    BY <1>1, <2>1, FlippedOffsets DEF Shape
<1> QED
  BY <1>1, <1>2, <1>3, <1>4 DEF Shape

(* Taking a free block for an area of its size or less. *)
LEMMA TakeSound ==
  ASSUME NEW m, NEW areas, NEW S, SoundMap(m, areas, S),
         NEW n, NEW i, Flipped(m, n, i), i >= 2, m[i] > 0, S \subseteq {i - 1, i},
         NEW a \in Areas, a.off = Offset(m, i), a.size <= m[i]
  PROVE  SoundMap(n, areas \cup {a}, {}) /\ \A b \in areas : b.off # a.off
<1> DEFINE x == Len(m)
<1>1. /\ m \in Seq(Int) /\ i \in 2 .. x /\ i \in 1 .. x + 1 /\ x \in Nat /\ Len(n) = x /\ m[i] \in Int
      /\ \A j \in 1 .. x : n[j] = IF j = i THEN -m[i] ELSE m[j]
  BY DEF Flipped
<1>2. \A j \in 1 .. x + 1 : Offset(n, j) = Offset(m, j)
  BY FlippedOffsets
<1>3. Shape(m) /\ Shape(n) /\ areas \subseteq Areas
  BY FlippedShape DEF SoundMap
<1>4. Covers(n, areas \cup {a})
  <2> SUFFICES ASSUME NEW b \in areas \cup {a}
               PROVE  \E j \in 2 .. x : Offset(n, j) = b.off /\ n[j] <= -b.size
    BY <1>1 DEF Covers
  <2>1. CASE b = a
    <3>1. Offset(n, i) = a.off /\ n[i] = -m[i] /\ a.size \in Int
      BY <1>1, <1>2 DEF Areas
    <3> QED
      BY <1>1, <2>1, <3>1
  <2>2. CASE b \in areas
    <3>1. PICK j \in 2 .. x : Offset(m, j) = b.off /\ m[j] <= -b.size
      BY <2>2 DEF SoundMap, Covers
    <3>2. b.size \in Nat /\ b.size > 0 /\ j \in 1 .. x /\ j \in 1 .. x + 1 /\ m[j] \in Int
      BY <1>1, <1>3, <2>2, PercpuConstants DEF Areas
    <3>3. j # i
      BY <1>1, <3>1, <3>2
    <3> QED
      BY <1>1, <1>2, <3>1, <3>2, <3>3
  <2> QED
    BY <2>1, <2>2
<1>5. Owned(n, areas \cup {a})
  <2> SUFFICES ASSUME NEW j \in 2 .. x, n[j] < 0, Offset(n, j) # 0
               PROVE  \E b \in areas \cup {a} : b.off = Offset(n, j)
    BY <1>1 DEF Owned
  <2>1. j \in 1 .. x /\ j \in 1 .. x + 1 /\ Offset(n, j) = Offset(m, j)
    BY <1>1, <1>2
  <2>2. CASE j = i
    BY <2>1, <2>2
  <2>3. CASE j # i
    <3>1. m[j] < 0
      BY <1>1, <2>1, <2>3
    <3>2. \E b \in areas : b.off = Offset(m, j)
      BY <2>1, <3>1 DEF SoundMap, Owned
    <3> QED
      BY <2>1, <3>2
  <2> QED
    BY <2>2, <2>3
<1>6. TouchOnlyAt(n, {})
  <2> SUFFICES ASSUME NEW j \in 1 .. x - 1, n[j] > 0, n[j + 1] > 0 PROVE FALSE
    BY <1>1 DEF TouchOnlyAt
  <2>1. j \in 1 .. x /\ j + 1 \in 1 .. x
    BY <1>1
  <2>2. j # i /\ j + 1 # i
    BY <1>1, <2>1
  <2>3. m[j] > 0 /\ m[j + 1] > 0
    BY <1>1, <2>1, <2>2
  <2>4. j \in S
    BY <2>3 DEF SoundMap, TouchOnlyAt
  <2> QED
    BY <1>1, <2>2, <2>4
<1>7. ASSUME NEW b \in areas PROVE b.off # a.off
  <2>1. PICK j \in 2 .. x : Offset(m, j) = b.off /\ m[j] <= -b.size
    BY DEF SoundMap, Covers
  <2>2. b.size \in Nat /\ b.size > 0
    BY <1>3, PercpuConstants DEF Areas
  <2>3. j \in 2 .. x + 1 /\ i \in 2 .. x + 1 /\ m[j] \in Int
    BY <1>1
  <2>4. j # i
    BY <2>1, <2>2, <2>3
  <2> QED
    BY <1>3, <2>1, <2>3, <2>4, OffsetInjective
<1> QED
  BY <1>3, <1>4, <1>5, <1>6, <1>7 DEF SoundMap

(* Releasing the block of an area: it may touch both neighbours. *)
LEMMA ReleaseSound ==
  ASSUME NEW m, NEW areas, SoundMap(m, areas, {}),
         NEW n, NEW i, Flipped(m, n, i), i >= 2, m[i] < 0,
         NEW a \in areas, a.off = Offset(m, i), \A b \in areas : b.off = a.off => b = a
  PROVE  SoundMap(n, areas \ {a}, {i - 1, i})
<1> DEFINE x == Len(m)
<1>1. /\ m \in Seq(Int) /\ i \in 2 .. x /\ i \in 1 .. x + 1 /\ x \in Nat /\ Len(n) = x /\ m[i] \in Int
      /\ \A j \in 1 .. x : n[j] = IF j = i THEN -m[i] ELSE m[j]
  BY DEF Flipped
<1>2. \A j \in 1 .. x + 1 : Offset(n, j) = Offset(m, j)
  BY FlippedOffsets
<1>3. Shape(m) /\ Shape(n) /\ areas \subseteq Areas
  BY FlippedShape DEF SoundMap
<1>4. Covers(n, areas \ {a})
  <2> SUFFICES ASSUME NEW b \in areas \ {a}
               PROVE  \E j \in 2 .. x : Offset(n, j) = b.off /\ n[j] <= -b.size
    BY <1>1 DEF Covers
  <2>1. PICK j \in 2 .. x : Offset(m, j) = b.off /\ m[j] <= -b.size
    BY DEF SoundMap, Covers
  <2>2. j # i
    BY <2>1
  <2>3. j \in 1 .. x /\ j \in 1 .. x + 1
    BY <1>1
  <2> QED
    BY <1>1, <1>2, <2>1, <2>2, <2>3
<1>5. Owned(n, areas \ {a})
  <2> SUFFICES ASSUME NEW j \in 2 .. x, n[j] < 0, Offset(n, j) # 0
               PROVE  \E b \in areas \ {a} : b.off = Offset(n, j)
    BY <1>1 DEF Owned
  <2>1. j \in 1 .. x /\ j \in 1 .. x + 1 /\ Offset(n, j) = Offset(m, j)
    BY <1>1, <1>2
  <2>2. j # i
    BY <1>1, <2>1
  <2>3. m[j] < 0
    BY <1>1, <2>1, <2>2
  <2>4. PICK b \in areas : b.off = Offset(m, j)
    BY <2>1, <2>3 DEF SoundMap, Owned
  <2>5. j \in 2 .. x + 1 /\ i \in 2 .. x + 1
    BY <1>1
  <2>6. b # a
    BY <1>3, <2>2, <2>4, <2>5, OffsetInjective
  <2> QED
    BY <2>1, <2>4, <2>6
<1>6. TouchOnlyAt(n, {i - 1, i})
  <2> SUFFICES ASSUME NEW j \in 1 .. x - 1, n[j] > 0, n[j + 1] > 0, j \notin {i - 1, i}
               PROVE  FALSE
    BY <1>1 DEF TouchOnlyAt
  <2>1. j \in 1 .. x /\ j + 1 \in 1 .. x
    BY <1>1
  <2>2. j # i /\ j + 1 # i
    BY <1>1, <2>1
  <2>3. m[j] > 0 /\ m[j + 1] > 0
    BY <1>1, <2>1, <2>2
  <2> QED
    BY <2>3 DEF SoundMap, TouchOnlyAt
<1> QED
  BY <1>3, <1>4, <1>5, <1>6 DEF SoundMap

(* Giving the head of a free block to the allocated block before it. *)
LEMMA AbsorbSound ==
  ASSUME NEW m, NEW areas, SoundMap(m, areas, {}),
         NEW n, NEW i, NEW d, Shifted(m, n, i, d), i >= 3
  PROVE  SoundMap(n, areas, {})
<1> DEFINE x == Len(m)
<1>1. /\ m \in Seq(Int) /\ n \in Seq(Int) /\ i \in 3 .. x /\ x \in Nat /\ Len(n) = x
      /\ d \in Nat /\ d < m[i] /\ m[i - 1] < 0
      /\ n[i - 1] = m[i - 1] - d /\ n[i] = m[i] - d
      /\ \A j \in 1 .. x : j \notin {i - 1, i} => n[j] = m[j]
  BY DEF Shifted
<1>2. \A j \in 1 .. x + 1 : j # i => Offset(n, j) = Offset(m, j)
  BY ShiftedOffsets
<1>3. \A j \in 1 .. x : m[j] \in Int /\ n[j] \in Int
  BY <1>1
<1>s. /\ Shape(m) /\ m[1] = 0 /\ (\A j \in 2 .. x : m[j] # 0) /\ Offset(m, x + 1) = UnitSize
      /\ areas \subseteq Areas
  BY DEF SoundMap, Shape
<1>4. \A j \in 1 .. x : (n[j] > 0 <=> m[j] > 0) /\ (n[j] < 0 <=> m[j] < 0) /\ (n[j] <= m[j])
  <2> SUFFICES ASSUME NEW j \in 1 .. x
               PROVE  (n[j] > 0 <=> m[j] > 0) /\ (n[j] < 0 <=> m[j] < 0) /\ (n[j] <= m[j])
    OBVIOUS
  <2> DEFINE k == i - 1
             u == m[j]
             v == n[j]
  <2>1. u \in Int /\ v \in Int
    BY <1>3
  <2>2. d \in Nat /\ d < m[i] /\ m[k] < 0 /\ n[k] = m[k] - d /\ n[i] = m[i] - d
    BY <1>1
  <2>3. j \notin {k, i} => v = u
    BY <1>1
  <2> HIDE DEF k
  <2>4. v = u \/ (v = u - d /\ u < 0) \/ (v = u - d /\ d < u)
    BY <2>2, <2>3
  <2> HIDE DEF u, v
  <2>5. (v > 0 <=> u > 0) /\ (v < 0 <=> u < 0) /\ v <= u
    BY <2>1, <2>2, <2>4
  <2> QED
    BY <2>5 DEF u, v
<1>r. i \in 3 .. x /\ x \in Nat /\ n \in Seq(Int) /\ Len(n) = x
  BY <1>1
<1>5. Shape(n)
  <2>1. n[1] = 0
    <3>1. 1 \in 1 .. x /\ 1 \notin {i - 1, i}
      BY <1>r
    <3>2. n[1] = m[1]
      BY <1>1, <3>1
    <3> QED
      BY <1>s, <3>2
  <2>2. \A j \in 2 .. x : n[j] # 0
    <3> SUFFICES ASSUME NEW j \in 2 .. x PROVE n[j] # 0
      OBVIOUS
    <3>1. j \in 1 .. x /\ m[j] # 0
      BY <1>s, <1>r
    <3> QED
      BY <1>3, <1>4, <3>1
  <2>3. Offset(n, x + 1) = UnitSize
    <3>1. x + 1 \in 1 .. x + 1 /\ x + 1 # i
      BY <1>r
    <3> QED
      BY <1>2, <1>s, <3>1
  <2>4. x >= 2
    BY <1>r
  <2> QED
    BY <1>r, <2>1, <2>2, <2>3, <2>4 DEF Shape
<1>6. Covers(n, areas)
  <2> SUFFICES ASSUME NEW b \in areas
               PROVE  \E j \in 2 .. x : Offset(n, j) = b.off /\ n[j] <= -b.size
    BY <1>r DEF Covers
  <2>1. PICK j \in 2 .. x : Offset(m, j) = b.off /\ m[j] <= -b.size
    BY DEF SoundMap, Covers
  <2>2. b.size \in Nat /\ b.size > 0
    BY <1>s, PercpuConstants DEF Areas
  <2>3. j \in 1 .. x /\ j \in 1 .. x + 1
    BY <1>r
  <2>4. m[j] \in Int /\ n[j] \in Int /\ m[j] < 0 /\ n[j] <= m[j]
    <3>1. m[j] \in Int /\ n[j] \in Int /\ n[j] <= m[j]
      BY <1>3, <1>4, <2>3
    <3> QED
      BY <2>1, <2>2, <3>1
  <2>5. d \in Nat /\ d < m[i] /\ m[i] \in Int
    BY <1>1
  <2>6. j # i
    BY <2>4, <2>5
  <2>7. n[j] <= -b.size
    BY <2>1, <2>2, <2>4
  <2> QED
    BY <1>2, <2>1, <2>3, <2>6, <2>7
<1>7. Owned(n, areas)
  <2> SUFFICES ASSUME NEW j \in 2 .. x, n[j] < 0, Offset(n, j) # 0
               PROVE  \E b \in areas : b.off = Offset(n, j)
    BY <1>r DEF Owned
  <2>1. j \in 1 .. x /\ j \in 1 .. x + 1
    BY <1>r
  <2>2. m[j] \in Int /\ m[j] < 0
    BY <1>3, <1>4, <2>1
  <2>3. d \in Nat /\ d < m[i] /\ m[i] \in Int
    BY <1>1
  <2>4. j # i
    BY <2>2, <2>3
  <2>5. Offset(n, j) = Offset(m, j)
    BY <1>2, <2>1, <2>4
  <2> QED
    BY <2>2, <2>5 DEF SoundMap, Owned
<1>8. TouchOnlyAt(n, {})
  <2> SUFFICES ASSUME NEW j \in 1 .. x - 1, n[j] > 0, n[j + 1] > 0 PROVE FALSE
    BY <1>1 DEF TouchOnlyAt
  <2>1. j \in 1 .. x /\ j + 1 \in 1 .. x
    BY <1>1
  <2>2. m[j] > 0 /\ m[j + 1] > 0
    BY <1>4, <2>1
  <2> QED
    BY <2>2 DEF SoundMap, TouchOnlyAt
<1> QED
  BY <1>5, <1>6, <1>7, <1>8 DEF SoundMap

-----------------------------------------------------------------------------
(* Taking an area *)

(* A free block as its parts: h bytes that stay free when H is one, t that
   are taken, and z that stay free when Z is one.                          *)
Carved(m, r, i, H, Z, h, t, z) ==
  /\ m \in Seq(Int) /\ r \in Seq(Int) /\ i \in 2 .. Len(m)
  /\ H \in {0, 1} /\ Z \in {0, 1} /\ h \in Nat /\ t \in Nat /\ z \in Nat
  /\ (H = 0 => h = 0) /\ (H = 1 => h > 0) /\ (Z = 0 => z = 0) /\ (Z = 1 => z > 0) /\ t > 0
  /\ m[i] = h + t + z
  /\ Len(r) = Len(m) + H + Z
  /\ \A j \in 1 .. i - 1 : r[j] = m[j]
  /\ (H = 1 => r[i] = h) /\ r[i + H] = -t /\ (Z = 1 => r[i + H + 1] = z)
  /\ \A j \in i + 1 .. Len(m) : r[j + H + Z] = m[j]

LEMMA SequenceOf ==
  ASSUME NEW n \in Nat, NEW f \in [1 .. n -> Int]
  PROVE  f \in Seq(Int) /\ Len(f) = n
OBVIOUS

(* The map n in between: the head is a block of its own. *)
HeadApart(n, S, m, areas, i, H, h, rest) ==
  /\ SoundMap(n, areas, S) /\ S \subseteq {i} /\ (H = 0 => S = {})
  /\ n \in Seq(Int) /\ Len(n) = Len(m) + H /\ FreeSum(n) = FreeSum(m)
  /\ Offset(n, i + H) = Offset(m, i) + h
  /\ \A j \in 1 .. i - 1 : n[j] = m[j]
  /\ (H = 1 => n[i] = h) /\ n[i + H] = rest
  /\ \A j \in i + 1 .. Len(m) : n[j + H] = m[j]

LEMMA HeadSplit ==
  ASSUME NEW m, NEW areas, SoundMap(m, areas, {}),
         NEW r, NEW i, NEW H, NEW Z, NEW h, NEW t, NEW z, Carved(m, r, i, H, Z, h, t, z)
  PROVE  \E n, S : HeadApart(n, S, m, areas, i, H, h, t + z)
<1> DEFINE x == Len(m)
<1>1. /\ m \in Seq(Int) /\ i \in 2 .. x /\ x \in Nat /\ H \in {0, 1} /\ h \in Nat /\ t \in Nat /\ z \in Nat
      /\ (H = 0 => h = 0) /\ (H = 1 => h > 0) /\ t > 0 /\ m[i] = h + t + z
      /\ \A j \in 1 .. x : m[j] \in Int
  BY DEF Carved
<1>2. CASE H = 0
  <2>1. Offset(m, i) \in Nat
    <3>1. i \in 1 .. x + 1
      BY <1>1
    <3> QED
      BY <1>1, <3>1, OffsetSteps
  <2>2. i + H = i /\ x + H = x /\ Offset(m, i + H) = Offset(m, i) + h
    BY <1>1, <1>2, <2>1
  <2>3. \A j \in i + 1 .. x : m[j + H] = m[j]
    BY <1>1, <1>2
  <2>4. m[i + H] = t + z
    BY <1>1, <1>2, <2>2
  <2> QED
    BY <1>1, <1>2, <2>2, <2>3, <2>4 DEF HeadApart
<1>3. CASE H = 1
  <2> DEFINE n == [j \in 1 .. x + 1 |-> IF j < i THEN m[j] ELSE IF j = i THEN h
                                        ELSE IF j = i + 1 THEN t + z ELSE m[j - 1]]
  <2>1. n \in [1 .. x + 1 -> Int]
    <3> SUFFICES ASSUME NEW j \in 1 .. x + 1
                 PROVE  (IF j < i THEN m[j] ELSE IF j = i THEN h
                         ELSE IF j = i + 1 THEN t + z ELSE m[j - 1]) \in Int
      OBVIOUS
    <3>1. j < i => j \in 1 .. x
      BY <1>1
    <3>2. j > i + 1 => j - 1 \in 1 .. x
      BY <1>1
    <3> QED
      BY <1>1, <3>1, <3>2
  <2>2. /\ \A j \in 1 .. i - 1 : n[j] = m[j]
        /\ n[i] = h /\ n[i + 1] = t + z
        /\ \A j \in i + 1 .. x : n[j + 1] = m[j]
    BY <1>1
  <2> HIDE DEF n
  <2>3. x + 1 \in Nat
    BY <1>1
  <2>4. n \in Seq(Int) /\ Len(n) = x + 1
    BY <2>1, <2>3, SequenceOf
  <2>5. Parted(m, n, i)
    BY <1>1, <1>3, <2>2, <2>4 DEF Parted
  <2>6. SoundMap(n, areas, {} \cup {i})
    <3>1. i >= 2 /\ \A k \in {} : k < i
      BY <1>1
    <3> QED
      BY <2>5, <3>1, SplitSound
  <2>7. Offset(n, i + 1) = Offset(m, i) + n[i] /\ FreeSum(n) = FreeSum(m)
    BY <2>5, PartedOffsets
  <2>8. {} \cup {i} \subseteq {i}
    OBVIOUS
  <2> DEFINE S == {} \cup {i}
  <2> HIDE DEF S
  <2>9. SoundMap(n, areas, S) /\ S \subseteq {i}
    BY <2>6, <2>8 DEF S
  <2> QED
    BY <1>3, <2>2, <2>4, <2>7, <2>9 DEF HeadApart
<1> QED
  BY <1>1, <1>2, <1>3

(* And so is the tail: r takes the block at k. *)
TailApart(n, S, areas, r, k, sum, off, t) ==
  /\ SoundMap(n, areas, S) /\ S \subseteq {k - 1, k}
  /\ FreeSum(n) = sum /\ Offset(n, k) = off
  /\ Flipped(n, r, k) /\ n[k] = t

LEMMA TailSplit ==
  ASSUME NEW m, NEW areas, SoundMap(m, areas, {}),
         NEW r, NEW i, NEW H, NEW Z, NEW h, NEW t, NEW z, Carved(m, r, i, H, Z, h, t, z)
  PROVE  \E n, S : TailApart(n, S, areas, r, i + H, FreeSum(m), Offset(m, i) + h, t)
<1> DEFINE x == Len(m)
           k == i + H
           y == x + H
<1>1. /\ m \in Seq(Int) /\ r \in Seq(Int) /\ i \in 2 .. x /\ x \in Nat
      /\ H \in {0, 1} /\ Z \in {0, 1} /\ h \in Nat /\ t \in Nat /\ z \in Nat
      /\ (H = 1 => h > 0) /\ (Z = 0 => z = 0) /\ (Z = 1 => z > 0) /\ t > 0
      /\ Len(r) = x + H + Z
      /\ \A j \in 1 .. i - 1 : r[j] = m[j]
      /\ (H = 1 => r[i] = h) /\ r[i + H] = -t /\ (Z = 1 => r[i + H + 1] = z)
      /\ \A j \in i + 1 .. x : r[j + H + Z] = m[j]
      /\ k \in 2 .. y /\ y \in Nat
  <2>1. /\ m \in Seq(Int) /\ r \in Seq(Int) /\ i \in 2 .. x
        /\ H \in {0, 1} /\ Z \in {0, 1} /\ h \in Nat /\ t \in Nat /\ z \in Nat
        /\ (H = 1 => h > 0) /\ (Z = 0 => z = 0) /\ (Z = 1 => z > 0) /\ t > 0
        /\ Len(r) = x + H + Z
        /\ \A j \in 1 .. i - 1 : r[j] = m[j]
        /\ (H = 1 => r[i] = h) /\ r[i + H] = -t /\ (Z = 1 => r[i + H + 1] = z)
        /\ \A j \in i + 1 .. x : r[j + H + Z] = m[j]
    BY DEF Carved
  <2>2. x \in Nat
    BY <2>1
  <2>3. k \in 2 .. y /\ y \in Nat
    BY <2>1, <2>2
  <2> QED
    BY <2>1, <2>2, <2>3
<1>r. i \in 2 .. x /\ x \in Nat /\ H \in {0, 1} /\ Z \in {0, 1} /\ k \in 2 .. y /\ y \in Nat /\ k = i + H /\ y = x + H
  BY <1>1
<1>2. PICK n, S : /\ SoundMap(n, areas, S) /\ S \subseteq {i} /\ (H = 0 => S = {})
                  /\ n \in Seq(Int) /\ Len(n) = y /\ FreeSum(n) = FreeSum(m)
                  /\ Offset(n, k) = Offset(m, i) + h
                  /\ \A j \in 1 .. i - 1 : n[j] = m[j]
                  /\ (H = 1 => n[i] = h) /\ n[k] = t + z
                  /\ \A j \in i + 1 .. x : n[j + H] = m[j]
  <2>1. PICK n, S : HeadApart(n, S, m, areas, i, H, h, t + z)
    BY HeadSplit
  <2> QED
    BY <2>1 DEF HeadApart
(* Where the carved map and n agree. *)
<1>3. \A j \in 1 .. k - 1 : n[j] = r[j]
  <2> SUFFICES ASSUME NEW j \in 1 .. k - 1 PROVE n[j] = r[j]
    OBVIOUS
  <2>1. j \in 1 .. i - 1 \/ (H = 1 /\ j = i)
    BY <1>1
  <2> QED
    BY <1>1, <1>2, <2>1
<1>4. \A j \in k + 1 .. y : n[j] = r[j + Z]
  <2> SUFFICES ASSUME NEW j \in k + 1 .. y PROVE n[j] = r[j + Z]
    OBVIOUS
  <2> DEFINE l == j - H
  <2>1. l \in i + 1 .. x /\ l + H = j /\ l + H + Z = j + Z
    BY <1>1
  <2>2. n[l + H] = m[l] /\ r[l + H + Z] = m[l]
    BY <1>1, <1>2, <2>1
  <2> QED
    BY <2>1, <2>2
<1>5. Len(r) = y + Z /\ r[k] = -t /\ (Z = 1 => r[k + 1] = z)
  BY <1>1
<1>6. \A j \in S : j < k
  BY <1>2, <1>r
<1>7. S \subseteq {k - 1, k}
  BY <1>2, <1>r
<1>8. \A j \in 1 .. y : n[j] \in Int
  BY <1>2
<1> HIDE DEF x, k, y
<1>9. CASE Z = 0
  <2>1. n[k] = t /\ Len(r) = Len(n)
    BY <1>1, <1>2, <1>5, <1>9
  <2>2. ASSUME NEW j \in 1 .. Len(n) PROVE r[j] = IF j = k THEN -n[k] ELSE n[j]
    <3>1. j \in 1 .. k - 1 \/ j = k \/ j \in k + 1 .. y
      BY <1>1, <1>2
    <3>2. j \in k + 1 .. y => r[j] = n[j]
      BY <1>1, <1>4, <1>9
    <3> QED
      BY <1>1, <1>3, <1>5, <2>1, <3>1, <3>2
  <2>3. k \in 1 .. Len(n)
    BY <1>1, <1>2
  <2>4. Flipped(n, r, k)
    BY <1>1, <1>2, <2>1, <2>2, <2>3 DEF Flipped
  <2> QED
    BY <1>2, <1>7, <2>1, <2>4 DEF k, TailApart
<1>10. CASE Z = 1
  <2> DEFINE q == [j \in 1 .. y + 1 |-> IF j = k THEN t ELSE r[j]]
  <2>1. q \in [1 .. y + 1 -> Int] /\ y + 1 \in Nat
    <3>1. r \in Seq(Int) /\ Len(r) = y + 1 /\ t \in Int
      BY <1>1, <1>5, <1>10
    <3>2. \A j \in 1 .. y + 1 : r[j] \in Int
      BY <3>1
    <3> QED
      BY <1>r, <3>1, <3>2
  <2>2. \A j \in 1 .. y + 1 : q[j] = IF j = k THEN t ELSE r[j]
    OBVIOUS
  <2> HIDE DEF q
  <2>3. q \in Seq(Int) /\ Len(q) = y + 1
    BY <2>1, SequenceOf
  <2>4. q[k] = t /\ q[k + 1] = z
    <3>1. k \in 1 .. y + 1 /\ k + 1 \in 1 .. y + 1 /\ k + 1 # k
      BY <1>r
    <3> QED
      BY <1>5, <1>10, <2>2, <3>1
  <2>5. Parted(n, q, k)
    <3>1. \A j \in 1 .. k - 1 : q[j] = n[j]
      <4> SUFFICES ASSUME NEW j \in 1 .. k - 1 PROVE q[j] = n[j]
        OBVIOUS
      <4>1. j \in 1 .. y + 1 /\ j # k
        BY <1>1
      <4> QED
        BY <1>3, <2>2, <4>1
    <3>2. \A j \in k + 1 .. y : q[j + 1] = n[j]
      <4> SUFFICES ASSUME NEW j \in k + 1 .. y PROVE q[j + 1] = n[j]
        OBVIOUS
      <4>1. j + 1 \in 1 .. y + 1 /\ j + 1 # k
        BY <1>1
      <4> QED
        BY <1>4, <1>10, <2>2, <4>1
    <3>3. k \in 1 .. Len(n) /\ Len(q) = Len(n) + 1
      BY <1>1, <1>2, <2>3
    <3>4. q[k] > 0 /\ q[k + 1] > 0 /\ n[k] = q[k] + q[k + 1]
      BY <1>1, <1>2, <1>10, <2>4
    <3> QED
      BY <1>2, <2>3, <3>1, <3>2, <3>3, <3>4 DEF Parted
  <2> DEFINE T == S \cup {k}
  <2>6. SoundMap(q, areas, T)
    <3>1. k >= 2
      BY <1>1
    <3> QED
      BY <1>2, <1>6, <2>5, <3>1, SplitSound
  <2>7. T \subseteq {k - 1, k}
    BY <1>7
  <2>8. FreeSum(q) = FreeSum(m) /\ Offset(q, k) = Offset(m, i) + h
    <3>1. k \in 1 .. k
      BY <1>1
    <3> QED
      BY <1>2, <2>5, <3>1, PartedOffsets
  <2>9. Flipped(q, r, k)
    <3>1. Len(r) = Len(q) /\ k \in 1 .. Len(q)
      BY <1>1, <1>5, <1>10, <2>3
    <3>2. \A j \in 1 .. Len(q) : r[j] = IF j = k THEN -q[k] ELSE q[j]
      BY <1>5, <2>2, <2>3, <2>4
    <3> QED
      BY <1>1, <2>3, <3>1, <3>2 DEF Flipped
  <2> HIDE DEF T
  <2> QED
    BY <2>4, <2>6, <2>7, <2>8, <2>9 DEF k, TailApart
<1> QED
  BY <1>1, <1>9, <1>10

LEMMA CarveSound ==
  ASSUME NEW m, NEW areas, SoundMap(m, areas, {}),
         NEW r, NEW i, NEW H, NEW Z, NEW h, NEW t, NEW z, Carved(m, r, i, H, Z, h, t, z),
         NEW a \in Areas, a.off = Offset(m, i) + h, a.size <= t
  PROVE  /\ SoundMap(r, areas \cup {a}, {})
         /\ \A b \in areas : b.off # a.off
         /\ FreeSum(r) = FreeSum(m) - t
<1> DEFINE k == i + H
<1>1. k >= 2 /\ k - 1 = i + H - 1 /\ t \in Nat /\ t > 0 /\ r \in Seq(Int) /\ m \in Seq(Int)
  BY DEF Carved
<1>2. \E n, S : TailApart(n, S, areas, r, k, FreeSum(m), Offset(m, i) + h, t)
  BY TailSplit
<1> HIDE DEF k
<1>p. PICK n, S : TailApart(n, S, areas, r, k, FreeSum(m), Offset(m, i) + h, t)
  BY <1>2
<1>3. n[k] > 0 /\ a.off = Offset(n, k) /\ a.size <= n[k]
  BY <1>1, <1>p DEF TailApart
<1>4. SoundMap(r, areas \cup {a}, {}) /\ \A b \in areas : b.off # a.off
  BY <1>1, <1>p, <1>3, TakeSound DEF TailApart
<1>5. FreeSum(r) = FreeSum(n) + Frees(-t) - Frees(t)
  BY <1>p, FlippedOffsets DEF TailApart
<1>6. Frees(-t) = 0 /\ Frees(t) = t
  BY <1>1 DEF Frees
<1>7. FreeSum(m) \in Nat
  BY <1>1, FreeSumInt
<1> QED
  BY <1>1, <1>p, <1>4, <1>5, <1>6, <1>7 DEF TailApart

LEMMA HeadAligns ==
  ASSUME NEW m, NEW i, Offset(m, i) \in Nat, NEW a \in Nat, a > 0
  PROVE  /\ HeadOf(m, i, a) \in Nat
         /\ (Offset(m, i) + HeadOf(m, i, a)) % a = 0
         /\ (Offset(m, i) = 0 => HeadOf(m, i, a) = 0)
<1> DEFINE n == Offset(m, i)
           d == HeadOf(m, i, a)
           q == (-n) \div a
<1>0. n \in Nat /\ d = (-n) % a
  BY DEF HeadOf
<1> HIDE DEF n, d
<1>1. d \in 0 .. a - 1 /\ (n = 0 => d = 0)
  BY <1>0
<1>2. q \in Int /\ -n = a * q + d
  BY <1>0
<1>3. (n + d) % a = 0
  <2> DEFINE k == -q
             s == n + d
  <2>1. k \in Int /\ s \in Int /\ s = a * k + 0
    <3> HIDE DEF q
    <3>1. n + d = -(a * q)
      BY <1>0, <1>1, <1>2
    <3>2. -(a * q) = a * (-q)
      BY <1>0, <1>2
    <3>3. a * (-q) \in Int
      BY <1>0, <1>2
    <3> QED
      BY <1>0, <1>1, <1>2, <3>1, <3>2, <3>3
  <2> HIDE DEF k, s
  <2>2. s % a = 0
    BY <2>1
  <2> QED
    BY <2>2 DEF s
<1> QED
  BY <1>1, <1>3 DEF n, d

LEMMA LargestIs ==
  ASSUME NEW S, S \subseteq Int, NEW n \in Nat, \A x \in S : x <= n
  PROVE  Largest(S) \in Nat /\ Largest(S) \in S \cup {0} /\ \A x \in S : x <= Largest(S)
<1> DEFINE T == S \cup {0}
           N == T \cap (0 .. n)
<1>1. N \subseteq 0 .. n /\ N # {}
  OBVIOUS
<1> HIDE DEF N
<1>2. Max(N) \in N /\ \A m \in N : Max(N) >= m
  BY <1>1, MaxOfNumbers
<1>3. Max(N) \in T /\ \A x \in T : Max(N) >= x
  <2> DEFINE k == Max(N)
  <2> HIDE DEF k
  <2>1. k \in N /\ k \in 0 .. n /\ \A m \in N : k >= m
    BY <1>1, <1>2 DEF k
  <2>2. ASSUME NEW x \in T PROVE k >= x
    <3>1. CASE x \in N
      BY <2>1, <3>1
    <3>2. CASE x \notin N
      <4>1. x \in Int /\ x <= n /\ x < 0
        BY <3>2 DEF N
      <4> QED
        BY <2>1, <4>1
    <3> QED
      BY <3>1, <3>2
  <2>3. k \in T
    BY <2>1 DEF N
  <2> QED
    BY <2>2, <2>3 DEF k
<1>4. Max(T) \in T /\ \A x \in T : Max(T) >= x
  BY <1>3 DEF Max
<1>5. Largest(S) = Max(T)
  BY DEF Largest
<1> HIDE DEF T
<1>6. Largest(S) \in T /\ \A x \in T : Largest(S) >= x
  BY <1>4, <1>5
<1> DEFINE l == Largest(S)
<1>7. l \in T /\ \A x \in T : l >= x
  BY <1>6
<1> HIDE DEF l
<1>8. l \in Int /\ l >= 0 /\ l \in S \cup {0} /\ \A x \in S : l >= x /\ x \in Int
  BY <1>7 DEF T
<1>9. l \in Nat /\ \A x \in S : x <= l
  BY <1>8
<1> QED
  BY <1>8, <1>9 DEF l

LEMMA Concatenated ==
  ASSUME NEW s \in Seq(Int), NEW t \in Seq(Int)
  PROVE  /\ s \o t \in Seq(Int) /\ Len(s \o t) = Len(s) + Len(t)
         /\ \A j \in 1 .. Len(s) : (s \o t)[j] = s[j]
         /\ \A j \in 1 .. Len(t) : (s \o t)[Len(s) + j] = t[j]
OBVIOUS

(* At most one block. *)
OneIf(x) == IF x > 0 THEN <<x>> ELSE <<>>

LEMMA OneIfIs ==
  ASSUME NEW x \in Nat
  PROVE  \E k \in {0, 1} : /\ OneIf(x) \in Seq(Int) /\ Len(OneIf(x)) = k
                           /\ (k = 0 => x = 0) /\ (k = 1 => x > 0)
                           /\ (k = 1 => OneIf(x)[1] = x)
<1>1. CASE x > 0
  <2>1. OneIf(x) = <<x>> /\ <<x>> \in Seq(Int) /\ Len(<<x>>) = 1 /\ <<x>>[1] = x
    BY <1>1 DEF OneIf
  <2> QED
    BY <1>1, <2>1
<1>2. CASE ~ (x > 0)
  <2>1. OneIf(x) = <<>> /\ <<>> \in Seq(Int) /\ Len(<<>>) = 0 /\ x = 0
    BY <1>2 DEF OneIf
  <2> QED
    BY <2>1
<1> QED
  BY <1>1, <1>2

Pieces(m, i, h, t, z) ==
  SubSeq(m, 1, i - 1) \o OneIf(h) \o <<-t>> \o OneIf(z) \o SubSeq(m, i + 1, Len(m))

LEMMA PiecesCarved ==
  ASSUME NEW m \in Seq(Int), NEW i \in 2 .. Len(m), NEW h \in Nat, NEW t \in Nat, NEW z \in Nat,
         t > 0, m[i] = h + t + z
  PROVE  \E H, Z : Carved(m, Pieces(m, i, h, t, z), i, H, Z, h, t, z)
<1> DEFINE x == Len(m)
           P == SubSeq(m, 1, i - 1)
           Q == SubSeq(m, i + 1, x)
           A == OneIf(h)
           C == OneIf(z)
           B == <<-t>>
<1>1. x \in Nat /\ P \in Seq(Int) /\ Len(P) = i - 1 /\ \A j \in 1 .. i - 1 : P[j] = m[j]
  OBVIOUS
<1>2. Q \in Seq(Int) /\ Len(Q) = x - i /\ \A j \in 1 .. x - i : Q[j] = m[i + j]
  OBVIOUS
<1>3. PICK H \in {0, 1} : /\ A \in Seq(Int) /\ Len(A) = H
                          /\ (H = 0 => h = 0) /\ (H = 1 => h > 0) /\ (H = 1 => A[1] = h)
  BY OneIfIs
<1>4. PICK Z \in {0, 1} : /\ C \in Seq(Int) /\ Len(C) = Z
                          /\ (Z = 0 => z = 0) /\ (Z = 1 => z > 0) /\ (Z = 1 => C[1] = z)
  BY OneIfIs
<1>5. B \in Seq(Int) /\ Len(B) = 1 /\ B[1] = -t
  OBVIOUS
<1>6. Pieces(m, i, h, t, z) = P \o A \o B \o C \o Q
  BY DEF Pieces
<1>x. i \in 2 .. x /\ m[i] = h + t + z
  OBVIOUS
<1> HIDE DEF x, P, Q, A, B, C
<1> DEFINE PA == P \o A
           PB == PA \o B
           PC == PB \o C
           R == PC \o Q
<1>7. /\ PA \in Seq(Int) /\ Len(PA) = i - 1 + H
      /\ \A j \in 1 .. i - 1 : PA[j] = m[j]
      /\ H = 1 => PA[i] = h
  <2>1. /\ PA \in Seq(Int) /\ Len(PA) = Len(P) + Len(A)
        /\ \A j \in 1 .. Len(P) : PA[j] = P[j]
        /\ \A j \in 1 .. Len(A) : PA[Len(P) + j] = A[j]
    BY <1>1, <1>3, Concatenated
  <2>2. H = 1 => PA[i] = h
    <3> SUFFICES ASSUME H = 1 PROVE PA[i] = h
      OBVIOUS
    <3>1. 1 \in 1 .. Len(A) /\ Len(P) + 1 = i
      BY <1>1, <1>3, <1>x
    <3> QED
      BY <1>3, <2>1, <3>1
  <2> QED
    BY <1>1, <1>3, <2>1, <2>2
<1> HIDE DEF PA
<1>8. /\ PB \in Seq(Int) /\ Len(PB) = i + H
      /\ \A j \in 1 .. i - 1 : PB[j] = m[j]
      /\ H = 1 => PB[i] = h
      /\ PB[i + H] = -t
  <2>1. /\ PB \in Seq(Int) /\ Len(PB) = Len(PA) + Len(B)
        /\ \A j \in 1 .. Len(PA) : PB[j] = PA[j]
        /\ \A j \in 1 .. Len(B) : PB[Len(PA) + j] = B[j]
    BY <1>5, <1>7, Concatenated
  <2>2. 1 \in 1 .. Len(B) /\ Len(PA) + 1 = i + H
    BY <1>5, <1>7, <1>x
  <2>3. \A j \in 1 .. i - 1 : j \in 1 .. Len(PA)
    BY <1>7, <1>x
  <2>4. H = 1 => i \in 1 .. Len(PA)
    BY <1>7, <1>x
  <2> QED
    BY <1>5, <1>7, <1>x, <2>1, <2>2, <2>3, <2>4
<1> HIDE DEF PB
<1>9. /\ PC \in Seq(Int) /\ Len(PC) = i + H + Z
      /\ \A j \in 1 .. i - 1 : PC[j] = m[j]
      /\ H = 1 => PC[i] = h
      /\ PC[i + H] = -t
      /\ Z = 1 => PC[i + H + 1] = z
  <2>1. /\ PC \in Seq(Int) /\ Len(PC) = Len(PB) + Len(C)
        /\ \A j \in 1 .. Len(PB) : PC[j] = PB[j]
        /\ \A j \in 1 .. Len(C) : PC[Len(PB) + j] = C[j]
    BY <1>4, <1>8, Concatenated
  <2>2. Z = 1 => 1 \in 1 .. Len(C)
    BY <1>4
  <2>3. \A j \in 1 .. i + H : j \in 1 .. Len(PB)
    BY <1>8
  <2>4. i + H \in 1 .. i + H /\ i \in 1 .. i + H /\ \A j \in 1 .. i - 1 : j \in 1 .. i + H
    BY <1>x
  <2>5. Z = 1 => PC[i + H + 1] = z
    BY <1>4, <1>8, <2>1, <2>2
  <2>6. \A j \in 1 .. i + H : PC[j] = PB[j]
    BY <2>1, <2>3
  <2>7. Len(PC) = i + H + Z
    BY <1>4, <1>8, <2>1
  <2> QED
    BY <1>8, <2>1, <2>4, <2>5, <2>6, <2>7
<1> HIDE DEF PC
<1>10. /\ R \in Seq(Int) /\ Len(R) = x + H + Z
       /\ \A j \in 1 .. i + H + Z : R[j] = PC[j]
       /\ \A j \in i + 1 .. x : R[j + H + Z] = m[j]
  <2>1. /\ R \in Seq(Int) /\ Len(R) = Len(PC) + Len(Q)
        /\ \A j \in 1 .. Len(PC) : R[j] = PC[j]
        /\ \A j \in 1 .. Len(Q) : R[Len(PC) + j] = Q[j]
    BY <1>2, <1>9, Concatenated
  <2>2. ASSUME NEW j \in i + 1 .. x PROVE R[j + H + Z] = m[j]
    <3> DEFINE l == j - i
    <3>1. l \in 1 .. x - i /\ i + l = j /\ i + H + Z + l = j + H + Z
      BY <1>1, <1>x
    <3>2. R[Len(PC) + l] = Q[l] /\ Q[l] = m[i + l]
      BY <1>2, <2>1, <3>1
    <3> QED
      BY <1>9, <3>1, <3>2
  <2>3. Len(R) = x + H + Z
    BY <1>1, <1>2, <1>9, <1>x, <2>1
  <2> QED
    BY <1>9, <2>1, <2>2, <2>3
<1>11. /\ \A j \in 1 .. i - 1 : R[j] = m[j]
       /\ H = 1 => R[i] = h
       /\ R[i + H] = -t
       /\ Z = 1 => R[i + H + 1] = z
  <2>1. /\ \A j \in 1 .. i - 1 : j \in 1 .. i + H + Z
        /\ i \in 1 .. i + H + Z /\ i + H \in 1 .. i + H + Z
        /\ Z = 1 => i + H + 1 \in 1 .. i + H + Z
    BY <1>x
  <2> QED
    BY <1>9, <1>10, <2>1
<1> HIDE DEF R
<1>12. Carved(m, R, i, H, Z, h, t, z)
  BY <1>1, <1>3, <1>4, <1>10, <1>11, <1>x DEF Carved, x
<1> QED
  BY <1>6, <1>12 DEF R, PC, PB, PA, x

Within(m, hint) == \A k \in 1 .. Len(m) : m[k] <= hint

(* An area is taken out of a map. *)
AreaTaken(got, m, areas, size, align) ==
  LET a == [off |-> got.off, size |-> size, align |-> align]
  IN /\ a \in Areas /\ got.off % align = 0
     /\ SoundMap(got.map, areas \cup {a}, {}) /\ \A b \in areas : b.off # got.off
     /\ got.free = FreeSum(got.map) /\ got.hint \in Nat /\ Within(got.map, got.hint)
     /\ Len(got.map) <= Len(m) + 2

LEMMA ExceptTwo ==
  ASSUME NEW m \in Seq(Int), NEW k \in 1 .. Len(m), NEW i \in 1 .. Len(m), k # i,
         NEW u \in Int, NEW v \in Int, NEW n, n = [m EXCEPT ![k] = u, ![i] = v]
  PROVE  /\ n \in Seq(Int) /\ Len(n) = Len(m) /\ n[k] = u /\ n[i] = v
         /\ \A j \in 1 .. Len(m) : j \notin {k, i} => n[j] = m[j]
OBVIOUS

(* The head of the block is absorbed, or stays where it is. *)
LEMMA AbsorbedIs ==
  ASSUME NEW m, NEW areas, SoundMap(m, areas, {}),
         NEW size \in IntSize .. UnitSize, NEW align \in 1 .. UnitSize,
         NEW i \in Fitting(m, size, align)
  PROVE  LET d == HeadOf(m, i, align)
             n == Absorbed(m, i, d)
         IN /\ i \in 2 .. Len(m) /\ m[i] > 0 /\ d \in Nat /\ d + size <= m[i]
            /\ (Offset(m, i) + d) % align = 0
            /\ n = m \/ (i >= 3 /\ n # m /\ m[i - 1] < 0 /\ Shifted(m, n, i, d))
<1> DEFINE d == HeadOf(m, i, align)
           n == Absorbed(m, i, d)
           x == Len(m)
<1>1. /\ m \in Seq(Int) /\ x \in Nat /\ m[1] = 0 /\ \A j \in 2 .. x : m[j] # 0
      /\ \A j \in 1 .. x - 1 : m[j] > 0 /\ m[j + 1] > 0 => FALSE
  BY DEF SoundMap, Shape, TouchOnlyAt
<1>2. /\ size \in Nat /\ size > 0 /\ align \in Nat /\ align > 0
  BY PercpuConstants
<1>3. i \in 1 .. x /\ m[i] >= d + size /\ m[i] \in Int
  BY <1>1 DEF Fitting
<1>4. Offset(m, i) \in Nat
  <2>1. i \in 1 .. x + 1
    BY <1>1, <1>3
  <2> QED
    BY <1>1, <2>1, OffsetSteps
<1>5. d \in Nat /\ (Offset(m, i) + d) % align = 0 /\ (Offset(m, i) = 0 => d = 0)
  BY <1>2, <1>4, HeadAligns
<1> HIDE DEF d
<1>6. i # 1 /\ m[i] > 0 /\ d + size <= m[i]
  BY <1>1, <1>2, <1>3, <1>5
<1>7. i \in 2 .. x
  BY <1>3, <1>6
<1>8. d > 0 => i >= 3
  <2>1. Offset(m, 2) = 0
    BY OffsetsApart DEF SoundMap
  <2>2. d > 0 => i # 2
    BY <1>5, <2>1
  <2> QED
    BY <1>7, <2>2
<1>9. i >= 3 => m[i - 1] < 0
  <2> SUFFICES ASSUME i >= 3 PROVE m[i - 1] < 0
    OBVIOUS
  <2> DEFINE k == i - 1
  <2>1. k \in 2 .. x /\ k \in 1 .. x - 1 /\ k + 1 = i
    BY <1>7
  <2> HIDE DEF k
  <2>2. m[k] # 0 /\ m[k] \in Int
    BY <1>1, <2>1
  <2>3. ~ (m[k] > 0)
    BY <1>1, <1>6, <2>1
  <2> QED
    BY <2>2, <2>3 DEF k
<1>10. n = m \/ (i >= 3 /\ n # m /\ m[i - 1] < 0 /\ Shifted(m, n, i, d))
  <2>1. CASE ~ (d > 0 /\ (d < IntSize \/ m[i - 1] > 0))
    BY <2>1 DEF Absorbed
  <2>2. CASE d > 0 /\ (d < IntSize \/ m[i - 1] > 0)
    <3>1. i >= 3 /\ m[i - 1] < 0 /\ i - 1 \in 1 .. x /\ i \in 1 .. x /\ i - 1 # i /\ m[i - 1] \in Int
      BY <1>1, <1>7, <1>8, <1>9, <2>2
    <3>2. ~ (m[i - 1] > 0)
      BY <3>1
    <3>3. n = [m EXCEPT ![i - 1] = m[i - 1] - d, ![i] = m[i] - d]
      BY <2>2, <3>1, <3>2 DEF Absorbed
    <3> HIDE DEF n
    <3>4. /\ n \in Seq(Int) /\ Len(n) = x /\ n[i - 1] = m[i - 1] - d /\ n[i] = m[i] - d
          /\ \A j \in 1 .. x : j \notin {i - 1, i} => n[j] = m[j]
      <4>1. m[i - 1] - d \in Int /\ m[i] - d \in Int
        BY <1>3, <1>5, <3>1
      <4> QED
        BY <1>1, <3>1, <3>3, <4>1, ExceptTwo, SMTT(30)
    <3>5. d < m[i]
      BY <1>2, <1>3, <1>5, <1>6
    <3>6. Shifted(m, n, i, d)
      BY <1>1, <1>5, <1>7, <3>1, <3>4, <3>5 DEF Shifted
    <3>7. n # m
      BY <1>3, <1>5, <2>2, <3>4
    <3> QED
      BY <3>1, <3>6, <3>7
  <2> QED
    BY <2>1, <2>2
<1> QED
  BY <1>5, <1>6, <1>7, <1>10 DEF d

(* What pcpu_alloc_area returns for block i. *)
LEMMA AreaSound ==
  ASSUME NEW m, NEW areas, SoundMap(m, areas, {}),
         NEW hint \in Nat, Within(m, hint),
         NEW size \in IntSize .. UnitSize, NEW align \in 1 .. UnitSize,
         NEW i \in Fitting(m, size, align)
  PROVE  AreaTaken(AreaIn(m, FreeSum(m), hint, size, align, i), m, areas, size, align)
<1> DEFINE x == Len(m)
           d == HeadOf(m, i, align)
           n == Absorbed(m, i, d)
           h == IF n # m THEN 0 ELSE d
           rest == n[i] - h - size
           z == IF rest < IntSize THEN 0 ELSE rest
           t == n[i] - h - z
           lacks == IF n # m /\ m[i - 1] <= 0 THEN d ELSE 0
           seen == Largest({m[j] : j \in 1 .. i - 1} \cup {h, z})
           got == AreaIn(m, FreeSum(m), hint, size, align, i)
           a == [off |-> got.off, size |-> size, align |-> align]
<1>1. /\ i \in 2 .. x /\ m[i] > 0 /\ d \in Nat /\ d + size <= m[i]
      /\ (Offset(m, i) + d) % align = 0
      /\ n = m \/ (i >= 3 /\ n # m /\ m[i - 1] < 0 /\ Shifted(m, n, i, d))
  BY AbsorbedIs
<1>2. /\ got.map = Pieces(n, i, h, t, z)
      /\ got.free = FreeSum(m) - lacks - t
      /\ got.hint = IF i = x THEN seen ELSE Max({hint, seen})
      /\ got.off = Offset(m, i) + d
  BY DEF AreaIn, Pieces, OneIf
<1>3. /\ h = IF n # m THEN 0 ELSE d
      /\ rest = n[i] - h - size
      /\ z = IF rest < IntSize THEN 0 ELSE rest
      /\ t = n[i] - h - z
      /\ lacks = IF n # m /\ m[i - 1] <= 0 THEN d ELSE 0
      /\ seen = Largest({m[j] : j \in 1 .. i - 1} \cup {h, z})
      /\ a = [off |-> got.off, size |-> size, align |-> align]
      /\ x = Len(m)
  OBVIOUS
<1>4. /\ m \in Seq(Int) /\ x \in Nat /\ \A j \in 1 .. x : m[j] \in Int
      /\ areas \subseteq Areas /\ Shape(m)
      /\ size \in Nat /\ size > 0 /\ size >= IntSize /\ IntSize \in Nat /\ IntSize > 0
  BY PercpuConstants DEF SoundMap, Shape
<1> HIDE DEF x, d, n, h, rest, z, t, lacks, seen, got, a
<1>5. i \in 1 .. x /\ i \in 1 .. x + 1
  BY <1>1, <1>4
<1>6. Offset(m, i) \in 0 .. UnitSize /\ m[i] <= UnitSize - Offset(m, i)
  BY <1>3, <1>4, <1>5, OffsetsApart
(* The map the pieces are cut from. *)
<1>7. /\ SoundMap(n, areas, {}) /\ n \in Seq(Int) /\ Len(n) = x
      /\ n[i] - h = m[i] - d /\ h \in Nat /\ h <= d
      /\ Offset(n, i) + h = Offset(m, i) + d
      /\ FreeSum(n) = FreeSum(m) - lacks
      /\ \A j \in 1 .. x : j # i => n[j] <= m[j]
      /\ \A j \in i + 1 .. x : n[j] = m[j]
  <2>1. CASE n = m
    <3>1. h = d /\ lacks = 0
      BY <1>3, <2>1
    <3>2. FreeSum(m) \in Nat
      BY <1>4, FreeSumInt
    <3>3. FreeSum(n) = FreeSum(m) - lacks
      BY <2>1, <3>1, <3>2
    <3>4. n[i] - h = m[i] - d /\ Offset(n, i) + h = Offset(m, i) + d /\ h \in Nat /\ h <= d
      BY <1>1, <2>1, <3>1
    <3>5. (\A j \in 1 .. x : j # i => n[j] <= m[j]) /\ (\A j \in i + 1 .. x : n[j] = m[j])
      BY <1>4, <2>1
    <3>6. SoundMap(n, areas, {}) /\ n \in Seq(Int) /\ Len(n) = x
      BY <1>3, <1>4, <2>1
    <3> QED
      BY <3>3, <3>4, <3>5, <3>6
  <2>2. CASE n # m
    <3>1. Shifted(m, n, i, d) /\ i >= 3 /\ m[i - 1] < 0
      BY <1>1, <2>2
    <3>2. h = 0 /\ lacks = d
      <4>1. i - 1 \in 1 .. x
        BY <1>1, <1>4
      <4>2. m[i - 1] \in Int /\ m[i - 1] <= 0
        BY <1>4, <3>1, <4>1
      <4> QED
        BY <1>3, <2>2, <4>2
    <3>3. SoundMap(n, areas, {})
      BY <3>1, AbsorbSound
    <3>4. Offset(n, i) = Offset(m, i) + d /\ FreeSum(n) = FreeSum(m) - d
      BY <3>1, ShiftedOffsets
    <3>5. /\ n \in Seq(Int) /\ Len(n) = x /\ n[i] = m[i] - d /\ n[i - 1] = m[i - 1] - d
          /\ \A j \in 1 .. x : j \notin {i - 1, i} => n[j] = m[j]
      BY <1>3, <3>1 DEF Shifted
    <3>6. \A j \in 1 .. x : j # i => n[j] <= m[j]
      <4> SUFFICES ASSUME NEW j \in 1 .. x, j # i PROVE n[j] <= m[j]
        OBVIOUS
      <4>1. m[j] \in Int /\ (j = i - 1 \/ n[j] = m[j])
        BY <1>4, <3>5
      <4> QED
        BY <1>1, <3>5, <4>1, SMTT(30)
    <3>7. \A j \in i + 1 .. x : n[j] = m[j]
      BY <1>5, <3>5
    <3>8. n[i] - h = m[i] - d /\ h \in Nat /\ h <= d
      BY <1>1, <1>4, <1>5, <3>2, <3>5, SMTT(30)
    <3>9. Offset(n, i) + h = Offset(m, i) + d
      BY <1>1, <1>6, <3>2, <3>4
    <3> QED
      BY <3>2, <3>3, <3>4, <3>5, <3>6, <3>7, <3>8, <3>9
  <2> QED
    BY <2>1, <2>2
<1>8. /\ n[i] \in Int /\ m[i] \in Int /\ z \in Nat /\ t \in Nat /\ t >= size /\ t > 0
      /\ n[i] = h + t + z /\ z <= m[i] /\ h <= m[i]
  <2>1. n[i] \in Int /\ m[i] \in Int /\ size \in Int
    BY <1>4, <1>5, <1>7
  <2> DEFINE ni == n[i]
             mi == m[i]
  <2>2. /\ ni \in Int /\ mi \in Int /\ size \in Nat /\ size > 0 /\ d \in Nat /\ h \in Nat /\ h <= d
        /\ ni - h = mi - d /\ d + size <= mi
    BY <1>1, <1>4, <1>7, <2>1
  <2>3. rest = ni - h - size /\ t = ni - h - z /\ z = IF rest < IntSize THEN 0 ELSE rest
    BY <1>3
  <2> HIDE DEF ni, mi
  <2>4. rest = mi - d - size /\ rest \in Nat
    BY <2>2, <2>3
  <2>5. z \in Nat /\ z <= rest
    BY <2>3, <2>4
  <2>6. t = mi - d - z
    BY <2>2, <2>3, <2>5
  <2>7. /\ t \in Nat /\ t >= size /\ t > 0 /\ ni = h + t + z /\ z <= mi /\ h <= mi
    BY <2>2, <2>4, <2>5, <2>6
  <2> QED
    BY <2>2, <2>5, <2>7 DEF ni, mi
<1>9. PICK H, Z : Carved(n, got.map, i, H, Z, h, t, z)
  <2>1. i \in 2 .. Len(n)
    BY <1>1, <1>7
  <2>2. \E H, Z : Carved(n, Pieces(n, i, h, t, z), i, H, Z, h, t, z)
    BY <1>7, <1>8, <2>1, PiecesCarved
  <2> QED
    BY <1>2, <2>2
<1>10. /\ H \in {0, 1} /\ Z \in {0, 1} /\ got.map \in Seq(Int) /\ Len(got.map) = x + H + Z
       /\ \A j \in 1 .. i - 1 : got.map[j] = n[j]
       /\ (H = 1 => got.map[i] = h) /\ got.map[i + H] = -t /\ (Z = 1 => got.map[i + H + 1] = z)
       /\ \A j \in i + 1 .. x : got.map[j + H + Z] = n[j]
  BY <1>7, <1>9 DEF Carved
<1>11. a \in Areas /\ a.off = Offset(n, i) + h /\ a.size <= t /\ a.off = got.off
  <2>1. got.off = Offset(m, i) + d /\ got.off = Offset(n, i) + h /\ size <= t
    BY <1>2, <1>7, <1>8
  <2>2. got.off \in 0 .. UnitSize
    <3> DEFINE o == Offset(m, i)
    <3>1. /\ o \in 0 .. UnitSize /\ m[i] <= UnitSize - o /\ got.off = o + d
          /\ d \in Nat /\ size \in Nat /\ d + size <= m[i] /\ m[i] \in Int /\ UnitSize \in Nat
      BY <1>1, <1>4, <1>6, <1>8, <2>1, PercpuConstants
    <3> HIDE DEF o
    <3> QED
      BY <3>1
  <2>3. a \in Areas
    BY <1>3, <2>2 DEF Areas
  <2> QED
    BY <1>3, <2>1, <2>3
<1>12. /\ SoundMap(got.map, areas \cup {a}, {})
       /\ \A b \in areas : b.off # got.off
       /\ FreeSum(got.map) = FreeSum(n) - t
  <2> DEFINE r == got.map
  <2>1. SoundMap(n, areas, {}) /\ Carved(n, r, i, H, Z, h, t, z)
    BY <1>7, <1>9
  <2> HIDE DEF r
  <2>2. /\ SoundMap(r, areas \cup {a}, {})
        /\ \A b \in areas : b.off # a.off
        /\ FreeSum(r) = FreeSum(n) - t
    BY <1>11, <2>1, CarveSound
  <2> QED
    BY <1>11, <2>2 DEF r
<1>13. got.free = FreeSum(got.map)
  BY <1>2, <1>7, <1>12
<1>14. seen \in Nat /\ h <= seen /\ z <= seen /\ \A j \in 1 .. i - 1 : m[j] <= seen
  <2> DEFINE T == {m[j] : j \in 1 .. i - 1} \cup {h, z}
             f == FreeSum(m)
  <2>1. f \in Nat /\ \A j \in 1 .. x : m[j] <= f
    BY <1>3, <1>4, FreeSumInt
  <2> HIDE DEF f
  <2>2. h <= f /\ z <= f
    BY <1>5, <1>7, <1>8, <2>1
  <2>3. T \subseteq Int /\ \A y \in T : y <= f
    <3>1. \A j \in 1 .. i - 1 : j \in 1 .. x
      BY <1>4, <1>5
    <3>2. \A j \in 1 .. i - 1 : m[j] \in Int /\ m[j] <= f
      BY <1>4, <2>1, <3>1
    <3>3. h \in Int /\ z \in Int
      BY <1>7, <1>8
    <3> QED
      BY <2>2, <3>2, <3>3
  <2>4. h \in T /\ z \in T /\ \A j \in 1 .. i - 1 : m[j] \in T
    OBVIOUS
  <2> HIDE DEF T
  <2>5. Largest(T) \in Nat /\ \A y \in T : y <= Largest(T)
    BY <2>1, <2>3, LargestIs
  <2>6. seen = Largest(T)
    BY <1>3 DEF T
  <2> QED
    BY <2>4, <2>5, <2>6
<1>15. got.hint \in Nat /\ got.hint >= seen /\ (i # x => got.hint >= hint)
  <2>1. Max({hint, seen}) = IF hint >= seen THEN hint ELSE seen
    BY <1>14, MaxOfTwo
  <2> QED
    BY <1>2, <1>14, <2>1
<1>16. Within(got.map, got.hint)
  <2> SUFFICES ASSUME NEW k \in 1 .. Len(got.map) PROVE got.map[k] <= got.hint
    BY DEF Within
  <2>1. CASE k \in 1 .. i - 1
    <3>1. got.map[k] = n[k] /\ k \in 1 .. x /\ k # i
      BY <1>4, <1>5, <1>10, <2>1
    <3>2. n[k] <= m[k] /\ m[k] <= seen /\ n[k] \in Int /\ m[k] \in Int
      BY <1>4, <1>7, <1>14, <2>1, <3>1, SMTT(30)
    <3> QED
      BY <1>14, <1>15, <3>1, <3>2
  <2>2. CASE k \in i + H + Z + 1 .. x + H + Z
    <3> DEFINE j == k - H - Z
    <3>1. j \in i + 1 .. x /\ j + H + Z = k /\ j \in 1 .. x /\ i # x
      BY <1>4, <1>5, <1>10, <2>2
    <3>2. got.map[j + H + Z] = n[j]
      BY <1>10, <3>1
    <3>3. got.map[k] = m[j]
      BY <1>7, <3>1, <3>2
    <3>4. m[j] <= hint /\ m[j] \in Int
      BY <1>3, <1>4, <3>1 DEF Within
    <3> QED
      BY <1>15, <3>1, <3>3, <3>4
  <2>3. CASE k \in i .. i + H + Z
    <3>1. k = i + H \/ (H = 1 /\ k = i) \/ (Z = 1 /\ k = i + H + 1)
      BY <1>5, <1>10, <2>3
    <3>2. got.map[k] = -t \/ got.map[k] = h \/ got.map[k] = z
      BY <1>10, <3>1
    <3>3. -t <= seen /\ h <= seen /\ z <= seen /\ h \in Int /\ z \in Int /\ -t \in Int
      BY <1>7, <1>8, <1>14
    <3>4. seen <= got.hint /\ seen \in Int /\ got.hint \in Int
      BY <1>14, <1>15
    <3> QED
      BY <3>2, <3>3, <3>4
  <2> QED
    BY <1>5, <1>10, <2>1, <2>2, <2>3
<1>17. Len(got.map) <= Len(m) + 2
  <2>1. Len(got.map) = x + H + Z /\ H \in {0, 1} /\ Z \in {0, 1}
    BY <1>10
  <2> QED
    BY <1>3, <1>4, <2>1
<1>18. got.off % align = 0
  BY <1>1, <1>2
<1>19. AreaTaken(got, m, areas, size, align)
  BY <1>3, <1>11, <1>12, <1>13, <1>15, <1>16, <1>17, <1>18 DEF AreaTaken
<1> QED
  BY <1>19 DEF got

(* The block an area starts at: by its offset, and for offset zero the empty
   static area.                                                            *)
LEMMA BlockAtIs ==
  ASSUME NEW m, Shape(m), NEW i \in 2 .. Len(m), NEW off, off = Offset(m, i)
  PROVE  BlockAt(m, off) = (IF off = 0 THEN 1 ELSE i) /\ (off # 0 => i >= 3)
<1> DEFINE x == Len(m)
           S == {j \in DOMAIN m : Offset(m, j) = off}
<1>1. m \in Seq(Int) /\ x \in Nat /\ x >= 2 /\ DOMAIN m = 1 .. x /\ Offset(m, 1) = 0 /\ i \in 2 .. x
  BY OffsetSteps DEF Shape
<1>2. S \subseteq 1 .. x /\ S \subseteq Nat /\ i \in S
  BY <1>1
<1>3. \A j \in S : off = Offset(m, j) /\ j \in 1 .. x
  BY <1>2
<1>4. off = 0 => 1 \in S
  BY <1>1
<1>5. BlockAt(m, off) = Min(S)
  BY DEF BlockAt
<1> HIDE DEF S
<1>6. Min(S) \in S /\ \A j \in S : Min(S) <= j
  BY <1>2, MinOfNumbers
<1>7. Min(S) \in 1 .. x
  BY <1>2, <1>6
<1>8. CASE off = 0
  <2>1. Min(S) <= 1
    BY <1>4, <1>6, <1>8
  <2> QED
    BY <1>5, <1>7, <1>8, <2>1
<1>9. CASE off # 0
  <2>1. Min(S) # 1
    BY <1>1, <1>3, <1>6, <1>9
  <2>2. Min(S) \in 2 .. Len(m) + 1 /\ i \in 2 .. Len(m) + 1
    BY <1>1, <1>7, <2>1
  <2>3. Offset(m, Min(S)) = Offset(m, i)
    BY <1>3, <1>6
  <2>4. Min(S) = i
    BY <2>2, <2>3, OffsetInjective
  <2>5. i # 2
    BY <1>9, OffsetsApart
  <2> QED
    BY <1>1, <1>5, <1>9, <2>4, <2>5
<1> QED
  BY <1>8, <1>9

LEMMA ExceptIs ==
  ASSUME NEW n \in Seq(Int), NEW k \in 1 .. Len(n), NEW v \in Int, NEW e, e = [n EXCEPT ![k] = v]
  PROVE  /\ e \in Seq(Int) /\ Len(e) = Len(n) /\ e[k] = v
         /\ \A j \in 1 .. Len(n) : j # k => e[j] = n[j]
OBVIOUS

LEMMA PartIs ==
  ASSUME NEW n \in Seq(Int), NEW a \in 1 .. Len(n) + 1, NEW b \in a - 1 .. Len(n)
  PROVE  /\ SubSeq(n, a, b) \in Seq(Int) /\ Len(SubSeq(n, a, b)) = b - a + 1
         /\ \A j \in 1 .. b - a + 1 : SubSeq(n, a, b)[j] = n[a - 1 + j]
OBVIOUS

(* Blocks k and k + 1 as one. *)
LEMMA JoinedIs ==
  ASSUME NEW n \in Seq(Int), NEW k \in 1 .. Len(n) - 1, n[k] > 0, n[k + 1] > 0,
         NEW P \in Seq(Int), Len(P) = k, \A j \in 1 .. k - 1 : P[j] = n[j], P[k] = n[k] + n[k + 1],
         NEW Q \in Seq(Int), Len(Q) = Len(n) - 1 - k, \A j \in 1 .. Len(Q) : Q[j] = n[k + 1 + j]
  PROVE  Parted(P \o Q, n, k)
<1> DEFINE R == P \o Q
           x == Len(n)
<1>1. /\ R \in Seq(Int) /\ Len(R) = Len(P) + Len(Q)
      /\ \A j \in 1 .. Len(P) : R[j] = P[j]
      /\ \A j \in 1 .. Len(Q) : R[Len(P) + j] = Q[j]
  BY Concatenated
<1>2. x \in Nat /\ k \in 1 .. x - 1
  OBVIOUS
<1> HIDE DEF R, x
<1>3. Len(R) = x - 1 /\ k \in 1 .. Len(R) /\ x = Len(R) + 1
  BY <1>1, <1>2 DEF x
<1>4. \A j \in 1 .. k - 1 : n[j] = R[j]
  <2> SUFFICES ASSUME NEW j \in 1 .. k - 1 PROVE n[j] = R[j]
    OBVIOUS
  <2>1. j \in 1 .. Len(P)
    BY <1>2
  <2> QED
    BY <1>1, <2>1
<1>5. \A j \in k + 1 .. Len(R) : n[j + 1] = R[j]
  <2> SUFFICES ASSUME NEW j \in k + 1 .. Len(R) PROVE n[j + 1] = R[j]
    OBVIOUS
  <2> DEFINE l == j - k
  <2>1. l \in 1 .. Len(Q) /\ Len(P) + l = j /\ k + 1 + l = j + 1
    BY <1>2, <1>3 DEF x
  <2> HIDE DEF l
  <2> QED
    BY <1>1, <2>1
<1>6. R[k] = n[k] + n[k + 1]
  <2>1. k \in 1 .. Len(P)
    BY <1>2
  <2> QED
    BY <1>1, <2>1
<1> QED
  BY <1>1, <1>3, <1>4, <1>5, <1>6 DEF Parted, R, x

(* No block but one is larger than the hint. *)
WithinBut(m, i, hint) == \A k \in 1 .. Len(m) : k # i => m[k] <= hint

(* What is left to put right after a block was freed and merged. *)
Freed(m, at, areas, S, hint, sum, len) ==
  /\ SoundMap(m, areas, S) /\ at \in 2 .. Len(m) /\ m[at] > 0 /\ FreeSum(m) = sum
  /\ WithinBut(m, at, hint) /\ Len(m) <= len

LEMMA JoinKeeps ==
  ASSUME NEW n, NEW at, NEW areas, NEW S, NEW hint, NEW sum, NEW len,
         Freed(n, at, areas, S, hint, sum, len), len \in Nat,
         NEW m, NEW k \in Nat, Parted(m, n, k), k >= 2, at \in {k, k + 1}, S \subseteq {k, k + 1},
         NEW T, k + 1 \in S => k \in T
  PROVE  Freed(m, k, areas, T, hint, sum, len)
<1>1. SoundMap(m, areas, T)
  BY JoinSound DEF Freed
<1>2. /\ m \in Seq(Int) /\ n \in Seq(Int) /\ k \in 2 .. Len(m) /\ Len(n) = Len(m) + 1
      /\ \A j \in 1 .. k - 1 : n[j] = m[j]
      /\ \A j \in k + 1 .. Len(m) : n[j + 1] = m[j]
      /\ m[k] > 0
  BY DEF Parted
<1>3. FreeSum(m) = sum
  BY PartedOffsets DEF Freed
<1>4. WithinBut(m, k, hint)
  <2> SUFFICES ASSUME NEW j \in 1 .. Len(m), j # k PROVE m[j] <= hint
    BY DEF WithinBut
  <2>1. CASE j < k
    <3>1. j \in 1 .. k - 1 /\ j \in 1 .. Len(n) /\ j # at
      BY <1>2, <2>1
    <3> QED
      BY <1>2, <3>1 DEF Freed, WithinBut
  <2>2. CASE j > k
    <3>1. j \in k + 1 .. Len(m) /\ j + 1 \in 1 .. Len(n) /\ j + 1 # at
      BY <1>2, <2>2
    <3> QED
      BY <1>2, <3>1 DEF Freed, WithinBut
  <2> QED
    BY <1>2, <2>1, <2>2
<1>5. Len(n) <= len
  BY DEF Freed
<1>6. Len(m) <= len
  BY <1>2, <1>5
<1> QED
  BY <1>1, <1>2, <1>3, <1>4, <1>6 DEF Freed

(* A place where no two free blocks touch needs no merging. *)
LEMMA ApartKeeps ==
  ASSUME NEW m, NEW at, NEW areas, NEW S, NEW hint, NEW sum, NEW len,
         Freed(m, at, areas, S, hint, sum, len),
         NEW T, \A j \in S : j \in 1 .. Len(m) - 1 /\ m[j] > 0 /\ m[j + 1] > 0 => j \in T
  PROVE  Freed(m, at, areas, T, hint, sum, len)
<1>1. TouchOnlyAt(m, T)
  BY DEF Freed, SoundMap, TouchOnlyAt
<1> QED
  BY <1>1 DEF Freed, SoundMap

LEMMA PrevMerged ==
  ASSUME NEW n, NEW i, NEW areas, NEW hint, NEW sum, NEW len \in Nat,
         Freed(n, i, areas, {i - 1, i}, hint, sum, len), i >= 3
  PROVE  Freed(MergePrev(n, i).map, MergePrev(n, i).at, areas, {MergePrev(n, i).at}, hint, sum, len)
<1> DEFINE x == Len(n)
           k == i - 1
           p == MergePrev(n, i)
<1>1. n \in Seq(Int) /\ x \in Nat /\ i \in 3 .. x /\ n[i] > 0 /\ n[i] \in Int
  BY DEF Freed, SoundMap, Shape
<1>2. k \in 2 .. x - 1 /\ k + 1 = i /\ i > 1
  BY <1>1
<1>3. n[k] # 0 /\ n[k] \in Int
  BY <1>1, <1>2 DEF Freed, SoundMap, Shape
<1>4. p = IF i > 1 /\ n[k] >= 0
          THEN [map |-> RemoveAt([n EXCEPT ![k] = n[k] + n[i]], i), at |-> k]
          ELSE [map |-> n, at |-> i]
  BY DEF MergePrev
<1> HIDE DEF k, p
<1>5. CASE n[k] > 0
  <2> DEFINE e == [n EXCEPT ![k] = n[k] + n[i]]
             P == SubSeq(e, 1, k)
             Q == SubSeq(e, i + 1, Len(e))
  <2>1. e \in Seq(Int) /\ Len(e) = x /\ e[k] = n[k] + n[i] /\ \A j \in 1 .. x : j # k => e[j] = n[j]
    <3>1. k \in 1 .. Len(n) /\ n[k] + n[i] \in Int
      BY <1>1, <1>2, <1>3
    <3> HIDE DEF e
    <3>2. e = [n EXCEPT ![k] = n[k] + n[i]]
      BY DEF e
    <3> QED
      BY <1>1, <3>1, <3>2, ExceptIs
  <2>2. p.at = k /\ p.map = RemoveAt(e, i)
    BY <1>2, <1>3, <1>4, <1>5
  <2> HIDE DEF e
  <2>3. p.map = SubSeq(e, 1, i - 1) \o SubSeq(e, i + 1, Len(e))
    BY <2>2 DEF RemoveAt
  <2>4. p.map = P \o Q
    BY <1>2, <2>3 DEF k
  <2>5. P \in Seq(Int) /\ Len(P) = k /\ \A j \in 1 .. k : P[j] = e[j]
    <3>1. 1 \in 1 .. Len(e) + 1 /\ k \in 1 - 1 .. Len(e) /\ k - 1 + 1 = k
      BY <1>1, <1>2, <2>1
    <3>2. \A j \in 1 .. k : 1 - 1 + j = j
      BY <1>2
    <3> QED
      BY <2>1, <3>1, <3>2, PartIs
  <2>6. Q \in Seq(Int) /\ Len(Q) = x - i /\ \A j \in 1 .. x - i : Q[j] = e[i + j]
    <3> DEFINE b == i + 1
    <3>1. b \in 1 .. Len(e) + 1 /\ x \in b - 1 .. Len(e) /\ x - b + 1 = x - i /\ b - 1 = i
      BY <1>1, <1>2, <2>1
    <3>2. Q = SubSeq(e, b, x)
      BY <2>1
    <3> HIDE DEF Q, b
    <3> QED
      BY <2>1, <3>1, <3>2, PartIs
  <2> HIDE DEF P, Q
  <2>7. \A j \in 1 .. k - 1 : P[j] = n[j]
    <3> SUFFICES ASSUME NEW j \in 1 .. k - 1 PROVE P[j] = n[j]
      OBVIOUS
    <3>1. j \in 1 .. k /\ j \in 1 .. x /\ j # k
      BY <1>1, <1>2
    <3> QED
      BY <2>1, <2>5, <3>1
  <2>8. P[k] = n[k] + n[k + 1]
    <3>1. k \in 1 .. k
      BY <1>2
    <3> QED
      BY <1>2, <2>1, <2>5, <3>1
  <2>9. \A j \in 1 .. Len(Q) : Q[j] = n[k + 1 + j]
    <3> SUFFICES ASSUME NEW j \in 1 .. x - i PROVE Q[j] = n[i + j]
      BY <1>2, <2>6
    <3>1. i + j \in 1 .. x /\ i + j # k
      BY <1>1, <1>2
    <3> QED
      BY <2>1, <2>6, <3>1
  <2>10. k \in 1 .. Len(n) - 1 /\ n[k] > 0 /\ n[k + 1] > 0 /\ Len(Q) = Len(n) - 1 - k
    <3>1. x - i = x - 1 - k
      BY <1>1, <1>2
    <3> QED
      BY <1>1, <1>2, <1>5, <2>6, <3>1
  <2> HIDE DEF x
  <2>11. Parted(P \o Q, n, k)
    BY <1>1, <2>5, <2>6, <2>7, <2>8, <2>9, <2>10, JoinedIs
  <2>12. Freed(n, k + 1, areas, {k, k + 1}, hint, sum, len)
    BY <1>2 DEF k
  <2>13. k \in Nat /\ k >= 2
    BY <1>1, <1>2
  <2>14. Freed(P \o Q, k, areas, {k}, hint, sum, len)
    BY <2>11, <2>12, <2>13, JoinKeeps
  <2> QED
    BY <2>2, <2>4, <2>14 DEF p
<1>6. CASE ~ (n[k] > 0)
  <2>1. p.at = i /\ p.map = n
    BY <1>3, <1>4, <1>6
  <2>2. Freed(n, i, areas, {k, i}, hint, sum, len)
    BY DEF k
  <2>3. Freed(n, i, areas, {i}, hint, sum, len)
    BY <1>6, <2>2, ApartKeeps
  <2> QED
    BY <2>1, <2>3 DEF p
<1> QED
  BY <1>5, <1>6

LEMMA NextMerged ==
  ASSUME NEW n, NEW i, NEW areas, NEW hint, NEW sum, NEW len \in Nat,
         Freed(n, i, areas, {i}, hint, sum, len), MergedWell(n, i)
  PROVE  Freed(MergeNext(n, i), i, areas, {}, hint, sum, len)
<1> DEFINE x == Len(n)
           k == i + 1
           r == MergeNext(n, i)
<1>1. n \in Seq(Int) /\ x \in Nat /\ i \in 2 .. x /\ n[i] > 0 /\ n[i] \in Int
  BY DEF Freed, SoundMap, Shape
<1>2. k \in Nat /\ k = i + 1 /\ (i < x <=> k \in 2 .. x)
  BY <1>1
<1>3. k \in 2 .. x => n[k] # 0 /\ n[k] \in Int
  BY <1>1 DEF Freed, SoundMap, Shape
<1>4. r = IF i < x /\ n[k] >= 0
          THEN SubSeq([n EXCEPT ![i] = n[i] + n[k]], 1, i) \o SubSeq(n, 4, 3 + (x - 1 - i))
          ELSE n
  BY DEF MergeNext
<1> HIDE DEF k, r
<1>5. CASE i < x /\ n[k] > 0
  <2> DEFINE e == [n EXCEPT ![i] = n[i] + n[k]]
             P == SubSeq(e, 1, i)
             W == SubSeq(n, 4, 3 + (x - 1 - i))
             Q == SubSeq(n, i + 2, x)
  <2>1. e \in Seq(Int) /\ Len(e) = x /\ e[i] = n[i] + n[k] /\ \A j \in 1 .. x : j # i => e[j] = n[j]
    <3>1. i \in 1 .. Len(n) /\ n[i] + n[k] \in Int
      BY <1>1, <1>2, <1>3, <1>5
    <3> HIDE DEF e
    <3>2. e = [n EXCEPT ![i] = n[i] + n[k]]
      BY DEF e
    <3> QED
      BY <1>1, <3>1, <3>2, ExceptIs
  <2>2. r = P \o W
    <3>1. n[k] >= 0
      BY <1>1, <1>2, <1>3, <1>5
    <3> QED
      BY <1>4, <1>5, <3>1
  <2> HIDE DEF e
  <2>3. P \in Seq(Int) /\ Len(P) = i /\ \A j \in 1 .. i : P[j] = e[j]
    <3>1. 1 \in 1 .. Len(e) + 1 /\ i \in 1 - 1 .. Len(e) /\ i - 1 + 1 = i
      BY <1>1, <2>1
    <3>2. \A j \in 1 .. i : 1 - 1 + j = j
      BY <1>1
    <3> QED
      BY <2>1, <3>1, <3>2, PartIs
  <2>4. W \in Seq(Int) /\ Len(W) = x - 1 - i
    <3> DEFINE b == 3 + (x - 1 - i)
    <3>1. b \in 4 - 1 .. Len(n) /\ b - 4 + 1 = x - 1 - i /\ 4 \in 1 .. Len(n) + 1
      BY <1>1, <1>5
    <3>2. W = SubSeq(n, 4, b)
      OBVIOUS
    <3> HIDE DEF W, b
    <3> QED
      BY <1>1, <3>1, <3>2, PartIs
  <2>5. Q \in Seq(Int) /\ Len(Q) = x - 1 - i /\ \A j \in 1 .. x - 1 - i : Q[j] = n[i + 1 + j]
    <3> DEFINE b == i + 2
    <3>1. b \in 1 .. Len(n) + 1 /\ x \in b - 1 .. Len(n) /\ x - b + 1 = x - 1 - i /\ b - 1 = i + 1
      BY <1>1, <1>5
    <3>2. Q = SubSeq(n, b, x)
      OBVIOUS
    <3> HIDE DEF Q, b, x
    <3>3. /\ Q \in Seq(Int) /\ Len(Q) = x - b + 1
          /\ \A j \in 1 .. x - b + 1 : Q[j] = n[b - 1 + j]
      BY <1>1, <3>1, <3>2, PartIs
    <3> QED
      BY <3>1, <3>3
  <2>6. W = Q
    <3>1. 3 + (x - 1 - i) = x + 2 - i
      BY <1>1
    <3>2. r = n \/ W = Q
      BY <3>1 DEF MergedWell, r
    <3> HIDE DEF W, P, Q
    <3>3. Len(r) = Len(P) + Len(W)
      BY <2>2, <2>3, <2>4, Concatenated
    <3>4. Len(r) # x
      BY <1>1, <2>3, <2>4, <3>3
    <3> QED
      BY <3>2, <3>4
  <2> HIDE DEF P, W, Q
  <2>7. \A j \in 1 .. i - 1 : P[j] = n[j]
    BY <1>1, <2>1, <2>3
  <2>8. P[i] = n[i] + n[i + 1]
    BY <1>1, <1>2, <2>1, <2>3
  <2>9. \A j \in 1 .. Len(Q) : Q[j] = n[i + 1 + j]
    BY <2>5
  <2>10. i \in 1 .. Len(n) - 1 /\ n[i] > 0 /\ n[i + 1] > 0 /\ Len(Q) = Len(n) - 1 - i
    BY <1>1, <1>2, <1>5, <2>5
  <2> HIDE DEF x
  <2>11. Parted(P \o Q, n, i)
    BY <1>1, <2>3, <2>5, <2>7, <2>8, <2>9, <2>10, JoinedIs
  <2>12. i \in Nat /\ i >= 2 /\ {i} \subseteq {i, i + 1} /\ (i + 1 \in {i} => i \in {})
    BY <1>1
  <2>13. Freed(P \o Q, i, areas, {}, hint, sum, len)
    BY <2>11, <2>12, JoinKeeps
  <2> QED
    BY <2>2, <2>6, <2>13 DEF r
<1>6. CASE ~ (i < x /\ n[k] > 0)
  <2>1. r = n
    <3>1. ~ (i < x /\ n[k] >= 0)
      <4> SUFFICES ASSUME i < x PROVE ~ (n[k] >= 0)
        OBVIOUS
      <4>1. n[k] # 0 /\ n[k] \in Int
        BY <1>2, <1>3
      <4> QED
        BY <1>6, <4>1
    <3> QED
      BY <1>4, <3>1
  <2>2. \A j \in {i} : j \in 1 .. Len(n) - 1 /\ n[j] > 0 /\ n[j + 1] > 0 => j \in {}
    BY <1>1, <1>2, <1>6
  <2>3. Freed(n, i, areas, {}, hint, sum, len)
    BY <2>2, ApartKeeps
  <2> QED
    BY <2>1, <2>3 DEF r
<1> QED
  BY <1>5, <1>6

(* What free_percpu leaves, where the merge went well. *)
AreaReturned(m, areas, a, hint) ==
  LET i == BlockAt(m, a.off)
      p == MergePrev([m EXCEPT ![i] = -@], i)
      f == pcpu_free_area(m, FreeSum(m), hint, a.off)
  IN MergedWell(p.map, p.at) =>
       /\ SoundMap(f.map, areas \ {a}, {})
       /\ f.free = FreeSum(f.map) /\ f.hint \in Nat /\ Within(f.map, f.hint)
       /\ Len(f.map) <= Len(m)

LEMMA FreeSound ==
  ASSUME NEW m, NEW areas, SoundMap(m, areas, {}), NEW a \in areas,
         \A b \in areas : b.off = a.off => b = a, NEW hint \in Nat, Within(m, hint)
  PROVE  AreaReturned(m, areas, a, hint)
<1> DEFINE x == Len(m)
           i == BlockAt(m, a.off)
           e == [m EXCEPT ![i] = -m[i]]
           p == MergePrev(e, i)
           n == MergeNext(p.map, p.at)
           f == pcpu_free_area(m, FreeSum(m), hint, a.off)
<1>1. /\ m \in Seq(Int) /\ x \in Nat /\ x >= 2 /\ m[1] = 0
      /\ \A j \in 1 .. x : m[j] \in Int
  BY DEF SoundMap, Shape
<1>2. PICK b \in 2 .. x : Offset(m, b) = a.off /\ m[b] <= -a.size
  BY DEF SoundMap, Covers
<1>3. a.size \in IntSize .. UnitSize /\ a \in Areas
  BY DEF SoundMap, Areas
<1>4. m[b] \in Int /\ m[b] < 0 /\ b \in 1 .. x
  BY <1>1, <1>2, <1>3, PercpuConstants
<1>5. i = (IF a.off = 0 THEN 1 ELSE b) /\ (a.off # 0 => b >= 3)
  BY <1>2, BlockAtIs DEF SoundMap
<1>6. f = [map |-> n, free |-> FreeSum(m) - m[i], hint |-> Max({n[p.at], hint})]
  BY DEF pcpu_free_area
<1>7. FreeSum(m) \in Nat
  BY <1>1, FreeSumInt
<1>8. AreaReturned(m, areas, a, hint)
        <=> (MergedWell(p.map, p.at) =>
               /\ SoundMap(n, areas \ {a}, {})
               /\ FreeSum(m) - m[i] = FreeSum(n) /\ Max({n[p.at], hint}) \in Nat
               /\ Within(n, Max({n[p.at], hint})) /\ Len(n) <= x)
  BY <1>6 DEF AreaReturned
<1> HIDE DEF i, f, x
<1>9. CASE a.off = 0
  <2>1. i = 1
    BY <1>5, <1>9
  <2>2. e = m
    BY <1>1, <2>1
  <2> HIDE DEF e
  <2>3. p.map = m /\ p.at = 1
    BY <2>1, <2>2 DEF MergePrev
  <2> HIDE DEF p
  <2>4. b = 2
    <3>1. b \in 2 .. Len(m) + 1 /\ 2 \in 2 .. Len(m) + 1 /\ Offset(m, b) = Offset(m, 2) /\ Shape(m)
      BY <1>1, <1>2, <1>9, OffsetsApart DEF SoundMap, x
    <3> QED
      BY <3>1, OffsetInjective
  <2>5. n = m
    <3>1. ~ (m[1 + 1] >= 0)
      BY <1>4, <2>4
    <3> QED
      BY <2>3, <3>1 DEF MergeNext
  <2>6. n[p.at] = 0 /\ Max({n[p.at], hint}) = hint
    <3>1. n[p.at] = 0
      BY <1>1, <2>3, <2>5
    <3>2. Max({0, hint}) = hint
      <4>1. Max({0, hint}) = IF 0 >= hint THEN 0 ELSE hint
        BY MaxOfTwo
      <4> QED
        BY <4>1
    <3> QED
      BY <3>1, <3>2
  <2> HIDE DEF n
  <2>7. Covers(m, areas \ {a})
    BY DEF SoundMap, Covers
  <2>8. Owned(m, areas \ {a})
    <3> SUFFICES ASSUME NEW j \in 2 .. Len(m), m[j] < 0, Offset(m, j) # 0
                 PROVE  \E c \in areas \ {a} : c.off = Offset(m, j)
      BY DEF Owned
    <3>1. PICK c \in areas : c.off = Offset(m, j)
      BY DEF SoundMap, Owned
    <3>2. c # a
      BY <1>9, <3>1
    <3> QED
      BY <3>1, <3>2
  <2>9. SoundMap(n, areas \ {a}, {})
    BY <2>5, <2>7, <2>8 DEF SoundMap
  <2>10. FreeSum(m) - m[i] = FreeSum(n)
    BY <1>1, <1>7, <2>1, <2>5
  <2> QED
    BY <1>1, <1>8, <2>5, <2>6, <2>9, <2>10 DEF x
<1>10. CASE a.off # 0
  <2>1. i = b /\ i \in 3 .. x /\ i \in 1 .. x /\ m[i] < 0 /\ m[i] \in Int /\ a.off = Offset(m, i)
    BY <1>1, <1>2, <1>4, <1>5, <1>10
  <2>2. Flipped(m, e, i)
    <3>1. i \in 1 .. Len(m) /\ -m[i] \in Int
      BY <2>1 DEF x
    <3> HIDE DEF e
    <3>2. e = [m EXCEPT ![i] = -m[i]]
      BY DEF e
    <3>3. /\ e \in Seq(Int) /\ Len(e) = Len(m) /\ e[i] = -m[i]
          /\ \A j \in 1 .. Len(m) : j # i => e[j] = m[j]
      BY <1>1, <3>1, <3>2, ExceptIs
    <3> QED
      BY <1>1, <3>1, <3>3 DEF Flipped
  <2> HIDE DEF e
  <2>3. SoundMap(e, areas \ {a}, {i - 1, i})
    BY <2>1, <2>2, ReleaseSound
  <2>4. e[i] = -m[i] /\ Len(e) = x /\ \A j \in 1 .. x : j # i => e[j] = m[j]
    BY <1>1, <2>1, <2>2 DEF Flipped, x
  <2>5. FreeSum(e) = FreeSum(m) - m[i]
    <3>1. FreeSum(e) = FreeSum(m) + Frees(-m[i]) - Frees(m[i])
      BY <2>2, FlippedOffsets
    <3>2. Frees(-m[i]) = -m[i] /\ Frees(m[i]) = 0
      BY <2>1 DEF Frees
    <3> QED
      BY <1>7, <2>1, <3>1, <3>2
  <2>6. WithinBut(e, i, hint)
    BY <2>4 DEF WithinBut, Within, x
  <2>7. Freed(e, i, areas \ {a}, {i - 1, i}, hint, FreeSum(m) - m[i], x)
    BY <1>1, <2>1, <2>3, <2>4, <2>5, <2>6 DEF Freed
  <2>8. Freed(p.map, p.at, areas \ {a}, {p.at}, hint, FreeSum(m) - m[i], x)
    <3> DEFINE sum == FreeSum(m) - m[i]
               left == areas \ {a}
    <3>1. Freed(e, i, left, {i - 1, i}, hint, sum, x) /\ i >= 3 /\ x \in Nat
      BY <1>1, <2>1, <2>7
    <3>2. p = MergePrev(e, i)
      OBVIOUS
    <3> HIDE DEF sum, left, p
    <3>3. Freed(p.map, p.at, left, {p.at}, hint, sum, x)
      BY <3>1, <3>2, PrevMerged
    <3> QED
      BY <3>3 DEF sum, left
  <2> HIDE DEF p
  <2>9. SUFFICES ASSUME MergedWell(p.map, p.at)
                 PROVE  /\ SoundMap(n, areas \ {a}, {})
                        /\ FreeSum(m) - m[i] = FreeSum(n) /\ Max({n[p.at], hint}) \in Nat
                        /\ Within(n, Max({n[p.at], hint})) /\ Len(n) <= x
    BY <1>8
  <2>10. Freed(n, p.at, areas \ {a}, {}, hint, FreeSum(m) - m[i], x)
    BY <1>1, <2>8, <2>9, NextMerged
  <2> HIDE DEF n
  <2>11. /\ SoundMap(n, areas \ {a}, {}) /\ FreeSum(n) = FreeSum(m) - m[i] /\ Len(n) <= x
         /\ WithinBut(n, p.at, hint) /\ n[p.at] > 0 /\ p.at \in 1 .. Len(n) /\ n \in Seq(Int)
    <3>1. /\ SoundMap(n, areas \ {a}, {}) /\ FreeSum(n) = FreeSum(m) - m[i] /\ Len(n) <= x
          /\ WithinBut(n, p.at, hint) /\ n[p.at] > 0 /\ p.at \in 2 .. Len(n)
      BY <2>10 DEF Freed
    <3>2. n \in Seq(Int) /\ Len(n) \in Nat
      BY <3>1 DEF SoundMap, Shape
    <3> QED
      BY <3>1, <3>2
  <2> DEFINE u == n[p.at]
             v == Max({u, hint})
  <2>12. u \in Int /\ u > 0
    BY <2>11
  <2> HIDE DEF u
  <2>13. v = IF u >= hint THEN u ELSE hint
    BY <2>12, MaxOfTwo
  <2>14. v \in Nat /\ u <= v /\ hint <= v
    BY <2>12, <2>13
  <2> HIDE DEF v
  <2>15. Within(n, v)
    <3> SUFFICES ASSUME NEW k \in 1 .. Len(n) PROVE n[k] <= v
      BY DEF Within
    <3>1. CASE k = p.at
      BY <2>14, <3>1 DEF u
    <3>2. CASE k # p.at
      <4>1. n[k] <= hint /\ n[k] \in Int
        BY <2>11, <3>2 DEF WithinBut
      <4> QED
        BY <2>14, <4>1
    <3> QED
      BY <3>1, <3>2
  <2> QED
    BY <2>11, <2>14, <2>15 DEF u, v
<1> QED
  BY <1>9, <1>10

(* What holds of the chunk until a merge goes wrong. *)
ChunkSound ==
  /\ SoundMap(map, held, {})
  /\ \A a \in held : a.off % a.align = 0
  /\ \A a, b \in held : a.off = b.off => a = b
  /\ free_size = FreeSum(map)
  /\ contig_hint \in Nat /\ Within(map, contig_hint)
  /\ map_alloc \in Nat /\ Len(map) <= map_alloc
  /\ slot = pcpu_chunk_slot(free_size, contig_hint)

PercpuInv ==
  /\ pcpu # "corrupt" => ChunkSound
  /\ pcpu \in {"search", "create"} => call \in Types

LEMMA PercpuInitSound == PercpuInit => PercpuInv
<1> SUFFICES ASSUME PercpuInit PROVE ChunkSound
  BY DEF PercpuInit, PercpuInv
<1> DEFINE m == <<0, UnitSize>>
           u == UnitSize
<1>1. /\ m \in Seq(Int) /\ Len(m) = 2 /\ m[1] = 0 /\ m[2] = u /\ u \in Nat /\ u > 0
      /\ IntSize \in Nat /\ IntSize <= u
  BY PercpuConstants
<1>2. /\ map = m /\ map_alloc = EarlySlots /\ free_size = u /\ contig_hint = u
      /\ slot = pcpu_nr_slots - 1 /\ held = {}
  BY DEF PercpuInit
<1> HIDE DEF m, u
<1>3. Offset(m, 3) = u
  <2>1. Offset(m, 1) = 0 /\ \A k \in 1 .. 2 : Offset(m, k + 1) = Offset(m, k) + BlockSize(m[k])
    BY <1>1, OffsetSteps
  <2>2. Offset(m, 1 + 1) = Offset(m, 1) + BlockSize(m[1]) /\ Offset(m, 2 + 1) = Offset(m, 2) + BlockSize(m[2])
    BY <2>1
  <2>3. BlockSize(m[1]) = 0 /\ BlockSize(m[2]) = u /\ 1 + 1 = 2 /\ 2 + 1 = 3
    BY <1>1 DEF BlockSize
  <2>4. Offset(m, 2) = 0
    BY <2>1, <2>2, <2>3
  <2> QED
    BY <1>1, <2>2, <2>3, <2>4
<1>4. SoundMap(m, {}, {})
  <2>1. Shape(m)
    BY <1>1, <1>3 DEF Shape, u
  <2>2. TouchOnlyAt(m, {})
    BY <1>1 DEF TouchOnlyAt
  <2>3. Owned(m, {})
    BY <1>1 DEF Owned
  <2> QED
    BY <2>1, <2>2, <2>3 DEF SoundMap, Covers
<1>5. FreeSum(m) = u
  <2>1. PICK f : Running(f, FreeParts(m), Len(m)) /\ f[0] = 0 /\ f[Len(m)] = FreeSum(m)
    BY <1>1, FreeRuns
  <2>2. FreeParts(m)[1] = 0 /\ FreeParts(m)[2] = u
    BY <1>1 DEF FreeParts, Frees
  <2>3. f[1] = f[1 - 1] + FreeParts(m)[1] /\ f[2] = f[2 - 1] + FreeParts(m)[2]
    BY <1>1, <2>1 DEF Running
  <2> QED
    BY <1>1, <2>1, <2>2, <2>3
<1>6. Within(m, u)
  BY <1>1 DEF Within
<1>7. pcpu_chunk_slot(u, u) = pcpu_nr_slots - 1
  BY <1>1 DEF pcpu_chunk_slot, pcpu_size_to_slot, u
<1>8. EarlySlots \in Nat /\ 2 <= EarlySlots
  BY PercpuAssumption
<1> QED
  BY <1>1, <1>2, <1>4, <1>5, <1>6, <1>7, <1>8 DEF ChunkSound

(* What the runs check of the chunk follows. *)
LEMMA PercpuInvImplies == PercpuInv => BlocksOwned
<1> SUFFICES ASSUME ChunkSound
             PROVE  /\ \A a \in held : \E i \in DOMAIN map :
                         Offset(map, i) = a.off /\ map[i] <= -a.size /\ a.off % a.align = 0
                    /\ \A i \in DOMAIN map : map[i] < 0 =>
                         (\E a \in held : a.off = Offset(map, i)) \/ Offset(map, i) = 0
                    /\ \A i \in FreeBlocks(map) : i + 1 \notin FreeBlocks(map)
                    /\ Offset(map, Len(map) + 1) = UnitSize
                    /\ free_size = FreeSum(map)
                    /\ Len(map) <= map_alloc
  BY DEF PercpuInv, BlocksOwned, FreeSum
<1>1. /\ map \in Seq(Int) /\ Len(map) \in Nat /\ DOMAIN map = 1 .. Len(map) /\ map[1] = 0
      /\ Offset(map, Len(map) + 1) = UnitSize
  BY DEF ChunkSound, SoundMap, Shape
<1>2. \A a \in held : \E i \in DOMAIN map :
        Offset(map, i) = a.off /\ map[i] <= -a.size /\ a.off % a.align = 0
  BY <1>1 DEF ChunkSound, SoundMap, Covers
<1>3. \A i \in DOMAIN map : map[i] < 0 =>
        (\E a \in held : a.off = Offset(map, i)) \/ Offset(map, i) = 0
  <2> SUFFICES ASSUME NEW i \in 1 .. Len(map), map[i] < 0, Offset(map, i) # 0
               PROVE  \E a \in held : a.off = Offset(map, i)
    BY <1>1
  <2>1. i \in 2 .. Len(map)
    BY <1>1
  <2> QED
    BY <2>1 DEF ChunkSound, SoundMap, Owned
<1>4. \A i \in FreeBlocks(map) : i + 1 \notin FreeBlocks(map)
  <2> SUFFICES ASSUME NEW i \in 1 .. Len(map), map[i] > 0, i + 1 \in 1 .. Len(map), map[i + 1] > 0
               PROVE  FALSE
    BY <1>1 DEF FreeBlocks
  <2>1. i \in 1 .. Len(map) - 1
    BY <1>1
  <2> QED
    BY <2>1 DEF ChunkSound, SoundMap, TouchOnlyAt
<1> QED
  BY <1>1, <1>2, <1>3, <1>4 DEF ChunkSound

(* The length pcpu_extend_area_map is asked for is enough. *)
LEMMA PowersReach == ASSUME NEW n \in Nat PROVE 2 ^ n > n /\ 2 ^ n \in Nat
<1> DEFINE T == {k \in 0 .. n : 2 ^ k \in Nat /\ 2 ^ k > k}
<1>1. 0 \in T
  BY PowersOfTwo
<1>2. ASSUME NEW k \in 1 .. n, k - 1 \in T PROVE k \in T
  <2> DEFINE j == k - 1
  <2>1. j \in Nat /\ j + 1 = k /\ j \in T
    BY <1>2
  <2> HIDE DEF j
  <2>2. 2 ^ j \in Nat \ {0} /\ 2 ^ (j + 1) = 2 * 2 ^ j /\ 2 ^ j > j
    BY <2>1, PowersOfTwo
  <2> DEFINE a == 2 ^ j
             b == 2 ^ k
  <2>3. a \in Nat /\ a # 0 /\ b = 2 * a /\ a > j
    BY <2>1, <2>2
  <2> HIDE DEF a, b
  <2>4. b \in Nat /\ b > k
    BY <2>1, <2>3
  <2> QED
    BY <1>2, <2>4 DEF b
<1> HIDE DEF T
<1>3. n \in T
  BY <1>1, <1>2, InductionUpTo
<1> QED
  BY <1>3 DEF T

LEMMA NeedIs ==
  ASSUME map \in Seq(Int), map_alloc \in Nat
  PROVE  /\ pcpu_need_to_extend = 0 => map_alloc >= Len(map) + 2
         /\ pcpu_need_to_extend # 0 => pcpu_need_to_extend \in Nat /\ pcpu_need_to_extend >= Len(map) + 2
<1> DEFINE x == Len(map) + 2
           S == {n \in {DflMapAlloc * 2 ^ k : k \in 0 .. x} : n >= x}
<1>1. x \in Nat /\ x > 0 /\ DflMapAlloc \in Nat /\ DflMapAlloc > 0
  BY PercpuAssumption
<1>2. pcpu_need_to_extend = IF map_alloc >= x THEN 0 ELSE Min(S)
  BY DEF pcpu_need_to_extend
<1> HIDE DEF x
<1>3. \A k \in 0 .. x : DflMapAlloc * 2 ^ k \in Nat
  <2> SUFFICES ASSUME NEW k \in 0 .. x PROVE DflMapAlloc * 2 ^ k \in Nat
    OBVIOUS
  <2>1. 2 ^ k \in Nat
    BY <1>1, PowersReach
  <2> DEFINE a == 2 ^ k
  <2> HIDE DEF a
  <2> QED
    BY <1>1, <2>1 DEF a
<1>4. S \subseteq Nat /\ \A n \in S : n >= x
  BY <1>3
<1>5. DflMapAlloc * 2 ^ x \in S
  <2> DEFINE a == 2 ^ x
  <2>1. a \in Nat /\ a >= x
    BY <1>1, PowersReach
  <2> HIDE DEF a
  <2>2. DflMapAlloc * a >= x
    BY <1>1, <2>1, SMT
  <2> QED
    BY <1>1, <2>2 DEF a
<1> HIDE DEF S
<1>6. Min(S) \in S
  BY <1>4, <1>5, MinOfNumbers
<1> QED
  BY <1>1, <1>2, <1>4, <1>6 DEF x

(* What a search may rely on. *)
LEMMA TypesAre ==
  ASSUME NEW c \in Types
  PROVE  c.size \in IntSize .. UnitSize /\ c.align \in 1 .. UnitSize
BY PercpuAssumption

LEMMA FittingFirst ==
  ASSUME NEW m, m \in Seq(Int), NEW size, NEW align, Fitting(m, size, align) # {}
  PROVE  Min(Fitting(m, size, align)) \in Fitting(m, size, align)
<1> DEFINE S == Fitting(m, size, align)
<1>1. S \subseteq Nat /\ S # {}
  BY DEF Fitting
<1> HIDE DEF S
<1> QED
  BY <1>1, MinOfNumbers DEF S

LEMMA TakeAreaKeeps == PercpuInv /\ TakeArea => PercpuInv'
<1> SUFFICES ASSUME PercpuInv, TakeArea PROVE PercpuInv'
  OBVIOUS
<1> DEFINE size == call.size
           align == call.align
           i == Min(Fitting(map, size, align))
           got == AreaIn(map, free_size, contig_hint, size, align, i)
           a == [off |-> got.off, size |-> size, align |-> align]
<1>1. ChunkSound /\ call \in Types
  BY DEF PercpuInv, TakeArea
<1>2. /\ SoundMap(map, held, {}) /\ free_size = FreeSum(map)
      /\ contig_hint \in Nat /\ Within(map, contig_hint)
      /\ map \in Seq(Int) /\ Len(map) \in Nat /\ map_alloc \in Nat
  BY <1>1 DEF ChunkSound, SoundMap, Shape
<1>3. size \in IntSize .. UnitSize /\ align \in 1 .. UnitSize
  BY <1>1, TypesAre
<1>4. i \in Fitting(map, size, align)
  BY <1>2, FittingFirst DEF TakeArea
<1>5. map_alloc >= Len(map) + 2
  BY <1>2, NeedIs DEF TakeArea
<1>6. /\ map' = got.map /\ free_size' = got.free /\ contig_hint' = got.hint
      /\ slot' = pcpu_chunk_slot(got.free, got.hint) /\ held' = held \cup {a}
      /\ pcpu' = "idle" /\ map_alloc' = map_alloc
  BY DEF TakeArea, pcpu_alloc_area, Finish
<1> HIDE DEF size, align, i
<1>7. AreaTaken(got, map, held, size, align)
  BY <1>2, <1>3, <1>4, AreaSound
<1> HIDE DEF got
<1>8. /\ a \in Areas /\ got.off % align = 0
      /\ SoundMap(got.map, held \cup {a}, {}) /\ \A b \in held : b.off # got.off
      /\ got.free = FreeSum(got.map) /\ got.hint \in Nat /\ Within(got.map, got.hint)
      /\ Len(got.map) <= Len(map) + 2
  BY <1>7 DEF AreaTaken
<1>9. a.off = got.off /\ a.align = align
  OBVIOUS
<1> HIDE DEF a
<1>10. \A b \in held' : b.off % b.align = 0
  BY <1>1, <1>6, <1>8, <1>9 DEF ChunkSound
<1>11. \A b, c \in held' : b.off = c.off => b = c
  BY <1>1, <1>6, <1>8, <1>9 DEF ChunkSound
<1>12. Len(map') <= map_alloc'
  <2>1. Len(got.map) \in Nat
    BY <1>8 DEF SoundMap, Shape
  <2> QED
    BY <1>2, <1>5, <1>6, <1>8, <2>1
<1>13. ChunkSound'
  BY <1>2, <1>6, <1>8, <1>10, <1>11, <1>12 DEF ChunkSound
<1> QED
  BY <1>6, <1>13 DEF PercpuInv

LEMMA ScanFailsKeeps == PercpuInv /\ ScanFails => PercpuInv'
<1> SUFFICES ASSUME PercpuInv, ScanFails PROVE PercpuInv'
  OBVIOUS
<1> DEFINE S == {map[i] : i \in FreeBlocks(map)}
           u == Largest(S)
<1>1. ChunkSound /\ call \in Types
  BY DEF PercpuInv, ScanFails
<1>2. map \in Seq(Int) /\ contig_hint \in Nat /\ Within(map, contig_hint)
  BY <1>1 DEF ChunkSound, SoundMap, Shape
<1>3. /\ map' = map /\ map_alloc' = map_alloc /\ free_size' = free_size /\ held' = held
      /\ call' = call /\ contig_hint' = u /\ slot' = pcpu_chunk_slot(free_size, contig_hint')
  BY DEF ScanFails
<1>4. S \subseteq Int /\ \A y \in S : y <= contig_hint
  BY <1>2 DEF FreeBlocks, Within
<1>5. \A k \in 1 .. Len(map) : map[k] > 0 => map[k] \in S
  BY <1>2 DEF FreeBlocks
<1> HIDE DEF S
<1>6. u \in Nat /\ \A y \in S : y <= u
  BY <1>2, <1>4, LargestIs
<1> HIDE DEF u
<1>7. Within(map, u)
  <2> SUFFICES ASSUME NEW k \in 1 .. Len(map) PROVE map[k] <= u
    BY DEF Within
  <2>1. map[k] \in Int
    BY <1>2
  <2> QED
    BY <1>5, <1>6, <2>1
<1>8. ChunkSound'
  BY <1>1, <1>3, <1>6, <1>7 DEF ChunkSound
<1> QED
  BY <1>1, <1>3, <1>8 DEF PercpuInv

LEMMA FreePercpuKeeps == ASSUME PercpuInv, NEW a \in held, FreePercpu(a) PROVE PercpuInv'
<1> DEFINE i == BlockAt(map, a.off)
           p == MergePrev([map EXCEPT ![i] = -@], i)
           f == pcpu_free_area(map, free_size, contig_hint, a.off)
<1>1. ChunkSound
  BY DEF PercpuInv, FreePercpu
<1>2. /\ map' = f.map /\ free_size' = f.free /\ contig_hint' = f.hint
      /\ slot' = pcpu_chunk_slot(f.free, f.hint) /\ held' = held \ {a}
      /\ pcpu' = IF MergedWell(p.map, p.at) THEN "idle" ELSE "corrupt"
      /\ map_alloc' = map_alloc
  BY DEF FreePercpu
<1>3. pcpu' \notin {"search", "create"}
  BY <1>2
<1>4. SUFFICES ASSUME MergedWell(p.map, p.at) PROVE ChunkSound'
  BY <1>2, <1>3 DEF PercpuInv
<1>5. /\ SoundMap(map, held, {}) /\ free_size = FreeSum(map)
      /\ \A b \in held : b.off = a.off => b = a
      /\ contig_hint \in Nat /\ Within(map, contig_hint)
      /\ map_alloc \in Nat /\ Len(map) <= map_alloc /\ map \in Seq(Int) /\ Len(map) \in Nat
  BY <1>1 DEF ChunkSound, SoundMap, Shape
<1>6. AreaReturned(map, held, a, contig_hint)
  BY <1>5, FreeSound
<1>7. /\ SoundMap(f.map, held \ {a}, {})
      /\ f.free = FreeSum(f.map) /\ f.hint \in Nat /\ Within(f.map, f.hint)
      /\ Len(f.map) <= Len(map)
  BY <1>4, <1>5, <1>6 DEF AreaReturned
<1> HIDE DEF f
<1>8. Len(f.map) <= map_alloc
  <2>1. Len(f.map) \in Nat
    BY <1>7 DEF SoundMap, Shape
  <2> QED
    BY <1>5, <1>7, <2>1
<1> QED
  BY <1>1, <1>2, <1>5, <1>7, <1>8 DEF ChunkSound

LEMMA ExtendMapKeeps == PercpuInv /\ ExtendMap => PercpuInv'
<1> SUFFICES ASSUME PercpuInv, ExtendMap PROVE PercpuInv'
  OBVIOUS
<1>1. ChunkSound /\ call \in Types
  BY DEF PercpuInv, ExtendMap
<1>2. map \in Seq(Int) /\ Len(map) \in Nat /\ map_alloc \in Nat
  BY <1>1 DEF ChunkSound, SoundMap, Shape
<1>3. map_alloc' \in Nat /\ Len(map) <= map_alloc'
  <2>1. map_alloc' \in Nat /\ map_alloc' >= Len(map) + 2
    BY <1>2, NeedIs DEF ExtendMap
  <2> QED
    BY <1>2, <2>1
<1>4. /\ map' = map /\ free_size' = free_size /\ contig_hint' = contig_hint /\ slot' = slot /\ held' = held
      /\ pcpu' \in {"search", "create"} => call' = call
  BY DEF ExtendMap, Finish
<1>5. ChunkSound'
  BY <1>1, <1>3, <1>4 DEF ChunkSound
<1> QED
  BY <1>1, <1>4, <1>5 DEF PercpuInv

LEMMA PercpuNextSound == PercpuInv /\ [PercpuNext]_pcpuVars => PercpuInv'
<1> SUFFICES ASSUME PercpuInv, [PercpuNext]_pcpuVars PROVE PercpuInv'
  OBVIOUS
<1> DEFINE Quiet == UNCHANGED <<map, map_alloc, free_size, contig_hint, slot, held>> /\ pcpu # "corrupt"
<1>1. ASSUME Quiet PROVE pcpu' # "corrupt" => ChunkSound'
  BY <1>1 DEF PercpuInv, ChunkSound
<1> HIDE DEF Quiet
<1>2. CASE UNCHANGED pcpuVars
  BY <1>2 DEF pcpuVars, PercpuInv, ChunkSound
<1>3. ASSUME NEW type \in Types, AllocPercpu(type) PROVE PercpuInv'
  <2>1. Quiet /\ call' \in Types
    BY <1>3 DEF AllocPercpu, Quiet
  <2> QED
    BY <1>1, <2>1 DEF PercpuInv
<1>4. CASE NoLongerMap \/ NoNewChunk
  <2>1. Quiet /\ pcpu' = "idle"
    BY <1>4 DEF NoLongerMap, NoNewChunk, Finish, Quiet
  <2> QED
    BY <1>1, <2>1 DEF PercpuInv
<1>5. CASE NoChunk
  <2>1. Quiet /\ call' = call /\ pcpu = "search"
    BY <1>5 DEF NoChunk, Quiet
  <2> QED
    BY <1>1, <2>1 DEF PercpuInv
<1>6. CASE NewChunk
  <2>1. Quiet /\ pcpu' = "fault"
    BY <1>6 DEF NewChunk, Quiet
  <2> QED
    BY <1>1, <2>1 DEF PercpuInv
<1>7. CASE percpu_init_late
  <2>1. Quiet /\ pcpu' \in {"idle", "fault"}
    BY <1>7 DEF percpu_init_late, Quiet
  <2> QED
    BY <1>1, <2>1 DEF PercpuInv
<1>8. CASE TakeArea \/ ScanFails \/ ExtendMap
  BY <1>8, TakeAreaKeeps, ScanFailsKeeps, ExtendMapKeeps
<1>9. ASSUME NEW a \in held, FreePercpu(a) PROVE PercpuInv'
  BY <1>9, FreePercpuKeeps
<1> QED
  BY <1>2, <1>3, <1>4, <1>5, <1>6, <1>7, <1>8, <1>9 DEF PercpuNext

(* Until a merge goes wrong every allocated block but the first belongs to
   the one area that starts at it and is no smaller, the offset is aligned as
   asked, no two free blocks touch, the blocks fill the unit, the free size is
   the sum of the free ones and the map has room for the entries.
   (pcpu_alloc_area, pcpu_split_block, pcpu_free_area, pcpu_extend_area_map) *)
THEOREM BlocksStayOwned == PercpuSpec => []BlocksOwned
<1>1. PercpuInit => PercpuInv
  BY PercpuInitSound
<1>2. PercpuInv /\ [PercpuNext]_pcpuVars => PercpuInv'
  BY PercpuNextSound
<1>3. PercpuInv => BlocksOwned
  BY PercpuInvImplies
<1> QED
  BY <1>1, <1>2, <1>3, PTL DEF PercpuSpec

-----------------------------------------------------------------------------
(* The slot lists *)

LEMMA PowersGrow == ASSUME NEW a \in Nat, NEW b \in Nat, a <= b PROVE 2 ^ a <= 2 ^ b
<1> DEFINE n == b - a
           T == {k \in 0 .. n : 2 ^ a <= 2 ^ (a + k)}
<1>1. n \in Nat /\ a + n = b
  OBVIOUS
<1>2. 0 \in T
  <2>1. 2 ^ a \in Nat /\ a + 0 = a
    BY PowersOfTwo
  <2> QED
    BY <1>1, <2>1
<1>3. ASSUME NEW k \in 1 .. n, k - 1 \in T PROVE k \in T
  <2> DEFINE j == a + (k - 1)
             u == 2 ^ a
             v == 2 ^ j
             w == 2 ^ (a + k)
  <2>1. j \in Nat /\ j + 1 = a + k /\ u <= v
    BY <1>3
  <2> HIDE DEF j
  <2>2. u \in Nat /\ v \in Nat /\ w = 2 * v
    BY <2>1, PowersOfTwo
  <2> HIDE DEF u, v, w
  <2>3. u <= w
    BY <2>1, <2>2
  <2> QED
    BY <1>3, <2>3 DEF u, w
<1>4. n \in T
  <2> HIDE DEF T, n
  <2> QED
    BY <1>1, <1>2, <1>3, InductionUpTo
<1> QED
  BY <1>1, <1>4

LEMMA FlsIs ==
  ASSUME NEW x \in Nat
  PROVE  Fls(x) \in 0 .. x /\ x < 2 ^ Fls(x) /\ (Fls(x) = 0 \/ 2 ^ (Fls(x) - 1) <= x)
<1> DEFINE S == {k \in 0 .. x : x < 2 ^ k}
<1>1. x \in S
  BY PowersReach
<1>2. S \subseteq Nat
  OBVIOUS
<1>3. PICK k \in S : \A j \in S : k <= j
  BY <1>1, <1>2, LeastNatural
<1>4. k = 0 \/ 2 ^ (k - 1) <= x
  <2> SUFFICES ASSUME k # 0 PROVE 2 ^ (k - 1) <= x
    OBVIOUS
  <2> DEFINE j == k - 1
  <2>1. j \in Nat /\ j \in 0 .. x /\ ~ (k <= j)
    BY <1>2, <1>3
  <2> HIDE DEF j
  <2>2. ~ (x < 2 ^ j)
    BY <1>3, <2>1
  <2>3. 2 ^ j \in Nat
    BY <2>1, PowersOfTwo
  <2> DEFINE v == 2 ^ j
  <2> HIDE DEF v
  <2>4. v <= x
    BY <2>2, <2>3 DEF v
  <2> QED
    BY <2>4 DEF v, j
<1>5. \E l \in 0 .. x : x < 2 ^ l /\ (l = 0 \/ 2 ^ (l - 1) <= x)
  BY <1>3, <1>4
<1> QED
  BY <1>5 DEF Fls

LEMMA FlsGrows == ASSUME NEW a \in Nat, NEW b \in Nat, a <= b PROVE Fls(a) <= Fls(b)
<1> DEFINE k == Fls(a)
           l == Fls(b)
           j == k - 1
           u == 2 ^ j
           v == 2 ^ l
<1>1. k \in Nat /\ l \in Nat /\ b < v /\ (k = 0 \/ u <= a)
  BY FlsIs
<1> HIDE DEF k, l
<1>2. SUFFICES ASSUME k > l PROVE FALSE
  BY <1>1 DEF k, l
<1>3. j \in Nat /\ l <= j /\ u <= a
  BY <1>1, <1>2
<1> HIDE DEF j
<1>4. u \in Nat /\ v \in Nat /\ v <= u
  BY <1>1, <1>3, PowersOfTwo, PowersGrow
<1> HIDE DEF u, v
<1> QED
  BY <1>1, <1>3, <1>4

LEMMA SlotsGrow ==
  ASSUME NEW a \in Nat, NEW b \in Nat, a <= b
  PROVE  /\ __pcpu_size_to_slot(a) \in Int /\ __pcpu_size_to_slot(b) \in Int
         /\ __pcpu_size_to_slot(a) <= __pcpu_size_to_slot(b)
<1> DEFINE k == Fls(a) - BaseShift + 2
           l == Fls(b) - BaseShift + 2
<1>1. k \in Int /\ l \in Int /\ k <= l
  <2>1. Fls(a) \in Nat /\ Fls(b) \in Nat /\ Fls(a) <= Fls(b) /\ BaseShift \in Nat
    BY FlsIs, FlsGrows, PercpuAssumption
  <2> QED
    BY <2>1
<1>2. __pcpu_size_to_slot(a) = Max({k, 1}) /\ __pcpu_size_to_slot(b) = Max({l, 1})
  BY DEF __pcpu_size_to_slot
<1> HIDE DEF k, l
<1>3. Max({k, 1}) = (IF k >= 1 THEN k ELSE 1) /\ Max({l, 1}) = IF l >= 1 THEN l ELSE 1
  BY <1>1, MaxOfTwo
<1> QED
  BY <1>1, <1>2, <1>3

(* A chunk with a block that fits is on a list the walk takes. *)
LEMMA WalkMeets ==
  ASSUME NEW free \in 0 .. UnitSize, NEW hint \in Nat, NEW size \in IntSize .. UnitSize,
         size <= free, size <= hint
  PROVE  pcpu_chunk_slot(free, hint) >= pcpu_size_to_slot(size)
<1> DEFINE u == __pcpu_size_to_slot(UnitSize)
           v == __pcpu_size_to_slot(size)
           w == __pcpu_size_to_slot(free)
<1>1. /\ UnitSize \in Nat /\ IntSize \in Nat /\ free \in Nat /\ size \in Nat /\ size >= IntSize
      /\ size <= UnitSize /\ free <= UnitSize
  BY PercpuConstants
<1>2. u \in Int /\ v \in Int /\ w \in Int /\ v <= w /\ v <= u
  BY <1>1, SlotsGrow
<1>3. pcpu_chunk_slot(free, hint) = pcpu_size_to_slot(free)
  BY <1>1 DEF pcpu_chunk_slot
<1>4. /\ pcpu_size_to_slot(free) = IF free = UnitSize THEN pcpu_nr_slots - 1 ELSE w
      /\ pcpu_size_to_slot(size) = IF size = UnitSize THEN pcpu_nr_slots - 1 ELSE v
  BY DEF pcpu_size_to_slot
<1>5. pcpu_nr_slots = u + 2
  BY DEF pcpu_nr_slots
<1> HIDE DEF u, v, w
<1> QED
  BY <1>1, <1>2, <1>3, <1>4, <1>5

LEMMA FreeSumFits == ASSUME NEW m, Shape(m) PROVE FreeSum(m) <= UnitSize
<1> DEFINE n == Len(m)
           v == FreeParts(m)
           w == BlockSizes(m)
<1>1. m \in Seq(Int) /\ n \in Nat /\ Offset(m, n + 1) = UnitSize
  BY DEF Shape
<1>2. PICK f : Running(f, v, n) /\ f[0] = 0 /\ f[n] = FreeSum(m)
  BY <1>1, FreeRuns
<1>3. PICK g : Running(g, w, n) /\ g[0] = 0 /\ \A k \in 0 .. n : g[k] = Offset(m, k + 1)
  BY <1>1, OffsetRuns
<1>4. \A k \in 1 .. n : v[k] \in Int /\ w[k] \in Int /\ v[k] <= w[k]
  <2> SUFFICES ASSUME NEW k \in 1 .. n PROVE v[k] \in Int /\ w[k] \in Int /\ v[k] <= w[k]
    OBVIOUS
  <2>1. m[k] \in Int /\ v[k] = Frees(m[k]) /\ w[k] = BlockSize(m[k])
    BY <1>1 DEF FreeParts, BlockSizes
  <2> QED
    BY <2>1 DEF Frees, BlockSize
<1> HIDE DEF n, v, w
<1> DEFINE T == {k \in 0 .. n : f[k] <= g[k]}
<1>5. 0 \in T
  BY <1>1, <1>2, <1>3
<1>6. ASSUME NEW k \in 1 .. n, k - 1 \in T PROVE k \in T
  <2>1. f[k] = f[k - 1] + v[k] /\ g[k] = g[k - 1] + w[k] /\ f[k - 1] \in Int /\ g[k - 1] \in Int
    <3>1. k - 1 \in 0 .. n
      BY <1>1
    <3>2. f[k] = f[k - 1] + v[k] /\ f[k - 1] \in Int
      BY <1>2, <3>1 DEF Running
    <3>3. g[k] = g[k - 1] + w[k] /\ g[k - 1] \in Int
      BY <1>3, <3>1 DEF Running
    <3> QED
      BY <3>2, <3>3
  <2>2. f[k - 1] <= g[k - 1] /\ v[k] \in Int /\ w[k] \in Int /\ v[k] <= w[k]
    BY <1>4, <1>6
  <2>3. f[k] <= g[k]
    BY <2>1, <2>2
  <2> QED
    BY <2>3
<1> HIDE DEF T
<1>7. 0 .. n \subseteq T
  BY <1>1, <1>5, <1>6, InductionUpTo
<1>8. n \in 0 .. n /\ f[n] <= g[n]
  BY <1>1, <1>7 DEF T
<1> QED
  BY <1>1, <1>2, <1>3, <1>8

(* A chunk that the walk passes by has no block that fits. *)
LEMMA WalkMisses == ChunkSound /\ call \in Types /\ ~OnWalk => Fitting(map, call.size, call.align) = {}
<1> SUFFICES ASSUME ChunkSound, call \in Types, NEW i \in Fitting(map, call.size, call.align) PROVE OnWalk
  OBVIOUS
<1> DEFINE size == call.size
           align == call.align
           d == HeadOf(map, i, align)
<1>1. size \in IntSize .. UnitSize /\ align \in 1 .. UnitSize /\ size \in Nat /\ align \in Nat /\ align > 0
  BY TypesAre, PercpuConstants
<1>2. /\ map \in Seq(Int) /\ Shape(map) /\ free_size = FreeSum(map) /\ contig_hint \in Nat
      /\ Within(map, contig_hint) /\ slot = pcpu_chunk_slot(free_size, contig_hint)
  BY DEF ChunkSound, SoundMap, Shape
<1>3. i \in 1 .. Len(map) /\ i \in 1 .. Len(map) + 1 /\ map[i] \in Int /\ map[i] >= d + size
  BY <1>2 DEF Fitting
<1> HIDE DEF size, align
<1>4. d \in Nat
  <2>1. Offset(map, i) \in Nat
    BY <1>2, <1>3, OffsetSteps
  <2> QED
    BY <1>1, <2>1, HeadAligns
<1> HIDE DEF d
<1>5. map[i] <= contig_hint /\ map[i] <= free_size /\ free_size \in Nat
  BY <1>2, <1>3, FreeSumInt DEF Within
<1>6. free_size <= UnitSize
  BY <1>2, FreeSumFits
<1>7. free_size \in 0 .. UnitSize /\ size <= free_size /\ size <= contig_hint
  BY <1>1, <1>2, <1>3, <1>4, <1>5, <1>6, PercpuConstants
<1>8. pcpu_chunk_slot(free_size, contig_hint) >= pcpu_size_to_slot(size)
  BY <1>1, <1>2, <1>7, WalkMeets
<1> QED
  BY <1>2, <1>7, <1>8 DEF OnWalk, size

LEMMA GrowsSound ==
  ASSUME PercpuInv, [PercpuNext]_pcpuVars
  PROVE  [pcpu' = "create" => Fitting(map, call.size, call.align) = {}]_pcpuVars
<1> SUFFICES ASSUME PercpuNext, pcpu' = "create" PROVE Fitting(map, call.size, call.align) = {}
  OBVIOUS
<1>1. \A type \in Types : ~AllocPercpu(type)
  BY DEF AllocPercpu
<1>2. ~NoLongerMap /\ ~ExtendMap /\ ~TakeArea /\ ~NoNewChunk /\ ~NewChunk
  BY DEF NoLongerMap, ExtendMap, TakeArea, NoNewChunk, NewChunk, Finish
<1>3. \A a \in held : ~FreePercpu(a)
  BY DEF FreePercpu
<1>4. ~percpu_init_late
  BY DEF percpu_init_late
<1>5. CASE ScanFails
  BY <1>5 DEF ScanFails
<1>6. CASE NoChunk
  <2>1. ChunkSound /\ call \in Types /\ ~OnWalk
    BY <1>6 DEF NoChunk, PercpuInv
  <2> QED
    BY <2>1, WalkMisses
<1> QED
  BY <1>1, <1>2, <1>3, <1>4, <1>5, <1>6 DEF PercpuNext

(* A new chunk is asked for only when no block of the chunk fits: the hint is
   never below the largest free block, and the list the chunk is on never one
   the walk for a request that fits leaves out.
   (contig_hint, pcpu_chunk_relocate, pcpu_size_to_slot)                    *)
THEOREM GrowsAsNeeded == PercpuSpec => GrowsOnlyWhenFull
<1>1. PercpuInit => PercpuInv
  BY PercpuInitSound
<1>2. PercpuInv /\ [PercpuNext]_pcpuVars => PercpuInv'
  BY PercpuNextSound
<1>3. PercpuInv /\ [PercpuNext]_pcpuVars
        => [pcpu' = "create" => Fitting(map, call.size, call.align) = {}]_pcpuVars
  BY GrowsSound
<1> QED
  BY <1>1, <1>2, <1>3, PTL DEF PercpuSpec, GrowsOnlyWhenFull

-----------------------------------------------------------------------------
(* The services side by side *)

(* A behaviour of the whole is one of each service, with steps of others in
   between that leave it alone; what a service promises holds in it.        *)
THEOREM ServicesKeepPromises ==
  ServicesSpec => [](ReserveKept /\ AddressesRight /\ BlocksOwned) /\ GrowsOnlyWhenFull
<1> DEFINE Sound == MInv /\ HighmemInv /\ PercpuInv
<1>1. ServicesInit => Sound
  BY MempoolInitSound, HighmemInitSound, PercpuInitSound DEF ServicesInit
<1>2. ASSUME [ServicesNext]_servicesVars
      PROVE  [MempoolNext]_mempoolVars /\ [HighmemNext]_highmemVars /\ [PercpuNext]_pcpuVars
  <2>1. CASE UNCHANGED servicesVars
    BY <2>1 DEF servicesVars
  <2>2. CASE ServicesNext
    BY <2>2 DEF ServicesNext
  <2> QED
    BY <1>2, <2>1, <2>2
<1>3. Sound /\ [ServicesNext]_servicesVars => Sound'
  BY <1>2, MempoolNextSound, HighmemNextKeeps, PercpuNextSound
<1>4. Sound => ReserveKept /\ AddressesRight /\ BlocksOwned
  BY HighmemInvImplies, PercpuInvImplies DEF MInv
<1>5. Sound /\ [ServicesNext]_servicesVars
        => [pcpu' = "create" => Fitting(map, call.size, call.align) = {}]_pcpuVars
  BY <1>2, GrowsSound
<1> HIDE DEF Sound
<1> QED
  BY <1>1, <1>3, <1>4, <1>5, PTL DEF ServicesSpec, GrowsOnlyWhenFull
=============================================================================
