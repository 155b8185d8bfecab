--------------------------- MODULE MemblockProofs ---------------------------
(***************************************************************************)
(* Proofs about the early memory manager, for every machine: the tables    *)
(* stay sorted with gaps, the binary search and the search for a place are *)
(* exact, and the tables implement two sets of addresses while there is    *)
(* room.                                                                   *)
(*                                                                         *)
(* Adding to a table is followed by where the entries of the result come   *)
(* from (From), so that the banks still to be added stay clear of them     *)
(* (Ahead): memblock_add_region compares a region with one neighbour only. *)
(* Both searches are recursive functions; that there is a function that    *)
(* does what their equations say is TailRecursion.                         *)
(***************************************************************************)
EXTENDS Memblock, ListLemmas

-----------------------------------------------------------------------------
(* Regions and tables *)

(* The entries an array may hold, and those that hold an address. *)
Entries == {r \in [base : 0 .. Limit, size : 0 .. Limit] : End(r) <= Limit}
Pieces  == {r \in Entries : r.size > 0}

(* The addresses of a region. *)
Span(r) == r.base .. End(r) - 1

(* A table with a gap between any two of its regions. *)
Sorted(t) ==
  /\ t \in Seq(Pieces)
  /\ \A i, j \in 1 .. Len(t) : i < j => End(t[i]) < t[j].base

(* Adjacent, on either side. *)
Touch(r, s) == memblock_addrs_adjacent(r, s) # 0

(* A piece is not empty and lies below Limit. *)
LEMMA PieceFacts ==
  ASSUME NEW r \in Pieces
  PROVE  /\ r.base \in Nat /\ r.size \in Nat \ {0} /\ End(r) \in Nat
         /\ r.base < End(r) /\ End(r) <= Limit /\ End(r) = r.base + r.size
         /\ r \in Entries /\ r = Region(r.base, r.size)
BY LimitAssumption DEF Pieces, Entries, End, Region

(* A range below Limit is a piece. *)
LEMMA PieceOf ==
  ASSUME NEW b \in Int, NEW s \in Int, b >= 0, s > 0, b + s <= Limit
  PROVE  /\ Region(b, s) \in Pieces /\ Region(b, s).base = b /\ Region(b, s).size = s
         /\ End(Region(b, s)) = b + s
BY LimitAssumption DEF Pieces, Entries, End, Region

(* memblock_addrs_adjacent as a relation of ends and starts. *)
LEMMA TouchFacts ==
  ASSUME NEW r \in Pieces, NEW s \in Pieces
  PROVE  /\ Touch(r, s) <=> s.base = End(r) \/ r.base = End(s)
         /\ memblock_addrs_adjacent(r, s) > 0 <=> s.base = End(r)
         /\ Touch(r, s) <=> Touch(s, r)
<1>1. /\ r.base \in Nat /\ End(r) \in Nat /\ r.base < End(r)
      /\ s.base \in Nat /\ End(s) \in Nat /\ s.base < End(s)
  BY PieceFacts
<1>2. 1 # 0 /\ -1 # 0 /\ 1 > 0 /\ ~ (-1 > 0) /\ ~ (0 > 0)
  OBVIOUS
<1> QED
  BY <1>1, <1>2 DEF Touch, memblock_addrs_adjacent

(* memblock_addrs_overlap as a common address. *)
LEMMA OverlapFacts ==
  ASSUME NEW r \in Pieces, NEW s \in Pieces
  PROVE  /\ ~ memblock_addrs_overlap(r, s) <=> End(r) <= s.base \/ End(s) <= r.base
         /\ memblock_addrs_overlap(r, s) <=> Span(r) \cap Span(s) # {}
         /\ memblock_addrs_overlap(r, s) <=> memblock_addrs_overlap(s, r)
<1>1. /\ r.base \in Nat /\ End(r) \in Nat /\ r.base < End(r)
      /\ s.base \in Nat /\ End(s) \in Nat /\ s.base < End(s)
  BY PieceFacts
<1>2. ASSUME r.base < End(s), s.base < End(r) PROVE Span(r) \cap Span(s) # {}
  <2>1. CASE r.base <= s.base
    <3>1. s.base \in Span(r) /\ s.base \in Span(s)
      BY <1>1, <1>2, <2>1 DEF Span
    <3> QED
      BY <3>1
  <2>2. CASE s.base <= r.base
    <3>1. r.base \in Span(r) /\ r.base \in Span(s)
      BY <1>1, <1>2, <2>2 DEF Span
    <3> QED
      BY <3>1
  <2> QED
    BY <1>1, <2>1, <2>2
<1>3. ASSUME NEW a \in Span(r) \cap Span(s) PROVE r.base < End(s) /\ s.base < End(r)
  BY <1>1 DEF Span
<1> QED
  BY <1>1, <1>2, <1>3 DEF memblock_addrs_overlap

(* What is known of a sorted table, entry by entry. *)
LEMMA SortedFacts ==
  ASSUME NEW t, Sorted(t)
  PROVE  /\ Len(t) \in Nat /\ DOMAIN t = 1 .. Len(t)
         /\ \A i \in 1 .. Len(t) : t[i] \in Pieces
         /\ ToSet(t) = {t[i] : i \in 1 .. Len(t)}
         /\ Covered(t) = UNION {Span(t[i]) : i \in 1 .. Len(t)}
         /\ \A i, j \in 1 .. Len(t) : i < j => End(t[i]) < t[j].base
<1>1. t \in Seq(Pieces)
  BY DEF Sorted
<1> QED
  BY <1>1, LenProperties, ToSetOfSeq DEF Sorted, Covered, Span

(* What a table covers is what its entries do. *)
LEMMA CoveredBy ==
  ASSUME NEW t, Sorted(t)
  PROVE  /\ \A a : a \in Covered(t) <=> \E e \in ToSet(t) : a \in Span(e)
         /\ ToSet(t) \subseteq Pieces
<1>1. /\ \A i \in 1 .. Len(t) : t[i] \in Pieces
      /\ ToSet(t) = {t[i] : i \in 1 .. Len(t)}
      /\ Covered(t) = UNION {Span(t[i]) : i \in 1 .. Len(t)}
  BY SortedFacts
<1> QED
  BY <1>1

(* No two entries of a table touch or overlap. *)
LEMMA EntriesApart ==
  ASSUME NEW t, Sorted(t), NEW e \in ToSet(t), NEW f \in ToSet(t), e # f
  PROVE  ~ memblock_addrs_overlap(e, f) /\ ~ Touch(e, f)
<1>1. PICK i \in 1 .. Len(t), j \in 1 .. Len(t) : e = t[i] /\ f = t[j]
  BY SortedFacts
<1>2. i # j /\ i \in Int /\ j \in Int
  BY <1>1
<1>3. e \in Pieces /\ f \in Pieces
  BY <1>1, SortedFacts
<1>4. End(e) < f.base \/ End(f) < e.base
  BY <1>1, <1>2, SortedFacts
<1>5. /\ e.base \in Nat /\ End(e) \in Nat /\ e.base < End(e)
      /\ f.base \in Nat /\ End(f) \in Nat /\ f.base < End(f)
  BY <1>3, PieceFacts
<1>6. (~ memblock_addrs_overlap(e, f) <=> End(e) <= f.base \/ End(f) <= e.base)
  BY <1>3, OverlapFacts
<1>7. (Touch(e, f) <=> f.base = End(e) \/ e.base = End(f))
  BY <1>3, TouchFacts
<1> QED
  BY <1>4, <1>5, <1>6, <1>7

-----------------------------------------------------------------------------
(* Adding to a table *)

(* Where the entries of a table come from that r was added to. *)
From(u, t, r) ==
  \A e \in ToSet(u) :
    /\ \E f \in ToSet(t) \cup {r} : e.base = f.base
    /\ \E f \in ToSet(t) \cup {r} : End(e) = End(f)
    /\ \/ e \in ToSet(t) \cup {r}
       \/ /\ \E f \in ToSet(t) : Touch(r, f)
          /\ \A c \in Pieces : memblock_addrs_overlap(c, e) =>
               \/ memblock_addrs_overlap(c, r)
               \/ \E f \in ToSet(t) : Touch(r, f) /\ memblock_addrs_overlap(c, f)

(* The sorted insertion keeps a table sorted if the region is clear of all others. *)
LEMMA Inserted ==
  ASSUME NEW t, Sorted(t), NEW r \in Pieces,
         \A i \in 1 .. Len(t) : ~ memblock_addrs_overlap(r, t[i]) /\ ~ Touch(r, t[i])
  PROVE  /\ Sorted(Insert(t, r)) /\ Len(Insert(t, r)) = Len(t) + 1
         /\ ToSet(Insert(t, r)) = ToSet(t) \cup {r}
<1> DEFINE n == Len(t)
           I == {i \in 1 .. n : t[i].base <= r.base}
           l == SelectLastInSeq(t, LAMBDA s : s.base <= r.base)
           p == 1 + l
           u == Insert(t, r)
<1>1. /\ n \in Nat /\ t \in Seq(Pieces) /\ \A i \in 1 .. n : t[i] \in Pieces
      /\ \A i, j \in 1 .. n : i < j => End(t[i]) < t[j].base
      /\ ToSet(t) = {t[i] : i \in 1 .. n}
  BY SortedFacts DEF Sorted
<1>2. \A i \in 1 .. n : /\ t[i].base \in Nat /\ End(t[i]) \in Nat /\ t[i].base < End(t[i])
  BY <1>1, PieceFacts
<1>3. r.base \in Nat /\ End(r) \in Nat /\ r.base < End(r)
  BY PieceFacts
<1>4. l = IF I # {} THEN Max(I) ELSE 0
  BY DEF SelectLastInSeq
<1>5. \A i \in 1 .. n : End(r) < t[i].base \/ End(t[i]) < r.base
  <2> SUFFICES ASSUME NEW i \in 1 .. n PROVE End(r) < t[i].base \/ End(t[i]) < r.base
    OBVIOUS
  <2>0. t[i] \in Pieces
    BY <1>1
  <2>1. ~ memblock_addrs_overlap(r, t[i]) <=> End(r) <= t[i].base \/ End(t[i]) <= r.base
    BY <2>0, OverlapFacts
  <2>2. Touch(r, t[i]) <=> t[i].base = End(r) \/ r.base = End(t[i])
    BY <2>0, TouchFacts
  <2> QED
    BY <1>2, <1>3, <2>1, <2>2
<1>6. u = InsertAt(t, p, r)
  BY DEF Insert
<1> HIDE DEF n, u
<1>7. l \in 0 .. n /\ (l # 0 => t[l].base <= r.base) /\ \A i \in 1 .. n : i > l => ~ (t[i].base <= r.base)
  <2> HIDE DEF l
  <2>1. CASE I = {}
    <3>1. l = 0
      BY <1>4, <2>1
    <3> QED
      BY <1>1, <2>1, <3>1
  <2>2. CASE I # {}
    <3>0. I \subseteq 0 .. n
      OBVIOUS
    <3>1. Max(I) \in I /\ \A m \in I : Max(I) >= m
      <4> HIDE DEF I
      <4> QED
        BY <1>1, <2>2, <3>0, MaxOfNumbers
    <3>2. l = Max(I)
      BY <1>4, <2>2
    <3>3. l \in I /\ \A m \in I : l >= m
      BY <3>1, <3>2
    <3>4. l \in 1 .. n
      BY <3>3
    <3> QED
      BY <1>1, <3>3, <3>4
  <2> QED
    BY <2>1, <2>2
<1> HIDE DEF l, I
<1>8. p \in 1 .. n + 1 /\ p \in Int
  BY <1>1, <1>7
<1>9. \A i \in 1 .. n : i < p => End(t[i]) < r.base
  <2> SUFFICES ASSUME NEW i \in 1 .. n, i < p PROVE End(t[i]) < r.base
    OBVIOUS
  <2>1. i <= l /\ l # 0 /\ l \in 1 .. n
    BY <1>1, <1>7
  <2>2. t[i].base <= t[l].base
    <3>1. CASE i = l
      BY <1>2, <2>1, <3>1
    <3>2. CASE i < l
      <4>1. End(t[i]) < t[l].base
        BY <1>1, <2>1, <3>2
      <4> QED
        BY <1>2, <2>1, <4>1
    <3> QED
      BY <2>1, <3>1, <3>2
  <2>3. t[i].base <= r.base
    BY <1>2, <1>3, <1>7, <2>1, <2>2
  <2> QED
    BY <1>2, <1>3, <1>5, <2>3
<1>10. \A i \in 1 .. n : i >= p => End(r) < t[i].base
  <2> SUFFICES ASSUME NEW i \in 1 .. n, i >= p PROVE End(r) < t[i].base
    OBVIOUS
  <2>1. i > l
    BY <1>7
  <2>2. ~ (t[i].base <= r.base)
    BY <1>7, <2>1
  <2> QED
    BY <1>2, <1>3, <1>5, <2>2
<1> HIDE DEF p
<1>11. /\ u \in Seq(Pieces) /\ Len(u) = n + 1
       /\ \A k \in 1 .. n + 1 : u[k] = IF k < p THEN t[k] ELSE IF k = p THEN r ELSE t[k - 1]
  <2>1. p \in 1 .. Len(t) + 1 /\ t \in Seq(Pieces)
    BY <1>1, <1>8 DEF n
  <2> QED
    BY <1>6, <2>1, InsertedAt DEF n
<1>12. ASSUME NEW i \in 1 .. n + 1, NEW j \in 1 .. n + 1, i < j PROVE End(u[i]) < u[j].base
  <2>1. CASE j < p
    <3>1. i \in 1 .. n /\ j \in 1 .. n /\ i < p /\ u[i] = t[i] /\ u[j] = t[j]
      BY <1>1, <1>8, <1>11, <1>12, <2>1
    <3> QED
      BY <1>1, <1>12, <3>1
  <2>2. CASE j = p
    <3>1. i \in 1 .. n /\ i < p /\ u[i] = t[i] /\ u[j] = r
      BY <1>1, <1>8, <1>11, <1>12, <2>2
    <3> QED
      BY <1>9, <3>1
  <2>3. CASE j > p /\ i < p
    <3>1. i \in 1 .. n /\ j - 1 \in 1 .. n /\ i < j - 1 /\ u[i] = t[i] /\ u[j] = t[j - 1]
      BY <1>1, <1>8, <1>11, <1>12, <2>3
    <3> QED
      BY <1>1, <3>1
  <2>4. CASE j > p /\ i = p
    <3>1. j - 1 \in 1 .. n /\ j - 1 >= p /\ u[i] = r /\ u[j] = t[j - 1]
      BY <1>1, <1>8, <1>11, <1>12, <2>4
    <3> QED
      BY <1>10, <3>1
  <2>5. CASE j > p /\ i > p
    <3>1. i - 1 \in 1 .. n /\ j - 1 \in 1 .. n /\ i - 1 < j - 1 /\ u[i] = t[i - 1] /\ u[j] = t[j - 1]
      BY <1>1, <1>8, <1>11, <1>12, <2>5
    <3> QED
      BY <1>1, <3>1
  <2>6. (j < p \/ j = p \/ j > p) /\ (i < p \/ i = p \/ i > p)
    BY <1>8
  <2> QED
    BY <2>1, <2>2, <2>3, <2>4, <2>5, <2>6
<1>13. Sorted(u)
  BY <1>11, <1>12 DEF Sorted
<1>14. ToSet(u) = ToSet(t) \cup {r}
  <2>1. ToSet(u) = {u[k] : k \in 1 .. n + 1}
    BY <1>11, ToSetOfSeq
  <2>2. ASSUME NEW k \in 1 .. n + 1 PROVE u[k] \in ToSet(t) \cup {r}
    <3>1. k < p => k \in 1 .. n
      BY <1>1, <1>8
    <3>2. k > p => k - 1 \in 1 .. n
      BY <1>1, <1>8
    <3>3. k < p \/ k = p \/ k > p
      BY <1>8
    <3>4. k > p => ~ (k < p) /\ k # p
      BY <1>8
    <3> QED
      BY <1>1, <1>11, <3>1, <3>2, <3>3, <3>4
  <2>3. r \in ToSet(u)
    <3>1. p \in 1 .. n + 1 /\ ~ (p < p)
      BY <1>8
    <3>2. u[p] = r
      BY <1>11, <3>1
    <3> QED
      BY <2>1, <3>1, <3>2
  <2>4. ASSUME NEW i \in 1 .. n PROVE t[i] \in ToSet(u)
    <3>1. CASE i < p
      <4>1. i \in 1 .. n + 1 /\ u[i] = t[i]
        BY <1>1, <1>11, <3>1
      <4> QED
        BY <2>1, <4>1
    <3>2. CASE i >= p
      <4>1. i + 1 \in 1 .. n + 1 /\ ~ (i + 1 < p) /\ i + 1 # p /\ (i + 1) - 1 = i
        BY <1>1, <1>8, <3>2
      <4>2. u[i + 1] = t[(i + 1) - 1]
        BY <1>11, <4>1
      <4> QED
        BY <2>1, <4>1, <4>2
    <3> QED
      BY <1>8, <3>1, <3>2
  <2> QED
    BY <1>1, <2>1, <2>2, <2>3, <2>4
<1> QED
  BY <1>11, <1>13, <1>14 DEF n, u

(* An entry that is shrunk, grown or taken out. *)
LEMMA ReplacedEntry ==
  ASSUME NEW t, Sorted(t), NEW i \in 1 .. Len(t), NEW g \in Pieces,
         \A k \in 1 .. Len(t) : k < i => End(t[k]) < g.base,
         \A k \in 1 .. Len(t) : k > i => End(g) < t[k].base
  PROVE  /\ Sorted(ReplaceAt(t, i, g)) /\ Len(ReplaceAt(t, i, g)) = Len(t)
         /\ ToSet(ReplaceAt(t, i, g)) = (ToSet(t) \ {t[i]}) \cup {g}
<1> DEFINE n == Len(t)
           u == ReplaceAt(t, i, g)
<1>1. /\ n \in Nat /\ t \in Seq(Pieces) /\ \A k \in 1 .. n : t[k] \in Pieces
      /\ \A k, j \in 1 .. n : k < j => End(t[k]) < t[j].base
      /\ ToSet(t) = {t[k] : k \in 1 .. n}
  BY SortedFacts DEF Sorted
<1>2. u \in Seq(Pieces) /\ Len(u) = n /\ \A k \in 1 .. n : u[k] = IF k = i THEN g ELSE t[k]
  BY <1>1, ReplacedAt
<1>3. ToSet(u) = {u[k] : k \in 1 .. n}
  BY <1>2, ToSetOfSeq
<1>4. i \in 1 .. n /\ i \in Int
  OBVIOUS
<1>5. /\ \A k \in 1 .. n : k < i => End(t[k]) < g.base
      /\ \A k \in 1 .. n : k > i => End(g) < t[k].base
  OBVIOUS
<1> HIDE DEF n, u
<1>6. ASSUME NEW k \in 1 .. n, NEW j \in 1 .. n, k < j PROVE End(u[k]) < u[j].base
  <2>1. CASE k = i
    <3>1. j > i /\ j # i /\ u[k] = g /\ u[j] = t[j]
      BY <1>2, <1>4, <1>6, <2>1
    <3> QED
      BY <1>5, <3>1
  <2>2. CASE j = i
    <3>1. k < i /\ k # i /\ u[k] = t[k] /\ u[j] = g
      BY <1>2, <1>4, <1>6, <2>2
    <3> QED
      BY <1>5, <3>1
  <2>3. CASE k # i /\ j # i
    BY <1>1, <1>2, <1>6, <2>3
  <2> QED
    BY <2>1, <2>2, <2>3
<1>7. \A k \in 1 .. n : k # i => t[k] # t[i]
  <2> SUFFICES ASSUME NEW k \in 1 .. n, k # i, t[k] = t[i] PROVE FALSE
    OBVIOUS
  <2>1. End(t[i]) < t[i].base
    BY <1>1, <1>4
  <2> QED
    BY <1>1, <1>4, <2>1, PieceFacts
<1>8. ToSet(u) = (ToSet(t) \ {t[i]}) \cup {g}
  <2>1. ASSUME NEW k \in 1 .. n PROVE u[k] \in (ToSet(t) \ {t[i]}) \cup {g}
    BY <1>1, <1>2, <1>7
  <2>2. g \in ToSet(u)
    <3>1. u[i] = g
      BY <1>2, <1>4
    <3> QED
      BY <1>3, <1>4, <3>1
  <2>3. ASSUME NEW k \in 1 .. n, t[k] # t[i] PROVE t[k] \in ToSet(u)
    <3>1. u[k] = t[k]
      BY <1>2, <2>3
    <3> QED
      BY <1>3, <3>1
  <2> QED
    BY <1>1, <1>3, <2>1, <2>2, <2>3
<1> QED
  BY <1>2, <1>6, <1>8 DEF Sorted, n, u

(* An entry left out keeps a table sorted. *)
LEMMA RemovedEntry ==
  ASSUME NEW t, Sorted(t), NEW i \in 1 .. Len(t)
  PROVE  /\ Sorted(RemoveAt(t, i)) /\ Len(RemoveAt(t, i)) = Len(t) - 1
         /\ ToSet(RemoveAt(t, i)) = ToSet(t) \ {t[i]}
<1> DEFINE n == Len(t)
           u == RemoveAt(t, i)
<1>1. /\ n \in Nat /\ t \in Seq(Pieces) /\ \A k \in 1 .. n : t[k] \in Pieces
      /\ \A k, j \in 1 .. n : k < j => End(t[k]) < t[j].base
      /\ ToSet(t) = {t[k] : k \in 1 .. n}
  BY SortedFacts DEF Sorted
<1>2. u \in Seq(Pieces) /\ Len(u) = n - 1 /\ \A k \in 1 .. n - 1 : u[k] = IF k < i THEN t[k] ELSE t[k + 1]
  BY <1>1, RemovedAt
<1>3. ToSet(u) = {u[k] : k \in 1 .. n - 1}
  BY <1>2, ToSetOfSeq
<1>4. i \in 1 .. n /\ i \in Int
  OBVIOUS
<1> HIDE DEF n, u
<1> DEFINE at(k) == IF k < i THEN k ELSE k + 1
<1>5. /\ \A k \in 1 .. n - 1 : at(k) \in 1 .. n /\ at(k) # i /\ u[k] = t[at(k)]
      /\ \A k, j \in 1 .. n - 1 : k < j => at(k) < at(j)
  BY <1>1, <1>2, <1>4
<1>6. \A m \in 1 .. n : m # i => \E k \in 1 .. n - 1 : at(k) = m
  <2> SUFFICES ASSUME NEW m \in 1 .. n, m # i PROVE \E k \in 1 .. n - 1 : at(k) = m
    OBVIOUS
  <2>1. CASE m < i
    <3>1. m \in 1 .. n - 1 /\ at(m) = m
      BY <1>1, <1>4, <2>1
    <3> QED
      BY <3>1
  <2>2. CASE m > i
    <3>1. m - 1 \in 1 .. n - 1 /\ at(m - 1) = m
      BY <1>1, <1>4, <2>2
    <3> QED
      BY <3>1
  <2> QED
    BY <1>4, <2>1, <2>2
<1> HIDE DEF at
<1>7. ASSUME NEW k \in 1 .. n - 1, NEW j \in 1 .. n - 1, k < j PROVE End(u[k]) < u[j].base
  BY <1>1, <1>5, <1>7
<1>8. \A k \in 1 .. n : k # i => t[k] # t[i]
  <2> SUFFICES ASSUME NEW k \in 1 .. n, k # i, t[k] = t[i] PROVE FALSE
    OBVIOUS
  <2>1. End(t[i]) < t[i].base
    BY <1>1, <1>4
  <2> QED
    BY <1>1, <1>4, <2>1, PieceFacts
<1>9. ToSet(u) = ToSet(t) \ {t[i]}
  <2>1. ASSUME NEW k \in 1 .. n - 1 PROVE u[k] \in ToSet(t) \ {t[i]}
    BY <1>1, <1>5, <1>8
  <2>2. ASSUME NEW m \in 1 .. n, t[m] # t[i] PROVE t[m] \in ToSet(u)
    BY <1>3, <1>5, <1>6, <2>2
  <2> QED
    BY <1>1, <1>3, <2>1, <2>2
<1> QED
  BY <1>2, <1>7, <1>9 DEF Sorted, n, u

(* What regions cover together. *)
Area(S) == UNION {Span(e) : e \in S}

(* A table whose entries Out are exchanged for In, which covers More and no longer Less. *)
Exchanged(u, t, Out, In, More, Less) ==
  /\ Sorted(t) /\ Sorted(u) /\ Out \subseteq ToSet(t) /\ In \subseteq Pieces
  /\ ToSet(u) = (ToSet(t) \ Out) \cup In
  /\ Area(In) = (Area(Out) \cup More) \ Less
  /\ \A e \in ToSet(t) \ Out : Span(e) \cap Less = {}
  /\ More \cap Less = {}

(* What a table covers after some entries made way for others. *)
LEMMA CoveredAfter ==
  ASSUME NEW t, NEW u, NEW Out, NEW In, NEW More, NEW Less,
         Exchanged(u, t, Out, In, More, Less)
  PROVE  Covered(u) = (Covered(t) \cup More) \ Less
<1> USE DEF Exchanged
<1>1. /\ \A a : a \in Covered(t) <=> \E e \in ToSet(t) : a \in Span(e)
      /\ \A a : a \in Covered(u) <=> \E e \in ToSet(u) : a \in Span(e)
  BY CoveredBy
<1>2. ASSUME NEW a \in Covered(u) PROVE a \in (Covered(t) \cup More) \ Less
  <2>1. PICK e \in ToSet(u) : a \in Span(e)
    BY <1>1, <1>2
  <2>2. CASE e \in ToSet(t) \ Out
    BY <1>1, <2>1, <2>2
  <2>3. CASE e \in In
    <3>1. a \in (Area(Out) \cup More) \ Less
      BY <2>1, <2>3 DEF Area
    <3>2. CASE a \in More
      BY <3>1, <3>2
    <3>3. CASE a \in Area(Out)
      <4>1. PICK f \in Out : a \in Span(f)
        BY <3>3 DEF Area
      <4>2. a \in Covered(t)
        BY <1>1, <4>1
      <4> QED
        BY <3>1, <4>2
    <3> QED
      BY <3>1, <3>2, <3>3
  <2> QED
    BY <2>1, <2>2, <2>3
<1>3. ASSUME NEW a \in (Covered(t) \cup More) \ Less PROVE a \in Covered(u)
  <2>1. CASE \E e \in ToSet(t) \ Out : a \in Span(e)
    BY <1>1, <2>1
  <2>2. CASE a \in (Area(Out) \cup More) \ Less
    <3>1. PICK e \in In : a \in Span(e)
      BY <2>2 DEF Area
    <3> QED
      BY <1>1, <3>1
  <2>3. CASE a \in More
    BY <1>3, <2>2, <2>3
  <2>4. CASE a \in Covered(t)
    <3>1. PICK e \in ToSet(t) : a \in Span(e)
      BY <1>1, <2>4
    <3>2. CASE e \in Out
      <4>1. a \in Area(Out)
        BY <3>1, <3>2 DEF Area
      <4> QED
        BY <1>3, <2>2, <4>1
    <3>3. CASE e \notin Out
      BY <2>1, <3>1, <3>3
    <3> QED
      BY <3>2, <3>3
  <2> QED
    BY <1>3, <2>3, <2>4
<1> QED
  BY <1>2, <1>3

(* Where the region that is added touches one entry from below or above. *)
FirstTouch(t, r, i) ==
  /\ i \in 1 .. Len(t) /\ Touch(r, t[i])
  /\ \A k \in 1 .. Len(t) : k < i => ~ Touch(r, t[k])
  /\ \A k \in 1 .. Len(t) : ~ memblock_addrs_overlap(r, t[k])

(* Where the other entries are when the first one that touches r is above or below it. *)
LEMMA TouchPlaces ==
  ASSUME NEW t, Sorted(t), NEW r \in Pieces, NEW i, FirstTouch(t, r, i)
  PROVE  /\ t[i].base = End(r) \/ r.base = End(t[i])
         /\ t[i].base = End(r) => \A k \in 1 .. Len(t) : k < i => End(t[k]) < r.base
         /\ r.base = End(t[i]) => \A k \in 1 .. Len(t) : k > i => End(r) <= t[k].base
<1> DEFINE n == Len(t)
<1>1. /\ n \in Nat /\ \A k \in 1 .. n : t[k] \in Pieces
      /\ \A k, j \in 1 .. n : k < j => End(t[k]) < t[j].base
  BY SortedFacts
<1>2. \A k \in 1 .. n : /\ t[k].base \in Nat /\ End(t[k]) \in Nat /\ t[k].base < End(t[k])
  BY <1>1, PieceFacts
<1>3. r.base \in Nat /\ End(r) \in Nat /\ r.base < End(r)
  BY PieceFacts
<1>4. i \in 1 .. n /\ i \in Int /\ Touch(r, t[i])
  BY DEF FirstTouch
<1>5. \A k \in 1 .. n : k < i => ~ Touch(r, t[k])
  BY DEF FirstTouch
<1>6. \A k \in 1 .. n : End(r) <= t[k].base \/ End(t[k]) <= r.base
  BY <1>1, OverlapFacts DEF FirstTouch
<1>7. \A k \in 1 .. n : Touch(r, t[k]) <=> t[k].base = End(r) \/ r.base = End(t[k])
  BY <1>1, TouchFacts
<1> HIDE DEF n
<1>8. ASSUME t[i].base = End(r), NEW k \in 1 .. n, k < i PROVE End(t[k]) < r.base
  <2>1. End(t[k]) < t[i].base
    BY <1>1, <1>4, <1>8
  <2>2. t[k].base # End(r) /\ r.base # End(t[k])
    BY <1>5, <1>7, <1>8
  <2> QED
    BY <1>2, <1>3, <1>6, <1>8, <2>1, <2>2
<1>9. ASSUME r.base = End(t[i]), NEW k \in 1 .. n, k > i PROVE End(r) <= t[k].base
  <2>1. End(t[i]) < t[k].base
    BY <1>1, <1>4, <1>9
  <2> QED
    BY <1>2, <1>3, <1>6, <1>9, <2>1
<1>10. t[i].base = End(r) \/ r.base = End(t[i])
  BY <1>4, <1>7
<1> QED
  BY <1>8, <1>9, <1>10 DEF n

(* What grows holds what it held, what is added, and what it swallows. *)
LEMMA SpansJoined ==
  ASSUME NEW a \in Pieces, NEW b \in Pieces, End(a) = b.base,
         NEW g \in Pieces, g.base = a.base, End(g) = End(b)
  PROVE  Span(g) = Span(a) \cup Span(b)
<1>1. /\ a.base \in Nat /\ End(a) \in Nat /\ a.base < End(a)
      /\ b.base \in Nat /\ End(b) \in Nat /\ b.base < End(b)
  BY PieceFacts
<1> QED
  BY <1>1 DEF Span

(* One step of the growth: an entry exchanged for one that holds r too, and at
   most one more, that touches r, taken out.                               *)
LEMMA GrownBy ==
  ASSUME NEW t, Sorted(t), NEW r \in Pieces, NEW u, Sorted(u), NEW g \in Pieces,
         NEW Out \in SUBSET ToSet(t), ToSet(u) = (ToSet(t) \ Out) \cup {g},
         Out # {}, \A e \in Out : Touch(r, e),
         Span(g) = Area(Out) \cup Span(r),
         \E f \in ToSet(t) \cup {r} : g.base = f.base,
         \E f \in ToSet(t) \cup {r} : End(g) = End(f)
  PROVE  Covered(u) = Covered(t) \cup Span(r) /\ From(u, t, r)
<1>1. Covered(u) = (Covered(t) \cup Span(r)) \ {}
  <2>1. Area({g}) = (Area(Out) \cup Span(r)) \ {}
    BY DEF Area
  <2>2. Exchanged(u, t, Out, {g}, Span(r), {})
    BY <2>1 DEF Exchanged
  <2> QED
    BY <2>2, CoveredAfter
<1>2. ToSet(t) \subseteq Pieces
  BY CoveredBy
<1>3. ASSUME NEW c \in Pieces, memblock_addrs_overlap(c, g)
      PROVE  \/ memblock_addrs_overlap(c, r)
             \/ \E f \in ToSet(t) : Touch(r, f) /\ memblock_addrs_overlap(c, f)
  <2>1. PICK a \in Span(c) : a \in Span(g)
    BY <1>3, OverlapFacts
  <2>2. CASE a \in Span(r)
    BY <2>1, <2>2, OverlapFacts
  <2>3. CASE a \in Area(Out)
    <3>1. PICK e \in Out : a \in Span(e)
      BY <2>3 DEF Area
    <3>2. e \in Pieces
      BY <1>2
    <3>3. memblock_addrs_overlap(c, e)
      BY <2>1, <3>1, <3>2, OverlapFacts
    <3> QED
      BY <3>3
  <2> QED
    BY <2>1, <2>2, <2>3
<1>4. ASSUME NEW e \in ToSet(u)
      PROVE  /\ \E f \in ToSet(t) \cup {r} : e.base = f.base
             /\ \E f \in ToSet(t) \cup {r} : End(e) = End(f)
             /\ \/ e \in ToSet(t) \cup {r}
                \/ /\ \E f \in ToSet(t) : Touch(r, f)
                   /\ \A c \in Pieces : memblock_addrs_overlap(c, e) =>
                        \/ memblock_addrs_overlap(c, r)
                        \/ \E f \in ToSet(t) : Touch(r, f) /\ memblock_addrs_overlap(c, f)
  <2>1. CASE e = g
    <3>1. \E f \in ToSet(t) : Touch(r, f)
      OBVIOUS
    <3> QED
      BY <1>3, <2>1, <3>1
  <2>2. CASE e \in ToSet(t)
    BY <2>2
  <2> QED
    BY <2>1, <2>2
<1> QED
  BY <1>1, <1>4 DEF From

(* The result of a growth, as the entries that were there see it. *)
GrownTo(u, t, r) ==
  /\ Sorted(u) /\ Len(u) \in 1 .. Len(t)
  /\ Covered(u) = Covered(t) \cup Span(r)
  /\ From(u, t, r)

(* The region above r grows down; what lies below stays clear of it. *)
LEMMA GrowDown ==
  ASSUME NEW t, Sorted(t), NEW r \in Pieces, NEW i, FirstTouch(t, r, i), t[i].base = End(r)
  PROVE  GrownTo(Grow(t, i, r), t, r)
<1> DEFINE n == Len(t)
           e == t[i]
           g == Region(r.base, e.size + r.size)
           grown == ReplaceAt(t, i, g)
<1>1. /\ n \in Nat /\ t \in Seq(Pieces) /\ \A k \in 1 .. n : t[k] \in Pieces /\ t[k] \in ToSet(t)
      /\ \A k, j \in 1 .. n : k < j => End(t[k]) < t[j].base
  BY SortedFacts DEF Sorted
<1>2. i \in 1 .. n /\ i \in Int /\ Touch(r, e) /\ e \in Pieces /\ e \in ToSet(t)
  BY <1>1 DEF FirstTouch
<1>3. /\ r.base \in Nat /\ r.size \in Nat \ {0} /\ End(r) = r.base + r.size
      /\ e.base \in Nat /\ e.size \in Nat \ {0} /\ End(e) = e.base + e.size /\ End(e) <= Limit
      /\ e.base = End(r)
  BY <1>2, PieceFacts
<1>4. g \in Pieces /\ g.base = r.base /\ End(g) = End(e)
  <2>1. /\ r.base \in Int /\ e.size + r.size \in Int /\ r.base >= 0 /\ e.size + r.size > 0
        /\ r.base + (e.size + r.size) = End(e)
    BY <1>3
  <2>2. r.base + (e.size + r.size) <= Limit
    BY <1>3, <2>1
  <2> QED
    BY <2>1, <2>2, PieceOf
<1>5. Span(g) = Area({e}) \cup Span(r)
  <2>1. Span(g) = Span(r) \cup Span(e)
    <3> HIDE DEF g, e
    <3> QED
      BY <1>2, <1>3, <1>4, SpansJoined
  <2> QED
    BY <2>1 DEF Area
<1>6. \A k \in 1 .. n : k < i => End(t[k]) < g.base
  BY <1>3, <1>4, TouchPlaces
<1>7. \A k \in 1 .. n : k > i => End(g) < t[k].base
  BY <1>1, <1>2, <1>4
<1>8. memblock_addrs_adjacent(r, e) > 0
  BY <1>2, <1>3, TouchFacts
<1> HIDE DEF g
<1>9. Sorted(grown) /\ Len(grown) = n /\ ToSet(grown) = (ToSet(t) \ {e}) \cup {g}
  BY <1>2, <1>4, <1>6, <1>7, ReplacedEntry
<1>10. \A k \in 1 .. n : grown[k] = IF k = i THEN g ELSE t[k]
  <2>1. DOMAIN t = 1 .. n
    BY SortedFacts
  <2> QED
    BY <2>1 DEF ReplaceAt
<1>11. i < n => ~ Touch(grown[i], grown[i + 1])
  <2> SUFFICES ASSUME i < n PROVE ~ Touch(g, t[i + 1])
    BY <1>1, <1>2, <1>10
  <2>1. i + 1 \in 1 .. n /\ i + 1 > i
    BY <1>1, <1>2
  <2>2. End(g) < t[i + 1].base /\ t[i + 1] \in Pieces
    BY <1>1, <1>7, <2>1
  <2>3. /\ t[i + 1].base \in Nat /\ End(t[i + 1]) \in Nat /\ t[i + 1].base < End(t[i + 1])
        /\ g.base \in Nat /\ End(g) \in Nat /\ g.base < End(g)
    BY <1>4, <2>2, PieceFacts
  <2> QED
    BY <1>4, <2>2, <2>3, TouchFacts
<1>12. Grow(t, i, r) = grown
  <2>1. Grow(t, i, r) = IF i < n /\ Touch(grown[i], grown[i + 1]) THEN CoalesceNext(grown, i) ELSE grown
    BY <1>8 DEF Grow, Touch, g
  <2> QED
    BY <1>11, <2>1
<1>13. Covered(grown) = Covered(t) \cup Span(r) /\ From(grown, t, r)
  <2> DEFINE Out == {e}
  <2>1. Out \in SUBSET ToSet(t) /\ Out # {} /\ (\A f \in Out : Touch(r, f)) /\ Span(g) = Area(Out) \cup Span(r)
    BY <1>2, <1>5
  <2>2. ToSet(grown) = (ToSet(t) \ Out) \cup {g}
    BY <1>9
  <2>3. (\E f \in ToSet(t) \cup {r} : g.base = f.base) /\ (\E f \in ToSet(t) \cup {r} : End(g) = End(f))
    BY <1>2, <1>4
  <2> HIDE DEF Out, grown
  <2> QED
    BY <1>4, <1>9, <2>1, <2>2, <2>3, GrownBy
<1> QED
  BY <1>1, <1>2, <1>9, <1>12, <1>13 DEF GrownTo

(* The region below r grows up and meets no other. *)
LEMMA GrowUp ==
  ASSUME NEW t, Sorted(t), NEW r \in Pieces, NEW i, FirstTouch(t, r, i), t[i].base # End(r),
         r.base = End(t[i]), i = Len(t) \/ t[i + 1].base # End(r)
  PROVE  GrownTo(Grow(t, i, r), t, r)
<1> DEFINE n == Len(t)
           e == t[i]
           g == Region(e.base, e.size + r.size)
           grown == ReplaceAt(t, i, g)
<1>1. /\ n \in Nat /\ t \in Seq(Pieces) /\ \A k \in 1 .. n : t[k] \in Pieces /\ t[k] \in ToSet(t)
      /\ \A k, j \in 1 .. n : k < j => End(t[k]) < t[j].base
  BY SortedFacts DEF Sorted
<1>2. i \in 1 .. n /\ i \in Int /\ Touch(r, e) /\ e \in Pieces /\ e \in ToSet(t)
  BY <1>1 DEF FirstTouch
<1>3. /\ r.base \in Nat /\ r.size \in Nat \ {0} /\ End(r) = r.base + r.size /\ End(r) <= Limit
      /\ e.base \in Nat /\ e.size \in Nat \ {0} /\ End(e) = e.base + e.size
      /\ r.base = End(e)
  BY <1>2, PieceFacts
<1>4. g \in Pieces /\ g.base = e.base /\ End(g) = End(r)
  <2>1. /\ e.base \in Int /\ e.size + r.size \in Int /\ e.base >= 0 /\ e.size + r.size > 0
        /\ e.base + (e.size + r.size) = End(r)
    BY <1>3
  <2>2. e.base + (e.size + r.size) <= Limit
    BY <1>3, <2>1
  <2> QED
    BY <2>1, <2>2, PieceOf
<1>5. Span(g) = Area({e}) \cup Span(r)
  <2>1. Span(g) = Span(e) \cup Span(r)
    <3> HIDE DEF g, e
    <3> QED
      BY <1>2, <1>3, <1>4, SpansJoined
  <2> QED
    BY <2>1 DEF Area
<1>6. \A k \in 1 .. n : k < i => End(t[k]) < g.base
  BY <1>1, <1>2, <1>4
<1>7. \A k \in 1 .. n : k > i => End(g) < t[k].base
  <2> SUFFICES ASSUME NEW k \in 1 .. n, k > i PROVE End(r) < t[k].base
    BY <1>4
  <2>1. End(r) <= t[k].base
    BY <1>3, TouchPlaces
  <2>2. t[k] \in Pieces /\ t[k].base \in Nat /\ End(r) \in Nat
    BY <1>1, PieceFacts
  <2>3. i + 1 \in 1 .. n /\ i # Len(t)
    BY <1>1, <1>2
  <2>4. t[i + 1].base # End(r) /\ End(r) <= t[i + 1].base /\ t[i + 1] \in Pieces
    BY <1>1, <1>2, <1>3, <2>3, TouchPlaces
  <2>5. t[i + 1].base \in Nat /\ End(t[i + 1]) \in Nat /\ t[i + 1].base < End(t[i + 1])
    BY <2>4, PieceFacts
  <2>6. CASE k = i + 1
    BY <2>2, <2>4, <2>5, <2>6
  <2>7. CASE k > i + 1
    <3>1. End(t[i + 1]) < t[k].base
      BY <1>1, <2>3, <2>7
    <3> QED
      BY <2>2, <2>4, <2>5, <3>1
  <2> QED
    BY <1>2, <2>6, <2>7
<1>8. ~ (memblock_addrs_adjacent(r, e) > 0)
  BY <1>2, TouchFacts
<1> HIDE DEF g
<1>9. Sorted(grown) /\ Len(grown) = n /\ ToSet(grown) = (ToSet(t) \ {e}) \cup {g}
  BY <1>2, <1>4, <1>6, <1>7, ReplacedEntry
<1>10. \A k \in 1 .. n : grown[k] = IF k = i THEN g ELSE t[k]
  <2>1. DOMAIN t = 1 .. n
    BY SortedFacts
  <2> QED
    BY <2>1 DEF ReplaceAt
<1>11. i < n => ~ Touch(grown[i], grown[i + 1])
  <2> SUFFICES ASSUME i < n PROVE ~ Touch(g, t[i + 1])
    BY <1>1, <1>2, <1>10
  <2>1. i + 1 \in 1 .. n /\ i + 1 > i
    BY <1>1, <1>2
  <2>2. End(g) < t[i + 1].base /\ t[i + 1] \in Pieces
    BY <1>1, <1>7, <2>1
  <2>3. /\ t[i + 1].base \in Nat /\ End(t[i + 1]) \in Nat /\ t[i + 1].base < End(t[i + 1])
        /\ g.base \in Nat /\ End(g) \in Nat /\ g.base < End(g)
    BY <1>4, <2>2, PieceFacts
  <2> QED
    BY <1>4, <2>2, <2>3, TouchFacts
<1>12. Grow(t, i, r) = grown
  <2>1. Grow(t, i, r) = IF i < n /\ Touch(grown[i], grown[i + 1]) THEN CoalesceNext(grown, i) ELSE grown
    BY <1>8 DEF Grow, Touch, g
  <2> QED
    BY <1>11, <2>1
<1>13. Covered(grown) = Covered(t) \cup Span(r) /\ From(grown, t, r)
  <2> DEFINE Out == {e}
  <2>1. Out \in SUBSET ToSet(t) /\ Out # {} /\ (\A f \in Out : Touch(r, f)) /\ Span(g) = Area(Out) \cup Span(r)
    BY <1>2, <1>5
  <2>2. ToSet(grown) = (ToSet(t) \ Out) \cup {g}
    BY <1>9
  <2>3. (\E f \in ToSet(t) \cup {r} : g.base = f.base) /\ (\E f \in ToSet(t) \cup {r} : End(g) = End(f))
    BY <1>2, <1>4
  <2> HIDE DEF Out, grown
  <2> QED
    BY <1>4, <1>9, <2>1, <2>2, <2>3, GrownBy
<1> QED
  BY <1>1, <1>2, <1>9, <1>12, <1>13 DEF GrownTo

(* The hole between two entries is plugged: the upper one is swallowed. *)
LEMMA GrowTogether ==
  ASSUME NEW t, Sorted(t), NEW r \in Pieces, NEW i, FirstTouch(t, r, i), t[i].base # End(r),
         r.base = End(t[i]), i < Len(t), t[i + 1].base = End(r)
  PROVE  GrownTo(Grow(t, i, r), t, r)
<1> DEFINE n == Len(t)
           e == t[i]
           f == t[i + 1]
           g == Region(e.base, e.size + r.size)
           h == Region(e.base, (e.size + r.size) + f.size)
           w == RemoveAt(t, i + 1)
           u == ReplaceAt(w, i, h)
<1>1. /\ n \in Nat /\ t \in Seq(Pieces) /\ \A k \in 1 .. n : t[k] \in Pieces /\ t[k] \in ToSet(t)
      /\ \A k, j \in 1 .. n : k < j => End(t[k]) < t[j].base
      /\ DOMAIN t = 1 .. n
  BY SortedFacts DEF Sorted
<1>2. i \in 1 .. n /\ i \in Int /\ Touch(r, e) /\ e \in Pieces /\ e \in ToSet(t)
  BY <1>1 DEF FirstTouch
<1>3. i + 1 \in 1 .. n /\ f \in Pieces /\ f \in ToSet(t) /\ i < n
  BY <1>1, <1>2
<1>4. /\ r.base \in Nat /\ r.size \in Nat \ {0} /\ End(r) = r.base + r.size
      /\ e.base \in Nat /\ e.size \in Nat \ {0} /\ End(e) = e.base + e.size
      /\ f.base \in Nat /\ f.size \in Nat \ {0} /\ End(f) = f.base + f.size /\ End(f) <= Limit
      /\ r.base = End(e) /\ f.base = End(r)
  BY <1>2, <1>3, PieceFacts
<1>5. g \in Pieces /\ g.base = e.base /\ End(g) = End(r) /\ g.size = e.size + r.size
  <2>0. e.base + (e.size + r.size) = End(r)
    <3> HIDE DEF e
    <3> QED
      BY <1>4
  <2>1. e.base \in Int /\ e.size + r.size \in Int /\ e.base >= 0 /\ e.size + r.size > 0
    BY <1>4
  <2>2. e.base + (e.size + r.size) <= Limit
    BY <1>4, <2>0, LimitAssumption
  <2> QED
    BY <2>0, <2>1, <2>2, PieceOf
<1>6. h \in Pieces /\ h.base = e.base /\ End(h) = End(f)
  <2>01. ((e.base + e.size) + r.size) + f.size = End(f)
    BY <1>4
  <2>1. /\ e.base \in Int /\ (e.size + r.size) + f.size \in Int /\ e.base >= 0
        /\ (e.size + r.size) + f.size > 0
        /\ e.base + ((e.size + r.size) + f.size) = ((e.base + e.size) + r.size) + f.size
    <3> DEFINE b == e.base
               x == e.size
               y == r.size
               z == f.size
    <3>1. b \in Nat /\ x \in Nat \ {0} /\ y \in Nat \ {0} /\ z \in Nat \ {0}
      BY <1>4
    <3> HIDE DEF b, x, y, z
    <3>2. /\ b \in Int /\ b >= 0 /\ (x + y) + z \in Int /\ (x + y) + z > 0
          /\ b + ((x + y) + z) = ((b + x) + y) + z
      BY <3>1
    <3> QED
      BY <3>2 DEF b, x, y, z
  <2>2. e.base + ((e.size + r.size) + f.size) <= Limit
    BY <1>4, <2>01, <2>1
  <2> QED
    BY <2>01, <2>1, <2>2, PieceOf
<1>7. Span(h) = Area({e, f}) \cup Span(r)
  <2>1. Span(g) = Span(e) \cup Span(r)
    <3> HIDE DEF g, e
    <3> QED
      BY <1>2, <1>4, <1>5, SpansJoined
  <2>2. Span(h) = Span(g) \cup Span(f)
    <3> HIDE DEF h, g, e, f
    <3> QED
      BY <1>3, <1>4, <1>5, <1>6, SpansJoined
  <2> QED
    BY <2>1, <2>2 DEF Area
<1>8. Touch(r, f)
  BY <1>3, <1>4, TouchFacts
<1> HIDE DEF h, g
<1>9. /\ Sorted(w) /\ Len(w) = n - 1 /\ ToSet(w) = ToSet(t) \ {f}
      /\ \A k \in 1 .. n - 1 : w[k] = IF k < i + 1 THEN t[k] ELSE t[k + 1]
  <2>1. t \in Seq(Pieces) /\ i + 1 \in 1 .. Len(t)
    BY <1>1, <1>3
  <2>2. Sorted(w) /\ Len(w) = n - 1 /\ ToSet(w) = ToSet(t) \ {f}
    BY <2>1, RemovedEntry
  <2>3. \A k \in 1 .. Len(t) - 1 : w[k] = IF k < i + 1 THEN t[k] ELSE t[k + 1]
    BY <2>1, RemovedAt
  <2> QED
    BY <2>2, <2>3
<1> HIDE DEF w
<1>10. i \in 1 .. n - 1 /\ w[i] = e
  BY <1>1, <1>2, <1>3, <1>9
<1>11. /\ Sorted(u) /\ Len(u) = n - 1 /\ ToSet(u) = (ToSet(w) \ {e}) \cup {h}
       /\ \A k \in 1 .. n - 1 : u[k] = IF k = i THEN h ELSE w[k]
  <2>1. /\ Len(w) = n - 1 /\ w \in Seq(Pieces) /\ DOMAIN w = 1 .. n - 1
        /\ \A k, j \in 1 .. n - 1 : k < j => End(w[k]) < w[j].base
    BY <1>9, SortedFacts DEF Sorted
  <2>2. \A k \in 1 .. n - 1 : k < i => End(w[k]) < h.base
    BY <1>6, <1>10, <2>1
  <2>3. ASSUME NEW k \in 1 .. n - 1, k > i PROVE End(h) < w[k].base
    <3>1. k + 1 \in 1 .. n /\ i + 1 < k + 1 /\ ~ (k < i + 1)
      BY <1>1, <1>2, <2>3
    <3>2. w[k] = t[k + 1]
      BY <1>9, <3>1
    <3>3. End(t[i + 1]) < t[k + 1].base
      BY <1>1, <1>3, <3>1
    <3> QED
      BY <1>6, <3>2, <3>3
  <2>4. i \in 1 .. Len(w)
    BY <1>10, <2>1
  <2>5. Sorted(u) /\ Len(u) = n - 1 /\ ToSet(u) = (ToSet(w) \ {w[i]}) \cup {h}
    <3>1. \A k \in 1 .. Len(w) : k < i => End(w[k]) < h.base
      BY <2>1, <2>2
    <3>2. \A k \in 1 .. Len(w) : k > i => End(h) < w[k].base
      BY <2>1, <2>3
    <3>3. Sorted(u) /\ Len(u) = Len(w) /\ ToSet(u) = (ToSet(w) \ {w[i]}) \cup {h}
      <4>1. h \in Pieces /\ Sorted(w)
        BY <1>6, <1>9
      <4> HIDE DEF e, f, n
      <4> QED
        BY <4>1, <2>4, <3>1, <3>2, ReplacedEntry
    <3> QED
      BY <2>1, <3>3
  <2>6. \A k \in 1 .. n - 1 : u[k] = IF k = i THEN h ELSE w[k]
    BY <2>1 DEF ReplaceAt
  <2> QED
    BY <1>10, <2>5, <2>6
<1>12. Grow(t, i, r) = u
  <2> DEFINE grown == ReplaceAt(t, i, g)
             again == ReplaceAt(grown, i, Region(grown[i].base, grown[i].size + grown[i + 1].size))
  <2>1. ~ (memblock_addrs_adjacent(r, e) > 0)
    BY <1>2, TouchFacts
  <2>2. Grow(t, i, r) = IF i < n /\ Touch(grown[i], grown[i + 1]) THEN CoalesceNext(grown, i) ELSE grown
    BY <2>1 DEF Grow, Touch, g
  <2>3. grown \in Seq(Pieces) /\ Len(grown) = n
    BY <1>1, <1>2, <1>5, ReplacedAt
  <2>4. \A k \in 1 .. n : grown[k] = IF k = i THEN g ELSE t[k]
    BY <1>1 DEF ReplaceAt
  <2>5. grown[i] = g /\ grown[i + 1] = f
    BY <1>2, <1>3, <2>4
  <2> HIDE DEF grown
  <2>6. Touch(g, f)
    BY <1>3, <1>4, <1>5, TouchFacts
  <2>7. again = ReplaceAt(grown, i, h)
    <3>1. Region(g.base, g.size + f.size) = h
      BY <1>5 DEF h
    <3> QED
      BY <2>5, <3>1
  <2>8. Grow(t, i, r) = RemoveAt(again, i + 1)
    BY <1>3, <2>2, <2>5, <2>6 DEF CoalesceNext
  <2>9. DOMAIN grown = 1 .. n /\ i \in 1 .. Len(grown)
    BY <1>2, <2>3, LenProperties
  <2> HIDE DEF again, n
  <2>10. again \in Seq(Pieces) /\ Len(again) = n
    BY <1>6, <2>3, <2>7, <2>9, ReplacedAt
  <2>11. \A k \in 1 .. n : again[k] = IF k = i THEN h ELSE grown[k]
    BY <2>7, <2>9 DEF ReplaceAt
  <2> DEFINE v == RemoveAt(again, i + 1)
  <2>12. i + 1 \in 1 .. Len(again)
    BY <1>3, <2>10
  <2>13. v \in Seq(Pieces) /\ Len(v) = n - 1 /\ \A k \in 1 .. Len(again) - 1 : v[k] = IF k < i + 1 THEN again[k] ELSE again[k + 1]
    BY <2>10, <2>12, RemovedAt
  <2> HIDE DEF v
  <2>14. ASSUME NEW k \in 1 .. n - 1 PROVE v[k] = u[k]
    <3>0. k \in 1 .. n /\ k + 1 \in 1 .. n /\ k \in Int /\ k \in 1 .. Len(again) - 1
      BY <1>1, <2>10
    <3>1. CASE k < i
      <4>1. v[k] = again[k] /\ k # i /\ k < i + 1
        BY <1>2, <2>13, <3>0, <3>1
      <4>2. again[k] = t[k]
        BY <2>4, <2>11, <3>0, <4>1
      <4> QED
        BY <1>9, <1>11, <4>1, <4>2
    <3>2. CASE k = i
      <4>1. v[k] = again[k] /\ k < i + 1
        BY <1>2, <2>13, <3>0, <3>2
      <4> QED
        BY <1>11, <2>11, <3>0, <3>2, <4>1
    <3>3. CASE k > i
      <4>1. ~ (k < i + 1) /\ k # i /\ k + 1 # i
        BY <1>2, <3>0, <3>3
      <4>2. v[k] = again[k + 1]
        BY <2>13, <3>0, <4>1
      <4>3. again[k + 1] = t[k + 1]
        BY <2>4, <2>11, <3>0, <4>1
      <4> QED
        BY <1>9, <1>11, <4>1, <4>2, <4>3
    <3> QED
      BY <1>2, <3>0, <3>1, <3>2, <3>3
  <2>15. u \in Seq(Pieces) /\ Len(u) = Len(v)
    BY <1>11, <2>13 DEF Sorted
  <2>16. v = u
    <3> HIDE DEF u
    <3>1. \A k \in 1 .. Len(v) : v[k] = u[k]
      BY <2>13, <2>14
    <3> QED
      BY <2>13, <2>15, <3>1, SeqEqual
  <2> QED
    BY <2>8, <2>16 DEF v
<1>13. Covered(u) = Covered(t) \cup Span(r) /\ From(u, t, r)
  <2> DEFINE Out == {e, f}
  <2>1. Out \in SUBSET ToSet(t) /\ Out # {} /\ (\A x \in Out : Touch(r, x)) /\ Span(h) = Area(Out) \cup Span(r)
    BY <1>2, <1>3, <1>7, <1>8
  <2>2. ToSet(u) = (ToSet(t) \ Out) \cup {h}
    BY <1>9, <1>11
  <2>3. (\E x \in ToSet(t) \cup {r} : h.base = x.base) /\ (\E x \in ToSet(t) \cup {r} : End(h) = End(x))
    BY <1>2, <1>3, <1>6
  <2> HIDE DEF Out, u
  <2> QED
    BY <1>6, <1>11, <2>1, <2>2, <2>3, GrownBy
<1>14. Len(u) \in 1 .. Len(t)
  BY <1>1, <1>2, <1>3, <1>11
<1> QED
  BY <1>11, <1>12, <1>13, <1>14 DEF GrownTo

(* Whichever way it grows, the result covers r as well. *)
LEMMA Grown ==
  ASSUME NEW t, Sorted(t), NEW r \in Pieces, NEW i, FirstTouch(t, r, i)
  PROVE  GrownTo(Grow(t, i, r), t, r)
<1>1. t[i].base = End(r) \/ r.base = End(t[i])
  BY TouchPlaces
<1>2. i \in 1 .. Len(t) /\ Len(t) \in Nat
  BY SortedFacts DEF FirstTouch
<1> QED
  BY <1>1, <1>2, GrowDown, GrowUp, GrowTogether

-----------------------------------------------------------------------------
(* The tables of a machine *)

(* A table as the program may have it. *)
Tidy(t) == t = EmptyTable \/ (Sorted(t) /\ Len(t) >= 1)

(* The dummy region of memblock_init covers nothing. *)
LEMMA EmptyTableFacts ==
  /\ EmptyTable \in Seq(Entries) /\ Len(EmptyTable) = 1 /\ EmptyTable[1].size = 0
  /\ Covered(EmptyTable) = {}
  /\ ~ Sorted(EmptyTable)
<1>1. EmptyTable \in Seq(Entries) /\ Len(EmptyTable) = 1 /\ EmptyTable[1] = Region(0, 0)
  BY LimitAssumption DEF EmptyTable, Entries, Region, End
<1>2. EmptyTable[1].base = 0 /\ EmptyTable[1].size = 0 /\ End(EmptyTable[1]) = 0
  BY <1>1 DEF Region, End
<1>3. Covered(EmptyTable) = {}
  <2>1. 0 .. 0 - 1 = {}
    OBVIOUS
  <2>2. \A i \in 1 .. 1 : i = 1
    OBVIOUS
  <2> QED
    BY <1>1, <1>2, <2>1, <2>2 DEF Covered
<1>4. ~ Sorted(EmptyTable)
  <2>1. Region(0, 0) \notin Pieces
    BY DEF Pieces, Region
  <2> QED
    BY <1>1, <2>1, SortedFacts
<1> QED
  BY <1>1, <1>2, <1>3, <1>4

(* A tidy table is what the runs check of one. *)
LEMMA TidyIsOrdered ==
  ASSUME NEW t
  PROVE  t \in Seq(Entries) /\ Ordered(t) <=> Tidy(t)
<1>1. ASSUME t \in Seq(Entries), Ordered(t), t # EmptyTable PROVE Sorted(t) /\ Len(t) >= 1
  <2>1. /\ Len(t) \in Nat /\ Len(t) > 0 /\ t \in [1 .. Len(t) -> Entries]
        /\ \A i \in 1 .. Len(t) : t[i].size > 0
        /\ \A j \in 1 .. Len(t) : \A i \in 1 .. j - 1 : End(t[i]) < t[j].base
    BY <1>1, LenProperties DEF Ordered
  <2> DEFINE n == Len(t)
  <2>2. t \in [1 .. n -> Pieces]
    BY <2>1 DEF Pieces
  <2>3. ASSUME NEW i \in 1 .. n, NEW j \in 1 .. n, i < j PROVE End(t[i]) < t[j].base
    <3>1. i \in 1 .. j - 1
      BY <2>1, <2>3
    <3> QED
      BY <2>1, <3>1
  <2>4. t \in Seq(Pieces)
    BY <2>1, <2>2
  <2> QED
    BY <2>1, <2>3, <2>4 DEF Sorted
<1>2. ASSUME Sorted(t), Len(t) >= 1 PROVE t \in Seq(Entries) /\ Ordered(t)
  <2>1. /\ Len(t) \in Nat /\ t \in Seq(Pieces) /\ \A i \in 1 .. Len(t) : t[i] \in Pieces
        /\ \A i, j \in 1 .. Len(t) : i < j => End(t[i]) < t[j].base
    BY <1>2, SortedFacts DEF Sorted
  <2>2. t \in Seq(Entries)
    BY <2>1 DEF Pieces
  <2>3. \A i \in 1 .. Len(t) : t[i].size > 0
    BY <2>1 DEF Pieces
  <2>4. \A j \in 1 .. Len(t) : \A i \in 1 .. j - 1 : i \in 1 .. Len(t) /\ i < j
    BY <2>1
  <2>5. \A j \in 1 .. Len(t) : \A i \in 1 .. j - 1 : End(t[i]) < t[j].base
    BY <2>1, <2>4
  <2> QED
    BY <1>2, <2>1, <2>2, <2>3, <2>5 DEF Ordered
<1>3. EmptyTable \in Seq(Entries) /\ Ordered(EmptyTable)
  BY EmptyTableFacts DEF Ordered
<1> QED
  BY <1>1, <1>2, <1>3 DEF Tidy

(* The front of a table. *)
LEMMA CutTable ==
  ASSUME NEW t, Sorted(t), NEW k \in 0 .. Len(t)
  PROVE  /\ Sorted(SubSeq(t, 1, k)) /\ Len(SubSeq(t, 1, k)) = k
         /\ ToSet(SubSeq(t, 1, k)) \subseteq ToSet(t)
<1> DEFINE u == SubSeq(t, 1, k)
<1>1. /\ Len(t) \in Nat /\ t \in Seq(Pieces) /\ ToSet(t) = {t[i] : i \in 1 .. Len(t)}
      /\ \A i, j \in 1 .. Len(t) : i < j => End(t[i]) < t[j].base
  BY SortedFacts DEF Sorted
<1>2. u \in Seq(Pieces) /\ Len(u) = k /\ \A i \in 1 .. k : u[i] = t[i]
  BY <1>1, CutAt
<1> HIDE DEF u
<1>3. \A i \in 1 .. k : i \in 1 .. Len(t)
  BY <1>1
<1>4. \A i, j \in 1 .. k : i < j => End(u[i]) < u[j].base
  BY <1>1, <1>2, <1>3
<1>5. ToSet(u) = {u[i] : i \in 1 .. k}
  BY <1>2, ToSetOfSeq
<1> QED
  BY <1>1, <1>2, <1>3, <1>4, <1>5 DEF Sorted, u

(* What callers add: a region none of whose addresses is in the table, or one
   that is an entry already.                                               *)
MayAdd(t, r) ==
  \/ t = EmptyTable
  \/ \A e \in ToSet(t) : ~ memblock_addrs_overlap(r, e)
  \/ r \in ToSet(t)

(* What an addition promises, and that it fails only where one entry is left. *)
Adds(new, t, r) ==
  /\ Sorted(new.table) /\ Len(new.table) \in 1 .. MaxRegions - 1
  /\ new.ok \in BOOLEAN
  /\ new.ok => Covered(new.table) = Covered(t) \cup Span(r)
  /\ ~ new.ok => Len(t) + 1 >= MaxRegions
  /\ From(new.table, t, r)

(* The first addition replaces the dummy region. *)
LEMMA AddedToEmpty ==
  ASSUME NEW r \in Pieces, MaxRegions \in Nat, MaxRegions > 2
  PROVE  Adds(memblock_add_region(EmptyTable, r), EmptyTable, r)
<1> DEFINE new == memblock_add_region(EmptyTable, r)
           u == <<r>>
<1>1. new = [table |-> u, ok |-> TRUE]
  BY EmptyTableFacts DEF memblock_add_region
<1>2. u \in Seq(Pieces) /\ Len(u) = 1 /\ u[1] = r /\ ToSet(u) = {r}
  BY SingleList
<1> HIDE DEF u
<1>3. \A i \in 1 .. 1 : i = 1
  OBVIOUS
<1>4. Sorted(u)
  <2>1. \A i, j \in 1 .. 1 : ~ (i < j)
    OBVIOUS
  <2> QED
    BY <1>2, <2>1 DEF Sorted
<1>5. Covered(u) = Covered(EmptyTable) \cup Span(r)
  <2>1. Covered(u) = {} \cup Span(r)
    BY <1>2, <1>4, CoveredBy
  <2> QED
    BY <2>1, EmptyTableFacts
<1>6. From(u, EmptyTable, r)
  BY <1>2 DEF From
<1>7. Len(u) \in 1 .. MaxRegions - 1
  BY <1>2
<1> QED
  BY <1>1, <1>4, <1>5, <1>6, <1>7 DEF Adds

(* An insertion, the one that is taken back included. *)
LEMMA InsertedOrNot ==
  ASSUME NEW t, Sorted(t), Len(t) >= 1, NEW r \in Pieces,
         \A i \in 1 .. Len(t) : ~ memblock_addrs_overlap(r, t[i]) /\ ~ Touch(r, t[i]),
         MaxRegions \in Nat, MaxRegions > 2, Len(t) < MaxRegions
  PROVE  Adds(InsertOrFail(t, r), t, r)
<1> DEFINE new == InsertOrFail(t, r)
           u == Insert(t, r)
           v == SubSeq(u, 1, Len(t))
<1>1. Len(t) \in Nat
  BY SortedFacts
<1>2. Sorted(u) /\ Len(u) = Len(t) + 1 /\ ToSet(u) = ToSet(t) \cup {r}
  BY Inserted
<1> HIDE DEF u
<1>3. Covered(u) = Covered(t) \cup Span(r)
  BY <1>2, CoveredBy
<1>4. CASE Len(t) + 1 = MaxRegions
  <2>1. new = [table |-> v, ok |-> FALSE]
    BY <1>1, <1>4 DEF InsertOrFail, u
  <2>2. Len(t) \in 0 .. Len(u)
    BY <1>1, <1>2
  <2>3. Sorted(v) /\ Len(v) = Len(t) /\ ToSet(v) \subseteq ToSet(t) \cup {r}
    BY <1>2, <2>2, CutTable
  <2> HIDE DEF v
  <2>4. From(v, t, r)
    BY <2>3 DEF From
  <2>5. Len(v) \in 1 .. MaxRegions - 1
    BY <1>1, <1>4, <2>3
  <2> QED
    BY <1>1, <1>4, <2>1, <2>3, <2>4, <2>5 DEF Adds
<1>5. CASE Len(t) + 1 # MaxRegions
  <2>1. new = [table |-> u, ok |-> TRUE]
    BY <1>1, <1>5 DEF InsertOrFail, u
  <2>2. From(u, t, r)
    BY <1>2 DEF From
  <2>3. Len(u) \in 1 .. MaxRegions - 1
    BY <1>1, <1>2, <1>5
  <2> QED
    BY <1>2, <1>3, <2>1, <2>2, <2>3 DEF Adds
<1> QED
  BY <1>4, <1>5

(* memblock_add_region keeps the table sorted with gaps, and either covers what
   was added or was out of room.                                           *)
LEMMA AddedTo ==
  ASSUME NEW t, Tidy(t), NEW r \in Pieces, MayAdd(t, r),
         MaxRegions \in Nat, MaxRegions > 2, Len(t) < MaxRegions
  PROVE  Adds(memblock_add_region(t, r), t, r)
<1>1. CASE t = EmptyTable
  BY <1>1, AddedToEmpty
<1>2. CASE t # EmptyTable
  <2> DEFINE I == {i \in 1 .. Len(t) : t[i] = r \/ memblock_addrs_adjacent(r, t[i]) # 0}
             i == SelectInSeq(t, LAMBDA s : s = r \/ memblock_addrs_adjacent(r, s) # 0)
             new == memblock_add_region(t, r)
  <2>1. /\ Sorted(t) /\ Len(t) >= 1 /\ Len(t) \in Nat
        /\ \A k \in 1 .. Len(t) : t[k] \in Pieces /\ t[k] \in ToSet(t)
    BY <1>2, SortedFacts DEF Tidy
  <2>2. ~ (Len(t) = 1 /\ t[1].size = 0)
    <3>1. t[1] \in Pieces
      BY <2>1
    <3> QED
      BY <3>1 DEF Pieces
  <2>3. i = IF I # {} THEN Min(I) ELSE 0
    BY DEF SelectInSeq
  <2>4. new = IF i = 0 THEN InsertOrFail(t, r)
              ELSE [table |-> IF t[i] = r THEN t ELSE Grow(t, i, r), ok |-> TRUE]
    BY <2>2 DEF memblock_add_region
  <2> HIDE DEF i, new
  <2>5. CASE r \in ToSet(t)
    <3>1. PICK m \in 1 .. Len(t) : t[m] = r
      BY <2>1, <2>5, SortedFacts
    <3>2. I = {m}
      <4>1. m \in I
        BY <3>1
      <4>2. ASSUME NEW k \in I PROVE k = m
        <5>1. k \in 1 .. Len(t)
          OBVIOUS
        <5>2. t[k] = r
          <6>1. ASSUME t[k] # r PROVE ~ Touch(r, t[k])
            BY <2>1, <2>5, <5>1, <6>1, EntriesApart
          <6> QED
            BY <6>1 DEF Touch
        <5>3. ASSUME k # m PROVE FALSE
          <6>1. End(r) < r.base
            BY <2>1, <3>1, <5>1, <5>2, <5>3, SortedFacts
          <6> QED
            BY <6>1, PieceFacts
        <5> QED
          BY <5>3
      <4> QED
        BY <4>1, <4>2
    <3>3. i = m
      <4>1. Min({m}) \in {m}
        <5>1. {m} \subseteq Nat /\ {m} # {}
          OBVIOUS
        <5> QED
          BY <5>1, MinOfNumbers
      <4> QED
        BY <2>3, <3>2, <4>1
    <3>4. new = [table |-> t, ok |-> TRUE]
      BY <2>4, <3>1, <3>3
    <3>5. Covered(t) = Covered(t) \cup Span(r)
      BY <2>1, <2>5, CoveredBy
    <3>6. From(t, t, r)
      BY DEF From
    <3>7. Len(t) \in 1 .. MaxRegions - 1
      BY <2>1
    <3> QED
      BY <2>1, <3>4, <3>5, <3>6, <3>7 DEF Adds, new
  <2>6. CASE r \notin ToSet(t)
    <3>1. \A k \in 1 .. Len(t) : ~ memblock_addrs_overlap(r, t[k]) /\ t[k] # r
      BY <1>2, <2>1, <2>6 DEF MayAdd
    <3>2. \A k \in 1 .. Len(t) : k \in I <=> Touch(r, t[k])
      BY <3>1 DEF Touch
    <3>3. CASE I = {}
      <4>1. i = 0
        BY <2>3, <3>3
      <4>2. new = InsertOrFail(t, r)
        BY <2>4, <4>1
      <4> HIDE DEF I
      <4>3. \A k \in 1 .. Len(t) : ~ memblock_addrs_overlap(r, t[k]) /\ ~ Touch(r, t[k])
        BY <3>1, <3>2, <3>3
      <4> QED
        BY <2>1, <4>2, <4>3, InsertedOrNot DEF new
    <3>4. CASE I # {}
      <4>1. I \subseteq Nat
        BY <2>1
      <4>2. Min(I) \in I /\ \A m \in I : Min(I) <= m
        <5> HIDE DEF I
        <5> QED
          BY <3>4, <4>1, MinOfNumbers
      <4>3. i \in I /\ \A m \in I : i <= m
        BY <2>3, <3>4, <4>2
      <4>4. i \in 1 .. Len(t) /\ i # 0
        BY <4>3
      <4>5. FirstTouch(t, r, i)
        <5>1. \A k \in 1 .. Len(t) : k < i => k \notin I
          BY <2>1, <4>3, <4>4
        <5> HIDE DEF I
        <5> QED
          BY <3>1, <3>2, <4>3, <4>4, <5>1 DEF FirstTouch
      <4>6. new = [table |-> Grow(t, i, r), ok |-> TRUE]
        BY <2>4, <3>1, <4>4
      <4>7. GrownTo(Grow(t, i, r), t, r)
        BY <2>1, <4>5, Grown
      <4>8. Len(Grow(t, i, r)) \in 1 .. MaxRegions - 1
        BY <2>1, <4>7 DEF GrownTo
      <4> QED
        BY <4>6, <4>7, <4>8 DEF Adds, GrownTo, new
    <3> QED
      BY <3>3, <3>4
  <2> QED
    BY <2>5, <2>6
<1> QED
  BY <1>1, <1>2

(* A region that meets no entry it is not, and touches none it might be, is met
   by no entry after an addition either.                                   *)
LEMMA StillAhead ==
  ASSUME NEW t, NEW r, NEW u, From(u, t, r), NEW c \in Pieces,
         \A f \in ToSet(t) : c = f \/ ~ memblock_addrs_overlap(c, f),
         c = r \/ ~ memblock_addrs_overlap(c, r),
         c \in ToSet(t) => ~ Touch(r, c),
         c = r => \A f \in ToSet(t) : ~ Touch(r, f)
  PROVE  \A e \in ToSet(u) : c = e \/ ~ memblock_addrs_overlap(c, e)
BY DEF From

-----------------------------------------------------------------------------
(* Taking from a table *)

(* What a table covers without a hole is in one of its entries: the address
   behind an entry is in none.                                             *)
LEMMA InOneEntry ==
  ASSUME NEW t, Sorted(t), NEW r \in Pieces, Span(r) \subseteq Covered(t)
  PROVE  \E i \in 1 .. Len(t) : t[i].base <= r.base /\ End(r) <= End(t[i])
<1>1. /\ Len(t) \in Nat /\ \A k \in 1 .. Len(t) : t[k] \in Pieces
      /\ \A k, j \in 1 .. Len(t) : k < j => End(t[k]) < t[j].base
      /\ Covered(t) = UNION {Span(t[k]) : k \in 1 .. Len(t)}
  BY SortedFacts
<1>2. \A k \in 1 .. Len(t) : t[k].base \in Nat /\ End(t[k]) \in Nat /\ t[k].base < End(t[k])
  BY <1>1, PieceFacts
<1>3. r.base \in Nat /\ End(r) \in Nat /\ r.base < End(r)
  BY PieceFacts
<1>4. r.base \in Span(r)
  BY <1>3 DEF Span
<1>5. PICK i \in 1 .. Len(t) : r.base \in Span(t[i])
  BY <1>1, <1>4
<1>6. t[i].base <= r.base /\ r.base < End(t[i])
  BY <1>2, <1>3, <1>5 DEF Span
<1>7. SUFFICES ASSUME End(t[i]) < End(r) PROVE FALSE
  BY <1>2, <1>3, <1>6
<1>8. End(t[i]) \in Span(r)
  BY <1>2, <1>3, <1>6, <1>7 DEF Span
<1>9. PICK k \in 1 .. Len(t) : End(t[i]) \in Span(t[k])
  BY <1>1, <1>8
<1>10. t[k].base <= End(t[i]) /\ End(t[i]) < End(t[k])
  BY <1>2, <1>9 DEF Span
<1>11. CASE k = i
  BY <1>2, <1>10, <1>11
<1>12. CASE k < i
  <2>1. End(t[k]) < t[i].base
    BY <1>1, <1>12
  <2> QED
    BY <1>2, <1>10, <2>1
<1>13. CASE i < k
  <2>1. End(t[i]) < t[k].base
    BY <1>1, <1>13
  <2> QED
    BY <1>2, <1>10, <2>1
<1>14. k < i \/ k = i \/ i < k
  OBVIOUS
<1> QED
  BY <1>11, <1>12, <1>13, <1>14

(* What a removal promises. *)
Removes(new, t, r) ==
  /\ Sorted(new.table) /\ Len(new.table) \in 1 .. MaxRegions - 1
  /\ new.ok \in BOOLEAN
  /\ new.ok => Covered(new.table) = Covered(t) \ Span(r)
  /\ ~ new.ok => Len(t) + 1 >= MaxRegions

(* The entry that holds what is taken, as the others see it. *)
LEMMA OthersApart ==
  ASSUME NEW t, Sorted(t), NEW i \in 1 .. Len(t), NEW r \in Pieces,
         t[i].base <= r.base, End(r) <= End(t[i])
  PROVE  /\ Span(r) \subseteq Span(t[i])
         /\ \A e \in ToSet(t) \ {t[i]} : Span(e) \cap Span(t[i]) = {} /\ Span(e) \cap Span(r) = {}
<1>1. t[i] \in Pieces /\ t[i] \in ToSet(t) /\ ToSet(t) \subseteq Pieces
  BY SortedFacts
<1>2. Span(r) \subseteq Span(t[i])
  <2>1. /\ r.base \in Nat /\ End(r) \in Nat /\ t[i].base \in Nat /\ End(t[i]) \in Nat
    BY <1>1, PieceFacts
  <2> QED
    BY <2>1 DEF Span
<1>3. ASSUME NEW e \in ToSet(t) \ {t[i]} PROVE Span(e) \cap Span(t[i]) = {}
  <2>1. ~ memblock_addrs_overlap(e, t[i])
    BY <1>1, <1>3, EntriesApart
  <2> QED
    BY <1>1, <1>3, <2>1, OverlapFacts
<1> QED
  BY <1>2, <1>3

(* One entry shrunk, so that it no longer covers the addresses Less. *)
Shrinks(t, i, g, Less) ==
  /\ Sorted(t) /\ i \in 1 .. Len(t) /\ g \in Pieces
  /\ t[i].base <= g.base /\ End(g) <= End(t[i])
  /\ Less \subseteq Span(t[i]) /\ Span(g) = Span(t[i]) \ Less

(* An entry that shrinks leaves the others as they are. *)
LEMMA Shrunk ==
  ASSUME NEW t, NEW i, NEW g, NEW Less, Shrinks(t, i, g, Less)
  PROVE  /\ Sorted(ReplaceAt(t, i, g)) /\ Len(ReplaceAt(t, i, g)) = Len(t)
         /\ Covered(ReplaceAt(t, i, g)) = Covered(t) \ Less
         /\ ToSet(ReplaceAt(t, i, g)) = (ToSet(t) \ {t[i]}) \cup {g}
<1> DEFINE u == ReplaceAt(t, i, g)
<1>0. /\ Sorted(t) /\ i \in 1 .. Len(t) /\ g \in Pieces
      /\ t[i].base <= g.base /\ End(g) <= End(t[i])
      /\ Less \subseteq Span(t[i]) /\ Span(g) = Span(t[i]) \ Less
  BY DEF Shrinks
<1>1. /\ Len(t) \in Nat /\ \A k \in 1 .. Len(t) : t[k] \in Pieces /\ t[k] \in ToSet(t)
      /\ \A k, j \in 1 .. Len(t) : k < j => End(t[k]) < t[j].base
  BY <1>0, SortedFacts
<1>2. \A k \in 1 .. Len(t) : t[k].base \in Nat /\ End(t[k]) \in Nat
  BY <1>1, PieceFacts
<1>3. g.base \in Nat /\ End(g) \in Nat
  BY <1>0, PieceFacts
<1>4. \A k \in 1 .. Len(t) : k < i => End(t[k]) < g.base
  <2> SUFFICES ASSUME NEW k \in 1 .. Len(t), k < i PROVE End(t[k]) < g.base
    OBVIOUS
  <2>1. End(t[k]) < t[i].base
    BY <1>0, <1>1
  <2> QED
    BY <1>0, <1>2, <1>3, <2>1
<1>5. \A k \in 1 .. Len(t) : k > i => End(g) < t[k].base
  <2> SUFFICES ASSUME NEW k \in 1 .. Len(t), k > i PROVE End(g) < t[k].base
    OBVIOUS
  <2>1. End(t[i]) < t[k].base
    BY <1>0, <1>1
  <2> QED
    BY <1>0, <1>2, <1>3, <2>1
<1>6. Sorted(u) /\ Len(u) = Len(t) /\ ToSet(u) = (ToSet(t) \ {t[i]}) \cup {g}
  BY <1>0, <1>4, <1>5, ReplacedEntry
<1> HIDE DEF u
<1>7. Covered(u) = (Covered(t) \cup {}) \ Less
  <2>1. Area({g}) = (Area({t[i]}) \cup {}) \ Less
    BY <1>0 DEF Area
  <2>2. \A e \in ToSet(t) \ {t[i]} : Span(e) \cap Less = {}
    <3>1. t[i] \in Pieces /\ t[i].base <= t[i].base /\ End(t[i]) <= End(t[i])
      BY <1>0, <1>1, <1>2
    <3>2. \A e \in ToSet(t) \ {t[i]} : Span(e) \cap Span(t[i]) = {}
      BY <1>0, <3>1, OthersApart
    <3> QED
      BY <1>0, <3>2
  <2>3. Exchanged(u, t, {t[i]}, {g}, {}, Less)
    BY <1>0, <1>1, <1>6, <2>1, <2>2 DEF Exchanged
  <2> QED
    BY <2>3, CoveredAfter
<1> QED
  BY <1>6, <1>7 DEF u

(* A whole region is taken out of a table that has another. *)
LEMMA WholeEntryTaken ==
  ASSUME NEW t, Sorted(t), NEW i \in 1 .. Len(t), Span(t[i]) # Covered(t)
  PROVE  /\ Sorted(RemoveAt(t, i)) /\ Len(RemoveAt(t, i)) = Len(t) - 1 /\ Len(t) >= 2
         /\ Covered(RemoveAt(t, i)) = Covered(t) \ Span(t[i])
<1> DEFINE u == RemoveAt(t, i)
<1>1. /\ Len(t) \in Nat /\ \A k \in 1 .. Len(t) : t[k] \in Pieces /\ t[k] \in ToSet(t)
      /\ Covered(t) = UNION {Span(t[k]) : k \in 1 .. Len(t)}
  BY SortedFacts
<1>2. Sorted(u) /\ Len(u) = Len(t) - 1 /\ ToSet(u) = ToSet(t) \ {t[i]}
  BY RemovedEntry
<1> HIDE DEF u
<1>3. Len(t) >= 2
  <2> SUFFICES ASSUME Len(t) < 2 PROVE Span(t[i]) = Covered(t)
    BY <1>1
  <2>1. \A k \in 1 .. Len(t) : k = i
    BY <1>1
  <2> QED
    BY <1>1, <2>1
<1>4. Covered(u) = (Covered(t) \cup {}) \ Span(t[i])
  <2>1. Area({}) = (Area({t[i]}) \cup {}) \ Span(t[i])
    BY DEF Area
  <2>2. \A e \in ToSet(t) \ {t[i]} : Span(e) \cap Span(t[i]) = {}
    <3>1. t[i] \in Pieces /\ t[i].base <= t[i].base /\ End(t[i]) <= End(t[i])
      <4>1. t[i].base \in Nat /\ End(t[i]) \in Nat
        BY <1>1, PieceFacts
      <4> QED
        BY <1>1, <4>1
    <3> QED
      BY <3>1, OthersApart
  <2>3. Exchanged(u, t, {t[i]}, {}, {}, Span(t[i]))
    BY <1>1, <1>2, <2>1, <2>2 DEF Exchanged
  <2> QED
    BY <2>3, CoveredAfter
<1> QED
  BY <1>2, <1>3, <1>4 DEF u

(* The middle of an entry is taken: what lies behind it is added again. *)
LEMMA MiddleTaken ==
  ASSUME NEW t, Sorted(t), NEW i \in 1 .. Len(t), NEW r \in Pieces,
         t[i].base < r.base, End(r) < End(t[i]),
         MaxRegions \in Nat, MaxRegions > 2, Len(t) < MaxRegions
  PROVE  Removes(memblock_add_region(ReplaceAt(t, i, Region(t[i].base, r.base - t[i].base)),
                                     Region(End(r), End(t[i]) - End(r))), t, r)
<1> DEFINE s == t[i]
           g == Region(s.base, r.base - s.base)
           h == Region(End(r), End(s) - End(r))
           u == ReplaceAt(t, i, g)
           new == memblock_add_region(u, h)
           Less == r.base .. End(s) - 1
<1>1. Len(t) \in Nat /\ s \in Pieces /\ s \in ToSet(t)
  BY SortedFacts
<1>2. /\ r.base \in Nat /\ End(r) \in Nat /\ r.base < End(r)
      /\ s.base \in Nat /\ End(s) \in Nat /\ s.base < End(s) /\ End(s) <= Limit
      /\ s.base < r.base /\ End(r) < End(s)
  BY <1>1, PieceFacts
<1>3. Limit \in Int
  BY LimitAssumption
<1> HIDE DEF s
<1>4. g \in Pieces /\ g.base = s.base /\ End(g) = r.base
  <2>1. s.base \in Int /\ r.base - s.base \in Int /\ s.base >= 0 /\ r.base - s.base > 0
    BY <1>2
  <2>2. s.base + (r.base - s.base) = r.base /\ r.base <= Limit
    BY <1>2, <1>3
  <2> QED
    BY <2>1, <2>2, PieceOf
<1>5. h \in Pieces /\ h.base = End(r) /\ End(h) = End(s)
  <2>1. End(r) \in Int /\ End(s) - End(r) \in Int /\ End(r) >= 0 /\ End(s) - End(r) > 0
    BY <1>2
  <2>2. End(r) + (End(s) - End(r)) = End(s) /\ End(s) <= Limit
    BY <1>2
  <2> QED
    BY <2>1, <2>2, PieceOf
<1> HIDE DEF g, h
<1>6. /\ Less \subseteq Span(s) /\ s.base <= g.base /\ End(g) <= End(s)
      /\ Span(g) = Span(s) \ Less /\ Span(h) \subseteq Less
      /\ Less \ Span(h) = Span(r)
  BY <1>2, <1>4, <1>5 DEF Span
<1> HIDE DEF Less
<1>7. /\ Sorted(u) /\ Len(u) = Len(t) /\ Covered(u) = Covered(t) \ Less
      /\ ToSet(u) = (ToSet(t) \ {s}) \cup {g}
  <2>1. Shrinks(t, i, g, Less)
    BY <1>4, <1>6 DEF s, Shrinks
  <2> QED
    BY <2>1, Shrunk DEF s
<1>8. MayAdd(u, h)
  <2> SUFFICES ASSUME NEW e \in ToSet(u) PROVE ~ memblock_addrs_overlap(h, e)
    BY DEF MayAdd
  <2>1. ToSet(u) \subseteq Pieces
    BY <1>7, CoveredBy
  <2>2. Span(e) \cap Span(h) = {}
    <3>1. CASE e = g
      BY <1>6, <3>1
    <3>2. CASE e \in ToSet(t) \ {s}
      <4>1. s.base <= s.base /\ End(s) <= End(s)
        BY <1>2
      <4>2. \A f \in ToSet(t) \ {t[i]} : Span(f) \cap Span(t[i]) = {}
        BY <1>1, <4>1, OthersApart DEF s
      <4>3. Span(h) \subseteq Span(s)
        BY <1>6
      <4> QED
        BY <3>2, <4>2, <4>3 DEF s
    <3> QED
      BY <1>7, <3>1, <3>2
  <2> QED
    BY <1>5, <2>1, <2>2, OverlapFacts
<1>9. Tidy(u)
  BY <1>1, <1>7 DEF Tidy
<1> HIDE DEF u
<1>10. Adds(new, u, h)
  BY <1>5, <1>7, <1>8, <1>9, AddedTo
<1> HIDE DEF new
<1>11. (Covered(t) \ Less) \cup Span(h) = Covered(t) \ Span(r)
  <2>1. Span(h) \subseteq Covered(t)
    <3>1. Span(s) \subseteq Covered(t)
      BY <1>1, CoveredBy
    <3> QED
      BY <1>6, <3>1
  <2> QED
    BY <1>6, <2>1
<1>12. Removes(new, t, r)
  BY <1>7, <1>10, <1>11 DEF Adds, Removes
<1> QED
  BY <1>12 DEF new, u, g, h, s

(* __memblock_remove takes exactly what it is asked to, or was out of room. *)
LEMMA RemovedFrom ==
  ASSUME NEW t, Sorted(t), NEW r \in Pieces, Span(r) \subseteq Covered(t), Span(r) # Covered(t),
         MaxRegions \in Nat, MaxRegions > 2, Len(t) < MaxRegions
  PROVE  Removes(__memblock_remove(t, r), t, r)
<1> DEFINE I == {i \in 1 .. Len(t) : t[i].base <= r.base /\ End(r) <= End(t[i])}
           i == SelectInSeq(t, LAMBDA s : s.base <= r.base /\ End(r) <= End(s))
           s == t[i]
           new == __memblock_remove(t, r)
<1>1. Len(t) \in Nat /\ \A k \in 1 .. Len(t) : t[k] \in Pieces /\ t[k] \in ToSet(t)
  BY SortedFacts
<1>2. i = IF I # {} THEN Min(I) ELSE 0
  BY DEF SelectInSeq
<1>3. I # {} /\ I \subseteq Nat
  BY <1>1, InOneEntry
<1>4. i \in I
  <2>1. Min(I) \in I
    <3> HIDE DEF I
    <3> QED
      BY <1>3, MinOfNumbers
  <2> QED
    BY <1>2, <1>3, <2>1
<1>5. new = IF i = 0
            THEN [table |-> t, ok |-> FALSE]
            ELSE IF s = r
            THEN [table |-> RemoveAt(t, i), ok |-> TRUE]
            ELSE IF s.base = r.base
            THEN [table |-> ReplaceAt(t, i, Region(End(r), s.size - r.size)), ok |-> TRUE]
            ELSE IF End(s) = End(r)
            THEN [table |-> ReplaceAt(t, i, Region(s.base, s.size - r.size)), ok |-> TRUE]
            ELSE memblock_add_region(ReplaceAt(t, i, Region(s.base, r.base - s.base)),
                                     Region(End(r), End(s) - End(r)))
  BY DEF __memblock_remove
<1> SUFFICES Removes(new, t, r)
  OBVIOUS
<1> HIDE DEF i, new
<1>6. i \in 1 .. Len(t) /\ i # 0 /\ s.base <= r.base /\ End(r) <= End(s)
  BY <1>4
<1>7. /\ r.base \in Nat /\ End(r) \in Nat /\ r.size \in Nat \ {0} /\ End(r) = r.base + r.size
      /\ s.base \in Nat /\ End(s) \in Nat /\ s.size \in Nat \ {0} /\ End(s) = s.base + s.size
      /\ End(s) <= Limit /\ s \in Pieces
      /\ s.base <= r.base /\ End(r) <= End(s)
  BY <1>1, <1>6, PieceFacts
<1>8. Span(r) \subseteq Span(s)
  BY <1>6, OthersApart
<1>9. ASSUME NEW u, new = [table |-> u, ok |-> TRUE], Sorted(u), Len(u) \in 1 .. Len(t),
             Covered(u) = Covered(t) \ Span(r)
      PROVE  Removes(new, t, r)
  <2>1. Len(u) \in 1 .. MaxRegions - 1
    BY <1>1, <1>9
  <2> QED
    BY <1>9, <2>1 DEF Removes
<1>10. CASE s = r
  <2> DEFINE u == RemoveAt(t, i)
  <2>1. Sorted(u) /\ Len(u) = Len(t) - 1 /\ Len(t) >= 2 /\ Covered(u) = Covered(t) \ Span(r)
    BY <1>6, <1>10, WholeEntryTaken
  <2>2. new = [table |-> u, ok |-> TRUE]
    BY <1>5, <1>6, <1>10
  <2>3. Len(u) \in 1 .. Len(t)
    BY <1>1, <2>1
  <2> HIDE DEF u
  <2> QED
    BY <1>9, <2>1, <2>2, <2>3
<1>11. CASE s # r /\ s.base = r.base
  <2> DEFINE g == Region(End(r), s.size - r.size)
             u == ReplaceAt(t, i, g)
  <2>1. End(r) # End(s)
    <3>1. s.size # r.size
      BY <1>7, <1>11, PieceFacts
    <3> HIDE DEF s
    <3> QED
      BY <1>7, <1>11, <3>1
  <2>2. g \in Pieces /\ g.base = End(r) /\ End(g) = End(s)
    <3> HIDE DEF s
    <3>1. End(r) \in Int /\ s.size - r.size \in Int /\ End(r) >= 0 /\ s.size - r.size > 0
      BY <1>7, <1>11, <2>1
    <3>2. End(r) + (s.size - r.size) = End(s)
      BY <1>7, <1>11
    <3>3. End(r) + (s.size - r.size) <= Limit
      BY <1>7, <3>2
    <3> QED
      BY <3>1, <3>2, <3>3, PieceOf
  <2>3. Span(g) = Span(s) \ Span(r) /\ s.base <= g.base /\ End(g) <= End(s)
    <3> HIDE DEF s, g
    <3> QED
      BY <1>7, <1>11, <2>2 DEF Span
  <2>4. new = [table |-> u, ok |-> TRUE]
    BY <1>5, <1>6, <1>11
  <2> HIDE DEF g
  <2>5. Sorted(u) /\ Len(u) = Len(t) /\ Covered(u) = Covered(t) \ Span(r)
    <3>1. Shrinks(t, i, g, Span(r))
      BY <1>6, <1>8, <2>2, <2>3 DEF Shrinks
    <3> QED
      BY <3>1, Shrunk
  <2>6. Len(u) \in 1 .. Len(t)
    BY <1>1, <1>6, <2>5
  <2> HIDE DEF u
  <2> QED
    BY <1>9, <2>4, <2>5, <2>6
<1>12. CASE s # r /\ s.base # r.base /\ End(s) = End(r)
  <2> DEFINE g == Region(s.base, s.size - r.size)
             u == ReplaceAt(t, i, g)
  <2>2. g \in Pieces /\ g.base = s.base /\ End(g) = r.base
    <3> HIDE DEF s
    <3>1. s.base \in Int /\ s.size - r.size \in Int /\ s.base >= 0 /\ s.size - r.size > 0
      BY <1>7, <1>12
    <3>2. s.base + (s.size - r.size) = r.base
      BY <1>7, <1>12
    <3>3. s.base + (s.size - r.size) <= Limit
      BY <1>7, <3>2, LimitAssumption
    <3> QED
      BY <3>1, <3>2, <3>3, PieceOf
  <2>3. Span(g) = Span(s) \ Span(r) /\ s.base <= g.base /\ End(g) <= End(s)
    <3> HIDE DEF s, g
    <3> QED
      BY <1>7, <1>12, <2>2 DEF Span
  <2>4. new = [table |-> u, ok |-> TRUE]
    BY <1>5, <1>6, <1>12
  <2> HIDE DEF g
  <2>5. Sorted(u) /\ Len(u) = Len(t) /\ Covered(u) = Covered(t) \ Span(r)
    <3>1. Shrinks(t, i, g, Span(r))
      BY <1>6, <1>8, <2>2, <2>3 DEF Shrinks
    <3> QED
      BY <3>1, Shrunk
  <2>6. Len(u) \in 1 .. Len(t)
    BY <1>1, <1>6, <2>5
  <2> HIDE DEF u
  <2> QED
    BY <1>9, <2>4, <2>5, <2>6
<1>13. CASE s # r /\ s.base # r.base /\ End(s) # End(r)
  <2>1. s.base < r.base /\ End(r) < End(s)
    BY <1>7, <1>13
  <2>2. new = memblock_add_region(ReplaceAt(t, i, Region(s.base, r.base - s.base)),
                                  Region(End(r), End(s) - End(r)))
    BY <1>5, <1>6, <1>13
  <2> QED
    BY <1>6, <2>1, <2>2, MiddleTaken
<1> QED
  BY <1>10, <1>11, <1>12, <1>13

-----------------------------------------------------------------------------
(* The binary search *)

(* What memblock_search does with a part of the table, given what it does elsewhere. *)
Halving(f, t, addr, part) ==
  LET left  == part[1]
      right == part[2]
      mid   == (left + right) \div 2
      r     == t[mid + 1]
      go(l, h) == IF l < h THEN f[<<l, h>>] ELSE -1
  IN IF addr < r.base THEN go(left, mid)
     ELSE IF IsBehind(addr, r) THEN go(mid + 1, right)
     ELSE mid

(* A function that answers for every part of the table. *)
Halves(f, t, addr) ==
  f = [part \in (0 .. Len(t)) \X (0 .. Len(t)) |-> Halving(f, t, addr, part)]

(* memblock_search is such a function, for each part is larger than the one it looks at next. *)
LEMMA SearchIsHalving ==
  ASSUME NEW t, NEW addr, Len(t) \in Nat
  PROVE  \E f : Halves(f, t, addr) /\ memblock_search(t, addr) = f[<<0, Len(t)>>]
<1> DEFINE n == Len(t)
           D == (0 .. n) \X (0 .. n)
           Mid(p) == (p[1] + p[2]) \div 2
           Low(p) == addr < t[Mid(p) + 1].base
           High(p) == ~ Low(p) /\ IsBehind(addr, t[Mid(p) + 1])
           Stops == {p \in D : ~ (Low(p) /\ p[1] < Mid(p)) /\ ~ (High(p) /\ Mid(p) + 1 < p[2])}
           val == [p \in D |-> IF Low(p) \/ High(p) THEN -1 ELSE Mid(p)]
           jump == [p \in D |-> IF Low(p) THEN <<p[1], Mid(p)>> ELSE <<Mid(p) + 1, p[2]>>]
           size == [p \in D |-> IF p[1] < p[2] THEN p[2] - p[1] ELSE 0]
<1>1. size \in [D -> 0 .. n]
  <2>1. ASSUME NEW p \in D PROVE (IF p[1] < p[2] THEN p[2] - p[1] ELSE 0) \in 0 .. n
    <3>1. p[1] \in 0 .. n /\ p[2] \in 0 .. n
      OBVIOUS
    <3> QED
      BY <3>1
  <2> QED
    BY <2>1
<1>2. ASSUME NEW p \in D, p \notin Stops PROVE jump[p] \in D /\ size[jump[p]] < size[p]
  <2>1. p[1] \in 0 .. n /\ p[2] \in 0 .. n /\ p[1] \in Int /\ p[2] \in Int /\ n \in Nat
    OBVIOUS
  <2>2. Mid(p) \in Int /\ 2 * Mid(p) <= p[1] + p[2] /\ p[1] + p[2] <= 2 * Mid(p) + 1
    BY <2>1
  <2>3. (Low(p) /\ p[1] < Mid(p)) \/ (High(p) /\ ~ Low(p) /\ Mid(p) + 1 < p[2])
    BY <1>2
  <2> HIDE DEF Low, Mid, High
  <2>4. CASE Low(p) /\ p[1] < Mid(p)
    <3>1. Mid(p) \in 0 .. n /\ p[1] < p[2] /\ Mid(p) - p[1] < p[2] - p[1]
      BY <2>1, <2>2, <2>4
    <3>2. jump[p] = <<p[1], Mid(p)>>
      BY <2>4
    <3>3. <<p[1], Mid(p)>> \in D
      BY <2>1, <3>1
    <3>4. size[<<p[1], Mid(p)>>] = Mid(p) - p[1]
      BY <2>4, <3>3
    <3>5. size[p] = p[2] - p[1]
      BY <3>1
    <3> HIDE DEF size, jump, D
    <3> QED
      BY <3>1, <3>2, <3>3, <3>4, <3>5
  <2>5. CASE ~ Low(p) /\ Mid(p) + 1 < p[2]
    <3>1. Mid(p) + 1 \in 0 .. n /\ p[1] < p[2] /\ p[2] - (Mid(p) + 1) < p[2] - p[1]
      BY <2>1, <2>2, <2>5
    <3>2. jump[p] = <<Mid(p) + 1, p[2]>>
      BY <2>5
    <3>3. <<Mid(p) + 1, p[2]>> \in D
      BY <2>1, <3>1
    <3>4. size[<<Mid(p) + 1, p[2]>>] = p[2] - (Mid(p) + 1)
      BY <2>5, <3>3
    <3>5. size[p] = p[2] - p[1]
      BY <3>1
    <3> HIDE DEF size, jump, D
    <3> QED
      BY <3>1, <3>2, <3>3, <3>4, <3>5
  <2> QED
    BY <2>3, <2>4, <2>5
<1>3. \E f : TailCalls(f, D, Stops, val, jump)
  <2> HIDE DEF D, Stops, val, jump, size
  <2> QED
    BY <1>1, <1>2, TailRecursion DEF n
<1>4. ASSUME NEW f, TailCalls(f, D, Stops, val, jump) PROVE Halves(f, t, addr)
  <2>1. ASSUME NEW p \in D
        PROVE  (IF p \in Stops THEN val[p] ELSE f[jump[p]]) = Halving(f, t, addr, p)
    <3>2. Halving(f, t, addr, p) =
            IF Low(p) THEN (IF p[1] < Mid(p) THEN f[<<p[1], Mid(p)>>] ELSE -1)
            ELSE IF High(p) THEN (IF Mid(p) + 1 < p[2] THEN f[<<Mid(p) + 1, p[2]>>] ELSE -1)
            ELSE Mid(p)
      BY DEF Halving
    <3>3. /\ p \in Stops <=> ~ (Low(p) /\ p[1] < Mid(p)) /\ ~ (High(p) /\ Mid(p) + 1 < p[2])
          /\ val[p] = IF Low(p) \/ High(p) THEN -1 ELSE Mid(p)
          /\ jump[p] = IF Low(p) THEN <<p[1], Mid(p)>> ELSE <<Mid(p) + 1, p[2]>>
      OBVIOUS
    <3>4. High(p) => ~ Low(p)
      OBVIOUS
    <3> HIDE DEF Mid, Low, High, Stops, val, jump, D
    <3> QED
      BY <3>2, <3>3, <3>4
  <2>2. f = [p \in D |-> IF p \in Stops THEN val[p] ELSE f[jump[p]]]
    BY <1>4 DEF TailCalls
  <2> HIDE DEF Stops, val, jump
  <2> QED
    BY <2>1, <2>2 DEF Halves
<1>5. \E f : Halves(f, t, addr)
  <2> HIDE DEF D, Stops, val, jump
  <2> QED
    BY <1>3, <1>4
<1> DEFINE in == CHOOSE f : Halves(f, t, addr)
<1>6. Halves(in, t, addr)
  BY <1>5
<1>7. memblock_search(t, addr) = in[<<0, Len(t)>>]
  BY DEF memblock_search, Halves, Halving
<1> HIDE DEF in
<1> QED
  BY <1>6, <1>7

(* memblock_search finds the entry that holds an address, if there is one. *)
LEMMA SearchFinds ==
  ASSUME NEW t, Sorted(t), Len(t) >= 1, NEW addr \in Nat
  PROVE  memblock_search(t, addr) # -1 <=> addr \in Covered(t)
<1> DEFINE n == Len(t)
           D == (0 .. n) \X (0 .. n)
<1>1. /\ n \in Nat /\ n >= 1 /\ \A k \in 1 .. n : t[k] \in Pieces
      /\ \A k, j \in 1 .. n : k < j => End(t[k]) < t[j].base
      /\ Covered(t) = UNION {Span(t[k]) : k \in 1 .. n}
  BY SortedFacts
<1>2. \A k \in 1 .. n : t[k].base \in Nat /\ End(t[k]) \in Nat /\ t[k].base < End(t[k])
  BY <1>1, PieceFacts
<1>3. PICK f : Halves(f, t, addr) /\ memblock_search(t, addr) = f[<<0, n>>]
  BY <1>1, SearchIsHalving
<1>4. \A p \in D : f[p] = Halving(f, t, addr, p)
  BY <1>3 DEF Halves
<1> HIDE DEF n
<1> DEFINE Right(p) == /\ f[p] # -1 => addr \in Covered(t)
                       /\ f[p] = -1 => \A i \in p[1] + 1 .. p[2] : addr \notin Span(t[i])
           T == {k \in 0 .. n : \A p \in D : p[1] < p[2] /\ p[2] - p[1] <= k => Right(p)}
<1>5. 0 \in T
  <2>1. \A p \in D : p[1] < p[2] => ~ (p[2] - p[1] <= 0)
    OBVIOUS
  <2> HIDE DEF Right, D
  <2> QED
    BY <1>1, <2>1
<1>6. ASSUME NEW k \in 1 .. n, k - 1 \in T PROVE k \in T
  <2> SUFFICES ASSUME NEW p \in D, p[1] < p[2], p[2] - p[1] <= k PROVE Right(p)
    OBVIOUS
  <2> DEFINE l == p[1]
             h == p[2]
             m == (l + h) \div 2
             e == t[m + 1]
  <2>1. l \in 0 .. n /\ h \in 0 .. n /\ l < h /\ h - l <= k
    OBVIOUS
  <2>2. f[p] = IF addr < e.base THEN (IF l < m THEN f[<<l, m>>] ELSE -1)
               ELSE IF addr >= End(e) THEN (IF m + 1 < h THEN f[<<m + 1, h>>] ELSE -1)
               ELSE m
    BY <1>4 DEF Halving, IsBehind
  <2> HIDE DEF l, h
  <2>3. m \in Int /\ l <= m /\ m < h
    BY <2>1
  <2> HIDE DEF m
  <2>4. m + 1 \in 1 .. n
    BY <1>1, <2>1, <2>3
  <2>5. ASSUME NEW x \in 0 .. n, NEW y \in 0 .. n, x < y, y - x <= k - 1
        PROVE  /\ f[<<x, y>>] # -1 => addr \in Covered(t)
               /\ f[<<x, y>>] = -1 => \A i \in x + 1 .. y : addr \notin Span(t[i])
    <3>1. <<x, y>> \in D /\ <<x, y>>[1] = x /\ <<x, y>>[2] = y
      OBVIOUS
    <3>2. \A q \in D : q[1] < q[2] /\ q[2] - q[1] <= k - 1 => Right(q)
      BY <1>6
    <3> DEFINE q == <<x, y>>
    <3>3. q \in D /\ q[1] = x /\ q[2] = y
      BY <3>1
    <3> HIDE DEF q
    <3>4. Right(q)
      BY <2>5, <3>2, <3>3
    <3> QED
      BY <3>3, <3>4 DEF q
  <2>6. (f[p] # -1 => addr \in Covered(t)) /\ (f[p] = -1 => \A i \in l + 1 .. h : addr \notin Span(t[i]))
    <3>0. e.base \in Nat /\ End(e) \in Nat /\ e.base < End(e)
      BY <1>2, <2>4
    <3>1. CASE addr < e.base
      <4>1. ASSUME NEW i \in m + 1 .. h PROVE addr \notin Span(t[i])
        <5>1. i \in 1 .. n /\ i \in Int /\ m + 1 <= i
          BY <1>1, <2>1, <2>3
        <5>2. e.base <= t[i].base /\ t[i].base \in Nat /\ End(t[i]) \in Nat
          <6>1. CASE i = m + 1
            BY <1>2, <5>1, <6>1
          <6>2. CASE i # m + 1
            <7>1. End(e) < t[i].base
              BY <1>1, <2>3, <2>4, <5>1, <6>2
            <7> QED
              BY <1>2, <3>0, <5>1, <7>1
          <6> QED
            BY <6>1, <6>2
        <5> HIDE DEF e
        <5> QED
          BY <3>0, <3>1, <5>2 DEF Span
      <4>2. CASE l < m
        <5>1. m \in 0 .. n /\ m - l <= k - 1
          BY <1>1, <2>1, <2>3
        <5>2. f[p] = f[<<l, m>>]
          BY <2>2, <3>1, <4>2
        <5>3. /\ f[<<l, m>>] # -1 => addr \in Covered(t)
              /\ f[<<l, m>>] = -1 => \A i \in l + 1 .. m : addr \notin Span(t[i])
          BY <2>1, <2>5, <4>2, <5>1
        <5>4. \A i \in l + 1 .. h : i \in l + 1 .. m \/ i \in m + 1 .. h
          BY <2>1, <2>3
        <5> HIDE DEF e
        <5> QED
          BY <4>1, <5>2, <5>3, <5>4
      <4>3. CASE ~ (l < m)
        <5>1. f[p] = -1
          BY <2>2, <3>1, <4>3
        <5>2. \A i \in l + 1 .. h : i \in m + 1 .. h
          BY <2>1, <2>3, <4>3
        <5> QED
          BY <4>1, <5>1, <5>2
      <4> QED
        BY <4>2, <4>3
    <3>2. CASE ~ (addr < e.base) /\ addr >= End(e)
      <4>1. ASSUME NEW i \in l + 1 .. m + 1 PROVE addr \notin Span(t[i])
        <5>1. i \in 1 .. n /\ i \in Int /\ i <= m + 1
          BY <1>1, <2>1, <2>3
        <5>2. End(t[i]) <= End(e) /\ t[i].base \in Nat /\ End(t[i]) \in Nat
          <6>1. CASE i = m + 1
            BY <1>2, <5>1, <6>1
          <6>2. CASE i # m + 1
            <7>1. End(t[i]) < e.base
              BY <1>1, <2>3, <2>4, <5>1, <6>2
            <7> QED
              BY <1>2, <3>0, <5>1, <7>1
          <6> QED
            BY <6>1, <6>2
        <5> HIDE DEF e
        <5> QED
          BY <3>0, <3>2, <5>2 DEF Span
      <4>2. CASE m + 1 < h
        <5>1. m + 1 \in 0 .. n /\ h - (m + 1) <= k - 1
          BY <1>1, <2>1, <2>3, <4>2
        <5>2. f[p] = f[<<m + 1, h>>]
          BY <2>2, <3>2, <4>2
        <5>3. /\ f[<<m + 1, h>>] # -1 => addr \in Covered(t)
              /\ f[<<m + 1, h>>] = -1 => \A i \in (m + 1) + 1 .. h : addr \notin Span(t[i])
          BY <2>1, <2>5, <4>2, <5>1
        <5>4. \A i \in l + 1 .. h : i \in l + 1 .. m + 1 \/ i \in (m + 1) + 1 .. h
          BY <2>1, <2>3
        <5> HIDE DEF e
        <5> QED
          BY <4>1, <5>2, <5>3, <5>4
      <4>3. CASE ~ (m + 1 < h)
        <5>1. f[p] = -1
          BY <2>2, <3>2, <4>3
        <5>2. \A i \in l + 1 .. h : i \in l + 1 .. m + 1
          BY <2>1, <2>3, <4>3
        <5> QED
          BY <4>1, <5>1, <5>2
      <4> QED
        BY <4>2, <4>3
    <3>3. CASE ~ (addr < e.base) /\ ~ (addr >= End(e))
      <4>1. f[p] = m /\ m # -1
        BY <2>1, <2>2, <2>3, <3>3
      <4>2. addr \in Span(e)
        <5> HIDE DEF e
        <5> QED
          BY <3>0, <3>3 DEF Span
      <4>3. addr \in Covered(t)
        BY <1>1, <2>4, <4>2
      <4> QED
        BY <4>1, <4>3
    <3> HIDE DEF e
    <3> QED
      BY <3>1, <3>2, <3>3
  <2> QED
    BY <2>6 DEF l, h
<1> HIDE DEF T
<1>7. 0 .. n \subseteq T
  BY <1>1, <1>5, <1>6, InductionUpTo
<1>8. (f[<<0, n>>] # -1 => addr \in Covered(t)) /\ (f[<<0, n>>] = -1 => \A i \in 0 + 1 .. n : addr \notin Span(t[i]))
  <2> DEFINE p == <<0, n>>
  <2>1. p \in D /\ p[1] = 0 /\ p[2] = n /\ n \in T
    BY <1>1, <1>7
  <2> HIDE DEF p
  <2>2. p[1] < p[2] /\ p[2] - p[1] <= n
    BY <1>1, <2>1
  <2>3. Right(p)
    BY <2>1, <2>2 DEF T
  <2> QED
    BY <2>1, <2>3 DEF p
<1>9. ASSUME addr \in Covered(t) PROVE f[<<0, n>>] # -1
  <2>1. PICK i \in 1 .. n : addr \in Span(t[i])
    BY <1>1, <1>9
  <2>2. i \in 0 + 1 .. n
    OBVIOUS
  <2> QED
    BY <1>8, <2>1, <2>2
<1> QED
  BY <1>3, <1>8, <1>9

(* Nothing is found in the table of memblock_init. *)
LEMMA SearchEmpty ==
  ASSUME NEW addr \in Nat
  PROVE  memblock_search(EmptyTable, addr) = -1
<1> DEFINE p == <<0, 1>>
<1>1. Len(EmptyTable) = 1 /\ EmptyTable[1].base = 0 /\ End(EmptyTable[1]) = 0
  BY EmptyTableFacts DEF EmptyTable, Region, End
<1>2. PICK f : Halves(f, EmptyTable, addr) /\ memblock_search(EmptyTable, addr) = f[<<0, 1>>]
  <2>1. Len(EmptyTable) \in Nat
    BY <1>1
  <2> QED
    BY <1>1, <2>1, SearchIsHalving
<1>3. p \in (0 .. 1) \X (0 .. 1) /\ p[1] = 0 /\ p[2] = 1
  OBVIOUS
<1> HIDE DEF p
<1>4. f[p] = Halving(f, EmptyTable, addr, p)
  BY <1>1, <1>2, <1>3 DEF Halves
<1>5. (0 + 1) \div 2 = 0 /\ ~ (0 + 1 < 1) /\ ~ (addr < 0) /\ addr >= 0 /\ 0 + 1 = 1
  OBVIOUS
<1>6. Halving(f, EmptyTable, addr, p) = -1
  BY <1>1, <1>3, <1>5 DEF Halving, IsBehind
<1> QED
  BY <1>2, <1>4, <1>6 DEF p

(* memblock_search finds the addresses a table covers, and no other. *)
LEMMA SearchRight ==
  ASSUME NEW t, Tidy(t), NEW addr \in Nat
  PROVE  memblock_search(t, addr) # -1 <=> addr \in Covered(t)
BY SearchFinds, SearchEmpty, EmptyTableFacts DEF Tidy

-----------------------------------------------------------------------------
(* The search for a place *)

(* align_down is the highest multiple that is not above. *)
LEMMA AlignedDown ==
  ASSUME NEW a \in Nat, NEW n \in Nat \ {0}
  PROVE  /\ align_down(a, n) \in Nat /\ align_down(a, n) <= a /\ align_down(a, n) % n = 0
         /\ \A c \in Nat : c <= a /\ c % n = 0 => c <= align_down(a, n)
<1> DEFINE q == a \div n
<1>1. q \in Nat /\ a = n * q + (a % n) /\ a % n \in 0 .. n - 1
  OBVIOUS
<1>2. align_down(a, n) = q * n
  BY DEF align_down
<1>3. q * n \in Nat /\ q * n <= a
  BY <1>1
<1>4. (q * n) % n = 0
  BY <1>1
<1>5. ASSUME NEW c \in Nat, c <= a, c % n = 0 PROVE c <= q * n
  <2> DEFINE k == c \div n
  <2>1. k \in Nat /\ c = n * k + (c % n)
    OBVIOUS
  <2>2. k <= q
    BY <1>5
  <2>3. c = n * k
    BY <1>5, <2>1
  <2> HIDE DEF k, q
  <2>4. n * k <= n * q
    BY <1>1, <2>1, <2>2
  <2> QED
    BY <1>1, <2>3, <2>4
<1> QED
  BY <1>2, <1>3, <1>4, <1>5

(* align_up is a multiple, and never 0. *)
LEMMA AlignedUp ==
  ASSUME NEW a \in Nat \ {0}, NEW n \in Nat \ {0}
  PROVE  align_up(a, n) \in Nat \ {0} /\ align_up(a, n) % n = 0
<1> DEFINE q == (a + n - 1) \div n
<1>1. align_up(a, n) = q * n
  BY DEF align_up
<1>2. a + n - 1 \in Nat /\ a + n - 1 >= n
  OBVIOUS
<1>3. q \in Nat /\ q >= 1
  BY <1>2
<1>4. q * n \in Nat \ {0}
  BY <1>3
<1>5. (q * n) % n = 0
  BY <1>3
<1> QED
  BY <1>1, <1>4, <1>5

(* The lowest reserved region in the way, and none when nothing is reserved there. *)
LEMMA InTheWay ==
  ASSUME NEW t, Tidy(t), NEW b \in Nat, NEW s \in Nat \ {0},
         NEW j, j = memblock_overlaps_region(t, Region(b, s))
  PROVE  /\ j = 0 => (b .. b + s - 1) \cap Covered(t) = {}
         /\ j # 0 => /\ j \in 1 .. Len(t) /\ Sorted(t) /\ t[j] \in Pieces
                     /\ t[j].base < b + s /\ b < End(t[j])
<1> DEFINE r == Region(b, s)
           I == {i \in 1 .. Len(t) : memblock_addrs_overlap(t[i], r)}
<1>1. r.base = b /\ End(r) = b + s
  BY DEF Region, End
<1>2. j = IF I # {} THEN Min(I) ELSE 0
  BY DEF memblock_overlaps_region, SelectInSeq
<1>3. \A i \in 1 .. Len(t) : i \in I <=> t[i].base < b + s /\ b < End(t[i])
  BY <1>1 DEF memblock_addrs_overlap
<1>4. Len(t) \in Nat
  BY SortedFacts, EmptyTableFacts DEF Tidy
<1>5. t = EmptyTable => I = {}
  <2> SUFFICES ASSUME t = EmptyTable, NEW i \in I PROVE FALSE
    OBVIOUS
  <2>1. Len(t) = 1
    BY EmptyTableFacts
  <2>2. i = 1
    BY <2>1
  <2>3. End(t[1]) = 0
    BY DEF EmptyTable, Region, End
  <2>4. b < End(t[1])
    BY <1>3, <2>1, <2>2
  <2> QED
    BY <2>3, <2>4
<1> HIDE DEF I, r
<1>6. CASE I = {}
  <2>1. j = 0
    BY <1>2, <1>6
  <2>2. ASSUME NEW a \in (b .. b + s - 1) \cap Covered(t) PROVE FALSE
    <3>1. Sorted(t)
      BY <2>2, EmptyTableFacts DEF Tidy
    <3>2. PICK i \in 1 .. Len(t) : a \in Span(t[i])
      BY <2>2, <3>1, SortedFacts
    <3>3. t[i] \in Pieces
      BY <3>1, SortedFacts
    <3>4. t[i].base \in Nat /\ End(t[i]) \in Nat
      BY <3>3, PieceFacts
    <3>5. t[i].base < b + s /\ b < End(t[i])
      BY <2>2, <3>2, <3>4 DEF Span
    <3> QED
      BY <1>3, <1>6, <3>5
  <2> QED
    BY <2>1, <2>2
<1>7. CASE I # {}
  <2>1. I \subseteq Nat
    BY <1>4 DEF I
  <2>2. j \in I
    BY <1>2, <1>7, <2>1, MinOfNumbers
  <2>3. j \in 1 .. Len(t)
    BY <2>2 DEF I
  <2>4. Sorted(t)
    BY <1>5, <1>7 DEF Tidy
  <2> QED
    BY <1>3, <2>2, <2>3, <2>4, SortedFacts
<1> QED
  BY <1>6, <1>7

(* A turn of memblock_find_region at a base, given what it finds below. *)
Descent(f, low, size, align, base) ==
  LET j == memblock_overlaps_region(reserved, Region(base, size))
  IN IF base < low THEN MEMBLOCK_ERROR
     ELSE IF j = 0 THEN base
     ELSE IF reserved[j].base < size THEN MEMBLOCK_ERROR
     ELSE f[align_down(reserved[j].base - size, align)]

(* A function that answers for every base. *)
Descends(f, low, size, align) ==
  f = [base \in 0 .. Limit |-> Descent(f, low, size, align, base)]

(* Where the search for a place ends: page 0 is never handed out. *)
Lowest(start) == IF start = 0 THEN PageSize ELSE start

(* f is what memblock_find_region evaluates. *)
SearchedBy(f, start, end, size, align) ==
  /\ Descends(f, Lowest(start), size, align)
  /\ memblock_find_region(start, end, size, align) =
       IF end < size THEN MEMBLOCK_ERROR ELSE f[align_down(end - size, align)]

(* There is such a function, for each base is below the one before. *)
LEMMA SearchIsDescent ==
  ASSUME Tidy(reserved), NEW start, NEW end, NEW size \in Nat \ {0}, NEW align \in Nat \ {0}
  PROVE  \E f : SearchedBy(f, start, end, size, align)
<1> DEFINE low == Lowest(start)
           D == 0 .. Limit
           j(b) == memblock_overlaps_region(reserved, Region(b, size))
           Stops == {b \in D : b < low \/ j(b) = 0 \/ reserved[j(b)].base < size}
           val == [b \in D |-> IF b < low THEN MEMBLOCK_ERROR ELSE IF j(b) = 0 THEN b ELSE MEMBLOCK_ERROR]
           jump == [b \in D |-> align_down(reserved[j(b)].base - size, align)]
           measure == [b \in D |-> b]
<1> HIDE DEF low
<1>1. measure \in [D -> 0 .. Limit] /\ Limit \in Nat
  BY LimitAssumption
<1>2. ASSUME NEW b \in D, b \notin Stops PROVE jump[b] \in D /\ measure[jump[b]] < measure[b]
  <2> DEFINE i == j(b)
  <2>1. i # 0 /\ ~ (reserved[i].base < size)
    BY <1>2
  <2>2. b \in Nat /\ b <= Limit
    BY <1>1
  <2>3. i = memblock_overlaps_region(reserved, Region(b, size))
    OBVIOUS
  <2> HIDE DEF i
  <2>4. reserved[i] \in Pieces /\ reserved[i].base < b + size
    BY <2>1, <2>2, <2>3, InTheWay
  <2>5. reserved[i].base \in Nat
    BY <2>4, PieceFacts
  <2> DEFINE a == reserved[i].base - size
  <2>6. a \in Nat /\ a < b
    BY <2>1, <2>2, <2>4, <2>5
  <2> HIDE DEF a
  <2>7. align_down(a, align) \in Nat /\ align_down(a, align) <= a
    BY <2>6, AlignedDown
  <2>8. align_down(a, align) \in D /\ align_down(a, align) < b
    BY <1>1, <2>2, <2>6, <2>7
  <2>9. jump[b] = align_down(a, align)
    BY <2>3 DEF a
  <2> HIDE DEF jump
  <2> QED
    BY <2>8, <2>9
<1>3. \E f : TailCalls(f, D, Stops, val, jump)
  <2> HIDE DEF D, Stops, val, jump, measure
  <2> QED
    BY <1>1, <1>2, TailRecursion
<1>4. ASSUME NEW f, TailCalls(f, D, Stops, val, jump) PROVE Descends(f, low, size, align)
  <2>1. ASSUME NEW b \in D
        PROVE  (IF b \in Stops THEN val[b] ELSE f[jump[b]]) = Descent(f, low, size, align, b)
    <3>1. Descent(f, low, size, align, b) =
            IF b < low THEN MEMBLOCK_ERROR
            ELSE IF j(b) = 0 THEN b
            ELSE IF reserved[j(b)].base < size THEN MEMBLOCK_ERROR
            ELSE f[jump[b]]
      BY DEF Descent
    <3>2. /\ b \in Stops <=> b < low \/ j(b) = 0 \/ reserved[j(b)].base < size
          /\ val[b] = IF b < low THEN MEMBLOCK_ERROR ELSE IF j(b) = 0 THEN b ELSE MEMBLOCK_ERROR
      OBVIOUS
    <3> HIDE DEF Stops, val, jump, D, j
    <3> QED
      BY <3>1, <3>2
  <2>2. f = [b \in D |-> IF b \in Stops THEN val[b] ELSE f[jump[b]]]
    BY <1>4 DEF TailCalls
  <2> HIDE DEF Stops, val, jump
  <2> QED
    BY <2>1, <2>2 DEF Descends
<1>5. \E f : Descends(f, low, size, align)
  <2> HIDE DEF D, Stops, val, jump
  <2> QED
    BY <1>3, <1>4
<1> DEFINE at == CHOOSE f : Descends(f, low, size, align)
<1>6. Descends(at, low, size, align)
  BY <1>5
<1>7. memblock_find_region(start, end, size, align) =
        IF end < size THEN MEMBLOCK_ERROR ELSE at[align_down(end - size, align)]
  BY DEF memblock_find_region, Descends, Descent, low, Lowest
<1> HIDE DEF at
<1>8. SearchedBy(at, start, end, size, align)
  BY <1>6, <1>7 DEF low, SearchedBy
<1> QED
  BY <1>8

(* The places that are aligned and not reserved. *)
Open(c, size, align) ==
  c % align = 0 /\ (c .. c + size - 1) \cap Covered(reserved) = {}

(* The greatest of a set of addresses, 0 if there is none. *)
Highest(v, S) ==
  IF S = {} THEN v = 0 ELSE v \in S /\ \A c \in S : c <= v

(* Highest says what Max does, where there is one. *)
LEMMA HighestIsMax ==
  ASSUME NEW S, S \subseteq Nat, NEW v, Highest(v, S)
  PROVE  v = IF S = {} THEN 0 ELSE Max(S)
<1>1. CASE S = {}
  BY <1>1 DEF Highest
<1>2. CASE S # {}
  <2>1. v \in S /\ \A c \in S : c <= v
    BY <1>2 DEF Highest
  <2>2. \A c \in S : v >= c
    BY <2>1
  <2>3. Max(S) \in S /\ \A c \in S : Max(S) >= c
    BY <2>1, <2>2 DEF Max
  <2>4. v = Max(S)
    <3> DEFINE m == Max(S)
    <3>1. m \in S /\ m >= v
      BY <2>1, <2>3
    <3> HIDE DEF m
    <3>2. m <= v /\ m \in Nat /\ v \in Nat
      BY <2>1, <3>1
    <3>3. v = m
      BY <3>1, <3>2
    <3> QED
      BY <3>3 DEF m
  <2> QED
    BY <1>2, <2>4
<1> QED
  BY <1>1, <1>2

(* The descent skips no place: one above the next base would overlap the region in the way. *)
LEMMA DescentFinds ==
  ASSUME Tidy(reserved), NEW low \in Nat \ {0}, NEW size \in Nat \ {0}, NEW align \in Nat \ {0},
         NEW f, Descends(f, low, size, align), NEW base \in 0 .. Limit, base % align = 0
  PROVE  Highest(f[base], {c \in low .. base : Open(c, size, align)})
<1> DEFINE P(b) == {c \in low .. b : Open(c, size, align)}
           T == {k \in 0 .. Limit : \A b \in 0 .. Limit : b <= k /\ b % align = 0 => Highest(f[b], P(b))}
<1>0. Limit \in Nat
  BY LimitAssumption
<1>1. \A b \in 0 .. Limit : f[b] = Descent(f, low, size, align, b)
  BY DEF Descends
<1>2. ASSUME NEW b \in 0 .. Limit, b < low PROVE Highest(f[b], P(b))
  <2>1. f[b] = 0
    BY <1>1, <1>2 DEF Descent, MEMBLOCK_ERROR
  <2>2. P(b) = {}
    BY <1>0, <1>2
  <2> QED
    BY <2>1, <2>2 DEF Highest
<1>3. 0 \in T
  <2>1. \A b \in 0 .. Limit : b <= 0 => b < low
    BY <1>0
  <2> HIDE DEF P
  <2> QED
    BY <1>0, <1>2, <2>1
<1>4. ASSUME NEW k \in 1 .. Limit, k - 1 \in T PROVE k \in T
  <2> HIDE DEF P
  <2> SUFFICES ASSUME NEW b \in 0 .. Limit, b <= k, b % align = 0 PROVE Highest(f[b], P(b))
    OBVIOUS
  <2>1. \A d \in 0 .. Limit : d <= k - 1 /\ d % align = 0 => Highest(f[d], P(d))
    BY <1>4
  <2>2. CASE b < low
    BY <1>2, <2>2
  <2>3. CASE ~ (b < low)
    <3> DEFINE j == memblock_overlaps_region(reserved, Region(b, size))
    <3>1. f[b] = IF j = 0 THEN b
                 ELSE IF reserved[j].base < size THEN 0
                 ELSE f[align_down(reserved[j].base - size, align)]
      BY <1>1, <2>3 DEF Descent, MEMBLOCK_ERROR
    <3>2. b \in Nat /\ b >= low
      BY <1>0, <2>3
    <3>3. /\ j = 0 => (b .. b + size - 1) \cap Covered(reserved) = {}
          /\ j # 0 => /\ j \in 1 .. Len(reserved) /\ Sorted(reserved) /\ reserved[j] \in Pieces
                      /\ reserved[j].base < b + size /\ b < End(reserved[j])
      BY <3>2, InTheWay
    <3> HIDE DEF j
    <3>4. CASE j = 0
      <4>1. b \in P(b)
        BY <3>2, <3>3, <3>4 DEF Open, P
      <4>2. \A c \in P(b) : c <= b
        BY <3>2 DEF P
      <4>3. P(b) # {} /\ f[b] = b
        BY <3>1, <3>4, <4>1
      <4> QED
        BY <4>1, <4>2, <4>3 DEF Highest
    <3>5. CASE j # 0
      <4> DEFINE e == reserved[j]
      <4>1. /\ e.base \in Nat /\ End(e) \in Nat /\ e.base < End(e)
            /\ e.base < b + size /\ b < End(e) /\ Span(e) \subseteq Covered(reserved)
        BY <3>3, <3>5, PieceFacts, SortedFacts
      <4> HIDE DEF e
      <4>2. ASSUME NEW c \in P(b) PROVE c + size <= e.base
        <5>1. c \in Nat /\ c <= b /\ (c .. c + size - 1) \cap Span(e) = {}
          BY <3>2, <4>1 DEF P, Open
        <5>2. SUFFICES ASSUME e.base < c + size PROVE FALSE
          BY <4>1, <5>1
        <5>3. CASE c <= e.base
          <6>1. e.base \in c .. c + size - 1 /\ e.base \in Span(e)
            BY <4>1, <5>1, <5>2, <5>3 DEF Span
          <6> QED
            BY <5>1, <6>1
        <5>4. CASE e.base < c
          <6>1. c \in c .. c + size - 1 /\ c \in Span(e)
            BY <3>2, <4>1, <5>1, <5>4 DEF Span
          <6> QED
            BY <5>1, <6>1
        <5> QED
          BY <4>1, <5>1, <5>3, <5>4
      <4>3. CASE e.base < size
        <5>1. f[b] = 0
          BY <3>1, <3>5, <4>3 DEF e
        <5>2. P(b) = {}
          <6> SUFFICES ASSUME NEW c \in P(b) PROVE FALSE
            OBVIOUS
          <6>1. c + size <= e.base /\ c \in Nat
            BY <3>2, <4>2 DEF P
          <6> QED
            BY <4>1, <4>3, <6>1
        <5> QED
          BY <5>1, <5>2 DEF Highest
      <4>4. CASE ~ (e.base < size)
        <5> DEFINE a == e.base - size
                   d == align_down(a, align)
        <5>1. a \in Nat /\ a < b
          BY <3>2, <4>1, <4>4
        <5>2. f[b] = f[d]
          BY <3>1, <3>5, <4>4 DEF e
        <5> HIDE DEF a
        <5>3. /\ d \in Nat /\ d <= a /\ d % align = 0
              /\ \A c \in Nat : c <= a /\ c % align = 0 => c <= d
          BY <5>1, AlignedDown
        <5> HIDE DEF d
        <5>4. d \in 0 .. Limit /\ d <= k - 1
          BY <1>0, <3>2, <5>1, <5>3
        <5>5. P(b) = P(d)
          <6>1. ASSUME NEW c \in P(b) PROVE c \in P(d)
            <7>1. c \in Nat /\ c >= low /\ c % align = 0 /\ Open(c, size, align)
              BY <3>2 DEF P, Open
            <7>2. c <= a
              BY <4>1, <4>2, <7>1 DEF a
            <7> QED
              BY <5>3, <7>1, <7>2 DEF P
          <6>2. ASSUME NEW c \in P(d) PROVE c \in P(b)
            BY <3>2, <5>1, <5>3 DEF P
          <6> QED
            BY <6>1, <6>2
        <5>6. Highest(f[d], P(d))
          BY <2>1, <5>3, <5>4
        <5> QED
          BY <5>2, <5>5, <5>6
      <4> QED
        BY <4>3, <4>4
    <3> QED
      BY <3>4, <3>5
  <2> QED
    BY <2>2, <2>3
<1> HIDE DEF T
<1>5. 0 .. Limit \subseteq T
  BY <1>0, <1>3, <1>4, InductionUpTo
<1>6. base \in T
  BY <1>5
<1> QED
  BY <1>0, <1>6 DEF T

(* memblock_find_region finds the highest place below end. *)
LEMMA FindsInRegion ==
  ASSUME Tidy(reserved), NEW start \in Nat, NEW end \in 0 .. Limit,
         NEW size \in Nat \ {0}, NEW align \in Nat \ {0}
  PROVE  Highest(memblock_find_region(start, end, size, align),
                 {c \in Lowest(start) .. Limit : c + size <= end /\ Open(c, size, align)})
<1>0. PICK f : SearchedBy(f, start, end, size, align)
  BY SearchIsDescent
<1> DEFINE low == Lowest(start)
           S == {c \in low .. Limit : c + size <= end /\ Open(c, size, align)}
           v == memblock_find_region(start, end, size, align)
<1>1. low \in Nat \ {0} /\ Limit \in Nat
  BY LimitAssumption DEF Lowest
<1> HIDE DEF low, v
<1>2. /\ Descends(f, low, size, align)
      /\ v = IF end < size THEN MEMBLOCK_ERROR ELSE f[align_down(end - size, align)]
  BY <1>0 DEF low, v, SearchedBy
<1>3. CASE end < size
  <2>1. v = 0
    BY <1>2, <1>3 DEF MEMBLOCK_ERROR
  <2>2. S = {}
    BY <1>1, <1>3
  <2> QED
    BY <2>1, <2>2 DEF Highest, v, low
<1>4. CASE ~ (end < size)
  <2> DEFINE a == end - size
             d == align_down(a, align)
  <2>1. a \in Nat /\ a <= Limit
    BY <1>1, <1>4
  <2>2. v = f[d]
    BY <1>2, <1>4
  <2> HIDE DEF a
  <2>3. /\ d \in Nat /\ d <= a /\ d % align = 0
        /\ \A c \in Nat : c <= a /\ c % align = 0 => c <= d
    BY <2>1, AlignedDown
  <2> HIDE DEF d
  <2>4. d \in 0 .. Limit
    BY <1>1, <2>1, <2>3
  <2>5. Highest(f[d], {c \in low .. d : Open(c, size, align)})
    BY <1>1, <1>2, <2>3, <2>4, DescentFinds
  <2>6. S = {c \in low .. d : Open(c, size, align)}
    <3>1. ASSUME NEW c \in S PROVE c \in low .. d
      <4>1. c \in Nat /\ c >= low /\ c % align = 0 /\ c + size <= end
        BY <1>1 DEF Open
      <4>2. c <= a
        BY <4>1 DEF a
      <4> QED
        BY <1>1, <2>3, <4>1, <4>2
    <3>2. ASSUME NEW c \in low .. d, Open(c, size, align) PROVE c \in S
      <4>1. c \in low .. Limit /\ c + size <= end
        BY <1>1, <2>1, <2>3, <3>2 DEF a
      <4> QED
        BY <3>2, <4>1
    <3> QED
      BY <3>1, <3>2
  <2> QED
    BY <2>2, <2>5, <2>6 DEF v, low
<1> QED
  BY <1>3, <1>4

(* The lesser of two bounds. *)
LEMMA LeastOfTwo ==
  ASSUME NEW a \in Nat, NEW b \in Nat
  PROVE  /\ Min({a, b}) \in Nat /\ Min({a, b}) <= a /\ Min({a, b}) <= b
         /\ \A c \in Int : c <= a /\ c <= b => c <= Min({a, b})
<1>1. {a, b} \subseteq Nat /\ {a, b} # {} /\ a \in {a, b} /\ b \in {a, b}
  OBVIOUS
<1>2. Min({a, b}) \in {a, b} /\ \A m \in {a, b} : Min({a, b}) <= m
  BY <1>1, MinOfNumbers
<1>3. (Min({a, b}) = a \/ Min({a, b}) = b) /\ Min({a, b}) <= a /\ Min({a, b}) <= b
  BY <1>2
<1> QED
  BY <1>3

(* What memblock_find_base makes of one region of memory, and the places there. *)
FoundIn(i, size, align, top) ==
  LET end == Min({End(memory[i]), top})
  IN IF memory[i].size < size \/ memory[i].base >= end
     THEN MEMBLOCK_ERROR
     ELSE memblock_find_region(memory[i].base, end, size, align)

(* The places in the region i of memory. *)
PlacesIn(i, size, align, top) ==
  {c \in Lowest(memory[i].base) .. Limit :
     c + size <= Min({End(memory[i]), top}) /\ Open(c, size, align)}

(* In each region the highest of its places is found. *)
LEMMA FindsInEntry ==
  ASSUME Tidy(reserved), Sorted(memory), NEW i \in 1 .. Len(memory),
         NEW size \in Nat \ {0}, NEW align \in Nat \ {0}, NEW top \in 1 .. Limit
  PROVE  Highest(FoundIn(i, size, align, top), PlacesIn(i, size, align, top))
<1> DEFINE b == memory[i].base
           s == memory[i].size
           e == End(memory[i])
           low == Lowest(b)
           end == Min({e, top})
           P == PlacesIn(i, size, align, top)
<1>1. memory[i] \in Pieces
  BY SortedFacts
<1>2. b \in Nat /\ s \in Nat /\ e \in Nat /\ e = b + s /\ e <= Limit
  BY <1>1, PieceFacts
<1>3. top \in Nat /\ top <= Limit /\ Limit \in Nat
  BY LimitAssumption
<1>4. low \in Nat /\ low >= b
  BY <1>2, LimitAssumption DEF Lowest
<1>5. P = {c \in low .. Limit : c + size <= end /\ Open(c, size, align)}
  BY DEF PlacesIn
<1>6. FoundIn(i, size, align, top) =
        IF s < size \/ b >= end THEN 0 ELSE memblock_find_region(b, end, size, align)
  BY DEF FoundIn, MEMBLOCK_ERROR
<1> HIDE DEF b, s, e, low, P
<1>7. end \in Nat /\ end <= e /\ end <= top
  BY <1>2, <1>3, LeastOfTwo
<1> HIDE DEF end
<1>8. CASE s < size \/ b >= end
  <2>1. P = {}
    BY <1>2, <1>4, <1>5, <1>7, <1>8
  <2> QED
    BY <1>6, <1>8, <2>1 DEF Highest, P
<1>9. CASE ~ (s < size \/ b >= end)
  <2>1. end \in 0 .. Limit
    BY <1>3, <1>7
  <2>2. Highest(memblock_find_region(b, end, size, align),
                {c \in Lowest(b) .. Limit : c + size <= end /\ Open(c, size, align)})
    BY <1>2, <2>1, FindsInRegion
  <2>3. Highest(FoundIn(i, size, align, top), P)
    BY <1>5, <1>6, <1>9, <2>2 DEF low
  <2> QED
    BY <2>3 DEF P
<1> QED
  BY <1>8, <1>9

(* The banks start at pages. *)
PageAligned(t) == \A i \in 1 .. Len(t) : t[i].base = 0 \/ t[i].base >= PageSize

(* The places in memory are the places in its regions. *)
LEMMA FitsAreInEntries ==
  ASSUME Tidy(reserved), Sorted(memory), PageAligned(memory),
         NEW size \in Nat \ {0}, NEW align \in Nat \ {0}, NEW top \in 1 .. Limit
  PROVE  \A c : c \in Fits(size, align, top) <=>
                \E i \in 1 .. Len(memory) : c \in PlacesIn(i, size, align, top)
<1>0. /\ Len(memory) \in Nat /\ \A i \in 1 .. Len(memory) : memory[i] \in Pieces
      /\ Covered(memory) = UNION {Span(memory[i]) : i \in 1 .. Len(memory)}
  BY SortedFacts
<1>1. top \in Nat /\ top <= Limit /\ Limit \in Nat /\ PageSize \in Nat \ {0}
  BY LimitAssumption
<1>2. ASSUME NEW c \in Fits(size, align, top)
      PROVE  \E i \in 1 .. Len(memory) : c \in PlacesIn(i, size, align, top)
  <2>1. /\ c \in Nat /\ c >= PageSize /\ c % align = 0 /\ c + size <= top
        /\ c .. c + size - 1 \subseteq Covered(memory) \ Covered(reserved)
    BY <1>1, <1>2 DEF Fits
  <2> DEFINE r == Region(c, size)
  <2>2. r \in Pieces /\ r.base = c /\ End(r) = c + size
    BY <1>1, <2>1, PieceOf
  <2>3. Span(r) \subseteq Covered(memory)
    BY <2>1, <2>2 DEF Span
  <2>4. PICK i \in 1 .. Len(memory) : memory[i].base <= r.base /\ End(r) <= End(memory[i])
    BY <2>2, <2>3, InOneEntry
  <2> HIDE DEF r
  <2>5. memory[i].base \in Nat /\ End(memory[i]) \in Nat
    BY <1>0, PieceFacts
  <2>6. c >= Lowest(memory[i].base) /\ Lowest(memory[i].base) \in Nat
    BY <1>1, <2>1, <2>2, <2>4, <2>5 DEF Lowest
  <2>7. c + size <= Min({End(memory[i]), top})
    <3>1. c + size <= End(memory[i]) /\ c + size <= top /\ c + size \in Int
      BY <2>1, <2>2, <2>4
    <3> QED
      BY <1>1, <2>5, <3>1, LeastOfTwo
  <2>8. Open(c, size, align)
    BY <2>1 DEF Open
  <2>9. c \in Lowest(memory[i].base) .. Limit
    BY <1>1, <2>1, <2>6
  <2> QED
    BY <2>7, <2>8, <2>9 DEF PlacesIn
<1>3. ASSUME NEW i \in 1 .. Len(memory), NEW c \in PlacesIn(i, size, align, top)
      PROVE  c \in Fits(size, align, top)
  <2>1. memory[i].base \in Nat /\ End(memory[i]) \in Nat
    BY <1>0, PieceFacts
  <2>2. memory[i].base = 0 \/ memory[i].base >= PageSize
    BY DEF PageAligned
  <2>3. /\ Lowest(memory[i].base) \in Nat /\ Lowest(memory[i].base) >= PageSize
        /\ Lowest(memory[i].base) >= memory[i].base
    BY <1>1, <2>1, <2>2 DEF Lowest
  <2>4. /\ c \in Lowest(memory[i].base) .. Limit /\ Open(c, size, align)
        /\ c + size <= Min({End(memory[i]), top})
    BY DEF PlacesIn
  <2>5. c \in Nat /\ c >= PageSize /\ c >= memory[i].base
    BY <1>1, <2>1, <2>3, <2>4
  <2>6. c + size <= End(memory[i]) /\ c + size <= top
    <3> DEFINE m == Min({End(memory[i]), top})
    <3>1. m \in Nat /\ m <= End(memory[i]) /\ m <= top
      BY <1>1, <2>1, LeastOfTwo
    <3>2. c + size <= m
      BY <2>4
    <3> HIDE DEF m
    <3> QED
      BY <1>1, <2>1, <2>5, <3>1, <3>2
  <2>7. c .. c + size - 1 \subseteq Span(memory[i])
    BY <2>1, <2>5, <2>6 DEF Span
  <2>8. Span(memory[i]) \subseteq Covered(memory)
    BY <1>0
  <2>9. c .. c + size - 1 \subseteq Covered(memory) \ Covered(reserved) /\ c % align = 0
    BY <2>4, <2>7, <2>8 DEF Open
  <2>10. c \in PageSize .. Limit - 1
    BY <1>1, <2>5, <2>6
  <2> QED
    BY <2>6, <2>9, <2>10 DEF Fits
<1> QED
  BY <1>2, <1>3

(* MEMBLOCK_ALLOC_ACCESSIBLE stands for current_limit. *)
UpTo(max) == IF max = MEMBLOCK_ALLOC_ACCESSIBLE THEN current_limit ELSE max

(* memblock_find_base takes the last region with a hit. *)
LEMMA BaseIsFound ==
  ASSUME NEW size, NEW align, NEW max
  PROVE  LET hits == {i \in 1 .. Len(memory) : FoundIn(i, size, align, UpTo(max)) # 0}
         IN memblock_find_base(size, align, max) =
              IF hits = {} THEN 0 ELSE FoundIn(Max(hits), size, align, UpTo(max))
BY DEF memblock_find_base, FoundIn, UpTo, MEMBLOCK_ERROR

(* memblock_find_base finds the highest place there is. *)
LEMMA FindsBase ==
  ASSUME Tidy(reserved), Tidy(memory), PageAligned(memory),
         NEW size \in Nat \ {0}, NEW align \in Nat \ {0}, NEW max, UpTo(max) \in 1 .. Limit
  PROVE  Highest(memblock_find_base(size, align, max), Fits(size, align, UpTo(max)))
<1> DEFINE top == UpTo(max)
           n == Len(memory)
           found(i) == FoundIn(i, size, align, top)
           places(i) == PlacesIn(i, size, align, top)
           hits == {i \in 1 .. n : found(i) # 0}
           v == memblock_find_base(size, align, max)
           F == Fits(size, align, top)
<1>1. v = IF hits = {} THEN 0 ELSE found(Max(hits))
  BY BaseIsFound
<1>2. top \in 1 .. Limit
  OBVIOUS
<1>3. SUFFICES Highest(v, F)
  OBVIOUS
<1> HIDE DEF v, top
<1>4. CASE memory = EmptyTable
  <2>1. n = 1 /\ memory[1].size = 0 /\ Covered(memory) = {}
    BY <1>4, EmptyTableFacts DEF EmptyTable, Region
  <2>2. found(1) = 0
    BY <2>1 DEF FoundIn, MEMBLOCK_ERROR
  <2>3. hits = {}
    <3> HIDE DEF found
    <3> QED
      BY <2>1, <2>2
  <2>4. F = {}
    <3> SUFFICES ASSUME NEW c \in F PROVE FALSE
      OBVIOUS
    <3>1. c \in Int /\ c .. c + size - 1 \subseteq Covered(memory)
      BY LimitAssumption DEF Fits
    <3>2. c \in c .. c + size - 1
      BY <3>1
    <3> QED
      BY <2>1, <3>1, <3>2
  <2> QED
    BY <1>1, <2>3, <2>4 DEF Highest
<1>5. CASE memory # EmptyTable
  <2>1. Sorted(memory)
    BY <1>5 DEF Tidy
  <2>2. /\ n \in Nat /\ \A i \in 1 .. n : memory[i] \in Pieces
        /\ \A i, j \in 1 .. n : i < j => End(memory[i]) < memory[j].base
    BY <2>1, SortedFacts
  <2>3. \A i \in 1 .. n : Highest(found(i), places(i))
    BY <1>2, <2>1, FindsInEntry
  <2>4. \A c : c \in F <=> \E i \in 1 .. n : c \in places(i)
    BY <1>2, <2>1, FitsAreInEntries
  <2>5. ASSUME NEW i \in 1 .. n, NEW c \in places(i)
        PROVE  c \in Nat \ {0} /\ memory[i].base <= c /\ c < End(memory[i])
    <3>1. memory[i].base \in Nat /\ End(memory[i]) \in Nat
      BY <2>2, PieceFacts
    <3>2. /\ Lowest(memory[i].base) \in Nat \ {0} /\ Lowest(memory[i].base) >= memory[i].base
      BY <3>1, LimitAssumption DEF Lowest
    <3>3. c \in Lowest(memory[i].base) .. Limit /\ c + size <= Min({End(memory[i]), top})
      BY DEF PlacesIn
    <3>4. c \in Nat \ {0} /\ memory[i].base <= c
      BY <3>1, <3>2, <3>3, LimitAssumption
    <3>5. c + size <= End(memory[i])
      <4> DEFINE m == Min({End(memory[i]), top})
      <4>1. m \in Nat /\ m <= End(memory[i])
        BY <1>2, <3>1, LimitAssumption, LeastOfTwo
      <4>2. c + size <= m
        BY <3>3
      <4> HIDE DEF m
      <4> QED
        BY <3>1, <3>4, <4>1, <4>2
    <3> QED
      BY <3>1, <3>4, <3>5
  <2> HIDE DEF found, places, F
  <2>6. \A i \in 1 .. n : found(i) = 0 <=> places(i) = {}
    BY <2>3, <2>5 DEF Highest
  <2>7. CASE hits = {}
    <3>1. F = {}
      BY <2>4, <2>6, <2>7
    <3> QED
      BY <1>1, <2>7, <3>1 DEF Highest
  <2>8. CASE hits # {}
    <3> DEFINE m == Max(hits)
    <3>1. hits \subseteq 0 .. n
      BY <2>2
    <3>2. m \in hits /\ \A i \in hits : m >= i
      <4> HIDE DEF hits
      <4> QED
        BY <2>2, <2>8, <3>1, MaxOfNumbers
    <3>3. v = found(m)
      BY <1>1, <2>8
    <3> HIDE DEF m
    <3>4. m \in 1 .. n /\ found(m) # 0
      BY <3>2
    <3>5. v \in places(m) /\ \A c \in places(m) : c <= v
      BY <2>3, <2>6, <3>3, <3>4 DEF Highest
    <3>6. ASSUME NEW c \in F PROVE c <= v
      <4>1. PICK i \in 1 .. n : c \in places(i)
        BY <2>4
      <4>2. i \in hits
        BY <2>6, <4>1
      <4>3. i <= m
        BY <2>2, <3>2, <3>4, <4>2
      <4>4. CASE i = m
        BY <3>5, <4>1, <4>4
      <4>5. CASE i < m
        <5>1. End(memory[i]) < memory[m].base
          BY <2>2, <3>4, <4>5
        <5>2. c < End(memory[i]) /\ memory[m].base <= v /\ c \in Nat /\ v \in Nat
          BY <2>5, <3>4, <3>5, <4>1
        <5>3. End(memory[i]) \in Nat /\ memory[m].base \in Nat
          BY <2>2, <3>4, PieceFacts
        <5> QED
          BY <5>1, <5>2, <5>3
      <4> QED
        BY <2>2, <3>4, <4>3, <4>4, <4>5
    <3>7. v \in F
      BY <2>4, <3>4, <3>5
    <3> QED
      BY <3>6, <3>7 DEF Highest
  <2> QED
    BY <2>7, <2>8
<1> QED
  BY <1>4, <1>5

-----------------------------------------------------------------------------
(* What every state of the boot sequence has *)

(* The regions of a table start where one of the first n banks starts, and
   end where one ends.                                                     *)
MadeOf(t, n) ==
  t # EmptyTable =>
    \A e \in ToSet(t) : /\ \E i \in 1 .. Len(Banks) : i <= n /\ e.base = Banks[i].base
                        /\ \E i \in 1 .. Len(Banks) : i <= n /\ End(e) = End(Banks[i])

(* A bank behind the first n overlaps no region but one that is equal to it. *)
Ahead(t, n) ==
  t # EmptyTable =>
    \A k \in n + 1 .. Len(Banks), e \in ToSet(t) :
      Banks[k] = e \/ ~ memblock_addrs_overlap(Banks[k], e)

(* Both tables are tidy, and nothing is reserved before the banks are added. *)
TablesTidy ==
  /\ Tidy(memory) /\ Tidy(reserved)
  /\ booted <= Len(Banks) => reserved = EmptyTable

(* The inductive invariant. *)
IInv == TypeOK /\ TablesTidy /\ RoomLeft /\ MadeOf(memory, booted) /\ Ahead(memory, booted)

(* What MachineAssumption says of the machine that is booted. *)
LEMMA MachineFacts ==
  ASSUME machine \in Machines
  PROVE  /\ MaxRegions \in Nat /\ MaxRegions > 2 /\ Len(Banks) \in Nat
         /\ \A k \in 1 .. Len(Banks) : Banks[k] \in Pieces /\ Banks[k].base % PageSize = 0
         /\ \A i, j \in 1 .. Len(Banks) : i < j =>
              \/ ~ memblock_addrs_overlap(Banks[i], Banks[j])
              \/ /\ Banks[i] = Banks[j]
                 /\ \A k \in 1 .. j - 1 : ~ Touch(Banks[k], Banks[j])
<1> DEFINE B == {b \in Regions : End(b) <= Limit /\ b.base % PageSize = 0}
           n == Len(Banks)
<1>1. /\ MaxRegions \in Nat /\ MaxRegions > 2 /\ Banks \in Seq(B)
      /\ \A j \in 1 .. n : \A i \in 1 .. j - 1 :
           \/ ~ memblock_addrs_overlap(Banks[i], Banks[j])
           \/ /\ Banks[i] = Banks[j]
              /\ \A k \in 1 .. j - 1 : memblock_addrs_adjacent(Banks[k], Banks[j]) = 0
  BY MachineAssumption DEF MaxRegions, Banks
<1>2. n \in Nat /\ \A k \in 1 .. n : Banks[k] \in B
  <2> HIDE DEF B
  <2> QED
    BY <1>1
<1>3. ASSUME NEW b \in B PROVE b \in Pieces /\ b.base % PageSize = 0
  BY LimitAssumption DEF Regions, Pieces, Entries
<1>4. ASSUME NEW i \in 1 .. n, NEW j \in 1 .. n, i < j
      PROVE  \/ ~ memblock_addrs_overlap(Banks[i], Banks[j])
             \/ /\ Banks[i] = Banks[j]
                /\ \A k \in 1 .. j - 1 : ~ Touch(Banks[k], Banks[j])
  <2>1. i \in 1 .. j - 1
    BY <1>2, <1>4
  <2> QED
    BY <1>1, <2>1 DEF Touch
<1> HIDE DEF B
<1> QED
  BY <1>1, <1>2, <1>3, <1>4

(* The first bank is the whole table. *)
LEMMA FirstBank ==
  ASSUME NEW r
  PROVE  memblock_add_region(EmptyTable, r) = [table |-> <<r>>, ok |-> TRUE]
BY EmptyTableFacts DEF memblock_add_region

(* The next bank may be added, and the ones behind it stay ahead. *)
LEMMA NextBank ==
  ASSUME IInv, booted < Len(Banks)
  PROVE  LET r   == Banks[booted + 1]
             new == memblock_add_region(memory, r)
         IN /\ r \in Pieces /\ Adds(new, memory, r)
            /\ MadeOf(new.table, booted + 1) /\ Ahead(new.table, booted + 1)
<1> DEFINE n == booted + 1
           r == Banks[n]
           new == memblock_add_region(memory, r)
           u == new.table
<1>1. /\ machine \in Machines /\ booted \in Nat /\ Tidy(memory) /\ Len(memory) < MaxRegions
      /\ MadeOf(memory, booted) /\ Ahead(memory, booted)
  BY MachineFacts DEF IInv, TypeOK, TablesTidy, RoomLeft
<1>2. /\ MaxRegions \in Nat /\ MaxRegions > 2 /\ Len(Banks) \in Nat
      /\ \A k \in 1 .. Len(Banks) : Banks[k] \in Pieces
      /\ \A i, j \in 1 .. Len(Banks) : i < j =>
           \/ ~ memblock_addrs_overlap(Banks[i], Banks[j])
           \/ /\ Banks[i] = Banks[j]
              /\ \A k \in 1 .. j - 1 : ~ Touch(Banks[k], Banks[j])
  BY <1>1, MachineFacts
<1>3. n \in 1 .. Len(Banks) /\ r \in Pieces
  BY <1>1, <1>2
<1>4. CASE memory = EmptyTable
  <2>1. u = <<r>> /\ ToSet(u) = {r}
    BY <1>3, <1>4, FirstBank, SingleList
  <2>2. Adds(new, memory, r)
    BY <1>2, <1>3, <1>4, AddedToEmpty
  <2>3. MadeOf(u, n)
    <3>1. n <= n
      BY <1>1
    <3> QED
      BY <1>3, <2>1, <3>1 DEF MadeOf
  <2>4. Ahead(u, n)
    <3> SUFFICES ASSUME NEW k \in n + 1 .. Len(Banks)
                 PROVE  Banks[k] = r \/ ~ memblock_addrs_overlap(Banks[k], r)
      BY <2>1 DEF Ahead
    <3>1. k \in 1 .. Len(Banks) /\ n < k
      BY <1>1, <1>2
    <3>2. Banks[n] = Banks[k] \/ ~ memblock_addrs_overlap(Banks[n], Banks[k])
      BY <1>2, <1>3, <3>1
    <3> QED
      BY <1>2, <1>3, <3>1, <3>2, OverlapFacts
  <2> QED
    BY <1>3, <2>2, <2>3, <2>4
<1>5. CASE memory # EmptyTable
  <2> HIDE DEF r, u, new
  <2>1. Sorted(memory) /\ ToSet(memory) \subseteq Pieces
    BY <1>1, <1>5, CoveredBy DEF Tidy
  <2>2. \A e \in ToSet(memory) : /\ \E i \in 1 .. booted : e.base = Banks[i].base
                                 /\ \E i \in 1 .. booted : End(e) = End(Banks[i])
    <3>1. \A i \in 1 .. Len(Banks) : i <= booted => i \in 1 .. booted
      BY <1>1, <1>2
    <3> QED
      BY <1>1, <1>5, <3>1 DEF MadeOf
  <2>3. \A k \in n .. Len(Banks), e \in ToSet(memory) :
          Banks[k] = e \/ ~ memblock_addrs_overlap(Banks[k], e)
    BY <1>1, <1>5 DEF Ahead
  <2>4. MayAdd(memory, r)
    <3>1. n \in n .. Len(Banks)
      BY <1>1, <1>2, <1>3
    <3> QED
      BY <2>3, <3>1 DEF MayAdd, r
  <2>5. Adds(new, memory, r)
    BY <1>1, <1>2, <1>3, <2>4, AddedTo DEF new
  <2>6. From(u, memory, r) /\ u # EmptyTable
    BY <2>5, EmptyTableFacts DEF Adds, u
  <2>7. MadeOf(u, n)
    <3>0. \A i \in 1 .. n : i \in 1 .. Len(Banks) /\ i <= n
      BY <1>1, <1>2, <1>3
    <3> SUFFICES ASSUME NEW e \in ToSet(u)
                 PROVE  /\ \E i \in 1 .. n : e.base = Banks[i].base
                        /\ \E i \in 1 .. n : End(e) = End(Banks[i])
      BY <3>0 DEF MadeOf
    <3>1. /\ \E f \in ToSet(memory) \cup {r} : e.base = f.base
          /\ \E f \in ToSet(memory) \cup {r} : End(e) = End(f)
      BY <2>6 DEF From
    <3>2. n \in 1 .. n /\ \A i \in 1 .. booted : i \in 1 .. n
      BY <1>1
    <3>3. \A f \in ToSet(memory) \cup {r} : /\ \E i \in 1 .. n : f.base = Banks[i].base
                                           /\ \E i \in 1 .. n : End(f) = End(Banks[i])
      BY <2>2, <3>2 DEF r
    <3> QED
      BY <3>1, <3>3
  <2>8. Ahead(u, n)
    <3> SUFFICES ASSUME NEW k \in n + 1 .. Len(Banks)
                 PROVE  \A e \in ToSet(u) : Banks[k] = e \/ ~ memblock_addrs_overlap(Banks[k], e)
      BY DEF Ahead
    <3> DEFINE c == Banks[k]
    <3>1. k \in 1 .. Len(Banks) /\ n < k /\ k \in n .. Len(Banks) /\ n \in 1 .. k - 1
      BY <1>1, <1>2
    <3>2. c \in Pieces /\ r = Banks[n]
      BY <1>2, <3>1 DEF r
    <3>3. \A i \in 1 .. booted : /\ i \in 1 .. Len(Banks) /\ i < k /\ i \in 1 .. k - 1
                                 /\ Banks[i] \in Pieces
      BY <1>1, <1>2, <3>1
    <3>4. \A i \in 1 .. k - 1 : memblock_addrs_overlap(Banks[i], c) =>
            Banks[i] = c /\ \A m \in 1 .. k - 1 : ~ Touch(Banks[m], c)
      <4>1. \A i \in 1 .. k - 1 : i \in 1 .. Len(Banks) /\ i < k
        BY <1>1, <1>2, <3>1
      <4> QED
        BY <1>2, <3>1, <4>1
    <3> HIDE DEF c
    <3>5. \A f \in ToSet(memory) : c = f \/ ~ memblock_addrs_overlap(c, f)
      BY <2>3, <3>1 DEF c
    <3>6. c = r \/ ~ memblock_addrs_overlap(c, r)
      BY <1>3, <3>1, <3>2, <3>4, OverlapFacts
    <3>7. ASSUME c \in ToSet(memory) PROVE ~ Touch(r, c)
      <4>1. PICK i \in 1 .. booted : c.base = Banks[i].base
        BY <2>2, <3>7
      <4>2. memblock_addrs_overlap(Banks[i], c)
        BY <3>2, <3>3, <4>1, PieceFacts DEF memblock_addrs_overlap
      <4> QED
        BY <3>1, <3>2, <3>3, <3>4, <4>2
    <3>8. ASSUME c = r, NEW f \in ToSet(memory) PROVE ~ Touch(r, f)
      <4>1. memblock_addrs_overlap(r, c)
        BY <3>2, <3>8, PieceFacts DEF memblock_addrs_overlap
      <4>2. \A m \in 1 .. k - 1 : ~ Touch(Banks[m], c)
        BY <3>1, <3>2, <3>4, <4>1
      <4>3. PICK i \in 1 .. booted, j \in 1 .. booted :
              f.base = Banks[i].base /\ End(f) = End(Banks[j])
        BY <2>2
      <4>4. ~ Touch(Banks[i], c) /\ ~ Touch(Banks[j], c) /\ Banks[i] \in Pieces /\ Banks[j] \in Pieces
        BY <3>3, <4>2
      <4>5. c.base # End(Banks[j]) /\ Banks[i].base # End(c)
        BY <3>2, <4>4, TouchFacts
      <4> QED
        BY <1>3, <2>1, <3>8, <4>3, <4>5, TouchFacts
    <3>9. \A e \in ToSet(u) : c = e \/ ~ memblock_addrs_overlap(c, e)
      BY <2>6, <3>2, <3>5, <3>6, <3>7, <3>8, StillAhead
    <3> QED
      BY <3>9 DEF c
  <2> QED
    BY <1>3, <2>5, <2>7, <2>8 DEF u, new, r
<1> QED
  BY <1>4, <1>5

(* No region of memory starts inside page 0 but at its start. *)
LEMMA BanksAtPages ==
  ASSUME IInv
  PROVE  PageAligned(memory)
<1> SUFFICES ASSUME NEW i \in 1 .. Len(memory)
             PROVE  memory[i].base = 0 \/ memory[i].base >= PageSize
  BY DEF PageAligned
<1>1. machine \in Machines /\ Tidy(memory) /\ MadeOf(memory, booted)
  BY DEF IInv, TypeOK, TablesTidy
<1>2. CASE memory = EmptyTable
  <2>1. i = 1
    BY <1>2, EmptyTableFacts
  <2> QED
    BY <1>2, <2>1 DEF EmptyTable, Region
<1>3. CASE memory # EmptyTable
  <2>1. memory[i] \in ToSet(memory)
    BY <1>1, <1>3, SortedFacts DEF Tidy
  <2>2. PICK j \in 1 .. Len(Banks) : memory[i].base = Banks[j].base
    BY <1>1, <1>3, <2>1 DEF MadeOf
  <2> DEFINE b == memory[i].base
  <2>3. b \in Nat /\ b % PageSize = 0
    BY <1>1, <2>2, MachineFacts, PieceFacts
  <2> HIDE DEF b
  <2>4. PageSize \in Nat \ {0}
    BY LimitAssumption
  <2>5. b = 0 \/ b >= PageSize
    BY <2>3, <2>4
  <2> QED
    BY <2>5 DEF b
<1> QED
  BY <1>2, <1>3

(* What __memblock_alloc_base finds is memory, aligned and not reserved. *)
LEMMA PlaceIsFree ==
  ASSUME IInv, NEW size \in AllocSizes, NEW align \in Aligns, NEW max \in Maxima
  PROVE  LET up    == align_up(size, align)
             found == memblock_find_base(up, align, max)
         IN /\ Highest(found, Fits(up, align, UpTo(max)))
            /\ found # 0 => /\ Region(found, up) \in Pieces /\ MayAdd(reserved, Region(found, up))
                            /\ found \in 0 .. Limit - 1 /\ up \in 1 .. Limit
                            /\ up % align = 0 /\ found % align = 0
                            /\ Span(Region(found, up)) = found .. found + up - 1
                            /\ Span(Region(found, up)) \subseteq Covered(memory) \ Covered(reserved)
<1> DEFINE up    == align_up(size, align)
           found == memblock_find_base(up, align, max)
           r     == Region(found, up)
<1>1. /\ size \in Nat \ {0} /\ align \in Nat \ {0} /\ Limit \in Nat \ {0} /\ PageSize \in Nat \ {0}
  BY CallerAssumption, LimitAssumption
<1>2. Tidy(memory) /\ Tidy(reserved) /\ current_limit \in {Limit, LowmemLimit}
  BY DEF IInv, TypeOK, TablesTidy
<1>3. UpTo(max) \in 1 .. Limit
  BY <1>1, <1>2, CallerAssumption DEF Maxima, UpTo, MEMBLOCK_ALLOC_ACCESSIBLE
<1>4. up \in Nat \ {0} /\ up % align = 0
  BY <1>1, AlignedUp
<1> HIDE DEF up
<1>5. Highest(found, Fits(up, align, UpTo(max)))
  BY <1>1, <1>2, <1>3, <1>4, BanksAtPages, FindsBase
<1> HIDE DEF found
<1>6. ASSUME found # 0
      PROVE  /\ r \in Pieces /\ MayAdd(reserved, r) /\ found \in 0 .. Limit - 1 /\ up \in 1 .. Limit
             /\ found % align = 0 /\ Span(r) = found .. found + up - 1
             /\ Span(r) \subseteq Covered(memory) \ Covered(reserved)
  <2>1. found \in Fits(up, align, UpTo(max))
    BY <1>5, <1>6 DEF Highest
  <2>2. /\ found \in PageSize .. Limit - 1 /\ found % align = 0 /\ found + up <= UpTo(max)
        /\ found .. found + up - 1 \subseteq Covered(memory) \ Covered(reserved)
    BY <2>1 DEF Fits
  <2>3. found \in Nat /\ found + up <= Limit /\ found \in 0 .. Limit - 1 /\ up \in 1 .. Limit
    BY <1>1, <1>3, <1>4, <2>2
  <2>4. r \in Pieces /\ r.base = found /\ End(r) = found + up
    BY <1>4, <2>3, PieceOf
  <2> HIDE DEF r
  <2>5. Span(r) = found .. found + up - 1
    BY <1>4, <2>3, <2>4 DEF Span
  <2>6. MayAdd(reserved, r)
    <3>1. CASE reserved = EmptyTable
      BY <3>1 DEF MayAdd
    <3>2. CASE reserved # EmptyTable
      <4>1. Sorted(reserved)
        BY <1>2, <3>2 DEF Tidy
      <4>2. ASSUME NEW e \in ToSet(reserved) PROVE ~ memblock_addrs_overlap(r, e)
        <5>1. e \in Pieces /\ Span(e) \subseteq Covered(reserved)
          BY <4>1, CoveredBy
        <5>2. Span(r) \cap Span(e) = {}
          BY <2>2, <2>5, <5>1
        <5> QED
          BY <2>4, <5>1, <5>2, OverlapFacts
      <4> QED
        BY <4>2 DEF MayAdd
    <3> QED
      BY <3>1, <3>2
  <2> QED
    BY <2>2, <2>3, <2>4, <2>5, <2>6
<1> QED
  BY <1>4, <1>5, <1>6 DEF up, found

(* A table that was added to is tidy and has room. *)
LEMMA AddsTidy ==
  ASSUME NEW new, NEW t, NEW r, Adds(new, t, r), MaxRegions \in Nat
  PROVE  /\ Tidy(new.table) /\ new.table \in Seq(Entries) /\ Len(new.table) < MaxRegions
         /\ new.ok \in BOOLEAN
<1>1. /\ Sorted(new.table) /\ Len(new.table) \in 1 .. MaxRegions - 1 /\ new.ok \in BOOLEAN
  BY DEF Adds
<1>2. Tidy(new.table) /\ Len(new.table) < MaxRegions
  BY <1>1 DEF Tidy
<1> QED
  BY <1>1, <1>2, TidyIsOrdered

(* memblock_init. *)
LEMMA InitSound == Init => IInv
<1> SUFFICES ASSUME Init PROVE IInv
  OBVIOUS
<1> USE DEF Init
<1>1. MaxRegions \in Nat /\ MaxRegions > 2 /\ Len(Banks) \in Nat
  BY MachineFacts
<1>2. EmptyTable \in Seq(Entries) /\ Len(EmptyTable) = 1 /\ Tidy(EmptyTable)
  BY EmptyTableFacts DEF Tidy
<1>3. TypeOK
  BY <1>1, <1>2, LimitAssumption DEF TypeOK, Called, Entries
<1>4. TablesTidy /\ RoomLeft
  BY <1>1, <1>2 DEF TablesTidy, RoomLeft
<1>5. MadeOf(memory, booted) /\ Ahead(memory, booted)
  BY DEF MadeOf, Ahead
<1> QED
  BY <1>3, <1>4, <1>5 DEF IInv

(* What a step keeps that leaves memory and the machine alone. *)
LEMMA MemoryKept ==
  ASSUME IInv, UNCHANGED <<machine, memory>>, booted' \in Nat, booted' >= booted,
         booted' <= Len(Banks) + 2, booted' > Len(Banks), Tidy(reserved'), Len(reserved') < MaxRegions,
         current_limit' \in {Limit, LowmemLimit},
         last' \in [op : {"none", "add", "reserve", "alloc", "free", "failed"},
                    base : 0 .. Limit, size : 0 .. Limit]
  PROVE  IInv'
<1>1. Banks' = Banks /\ MaxRegions' = MaxRegions /\ Len(Banks) \in Nat /\ booted \in Nat
  BY MachineFacts DEF Banks, MaxRegions, IInv, TypeOK
<1>2. reserved' \in Seq(Entries)
  BY TidyIsOrdered
<1>3. TypeOK'
  BY <1>1, <1>2 DEF IInv, TypeOK, Entries
<1>4. TablesTidy'
  BY <1>1 DEF IInv, TablesTidy
<1>5. RoomLeft'
  BY <1>1 DEF IInv, RoomLeft
<1>6. MadeOf(memory, booted)'
  <2>1. \A i \in 1 .. Len(Banks) : i <= booted => i <= booted'
    BY <1>1
  <2>2. MadeOf(memory, booted)
    BY DEF IInv
  <2> QED
    BY <1>1, <2>1, <2>2 DEF MadeOf
<1>7. Ahead(memory, booted)'
  <2>1. booted' + 1 .. Len(Banks) = {}
    BY <1>1
  <2> QED
    BY <1>1, <2>1 DEF Ahead
<1> QED
  BY <1>3, <1>4, <1>5, <1>6, <1>7 DEF IInv

(* memblock_add of a bank keeps the invariant. *)
LEMMA BankKeeps ==
  ASSUME IInv, AddBank
  PROVE  IInv'
<1> DEFINE r   == Banks[booted + 1]
           new == memblock_add_region(memory, r)
<1>1. /\ booted < Len(Banks) /\ memory' = new.table
      /\ last' = IF new.ok THEN Called("add", r.base, r.size) ELSE Failed
      /\ booted' = booted + 1 /\ UNCHANGED <<machine, reserved, current_limit>>
  BY DEF AddBank
<1>2. /\ r \in Pieces /\ Adds(new, memory, r)
      /\ MadeOf(new.table, booted + 1) /\ Ahead(new.table, booted + 1)
  BY <1>1, NextBank
<1> HIDE DEF new, r
<1>3. /\ Banks' = Banks /\ MaxRegions' = MaxRegions /\ Len(Banks) \in Nat /\ booted \in Nat
      /\ MaxRegions \in Nat
  BY <1>1, MachineFacts DEF Banks, MaxRegions, IInv, TypeOK
<1>4. /\ Tidy(memory') /\ memory' \in Seq(Entries) /\ Len(memory') < MaxRegions
  BY <1>1, <1>2, <1>3, AddsTidy
<1>5. last' \in [op : {"none", "add", "reserve", "alloc", "free", "failed"},
                 base : 0 .. Limit, size : 0 .. Limit]
  <2>1. r.base \in 0 .. Limit /\ r.size \in 0 .. Limit /\ 0 \in 0 .. Limit
    BY <1>2, LimitAssumption DEF Pieces, Entries
  <2> QED
    BY <1>1, <2>1 DEF Called, Failed
<1>6. TypeOK'
  BY <1>1, <1>3, <1>4, <1>5 DEF IInv, TypeOK, Entries
<1>7. TablesTidy'
  BY <1>1, <1>3, <1>4 DEF IInv, TablesTidy
<1>8. RoomLeft'
  BY <1>1, <1>3, <1>4 DEF IInv, RoomLeft
<1>9. MadeOf(memory, booted)' /\ Ahead(memory, booted)'
  BY <1>1, <1>2, <1>3 DEF MadeOf, Ahead
<1> QED
  BY <1>6, <1>7, <1>8, <1>9 DEF IInv

(* The page directory is the first region that is reserved. *)
LEMMA PgDirAdded ==
  ASSUME IInv, booted = Len(Banks)
  PROVE  PgDir \in Pieces /\ Adds(memblock_add_region(reserved, PgDir), reserved, PgDir)
<1>1. machine \in Machines /\ reserved = EmptyTable
  BY MachineFacts DEF IInv, TypeOK, TablesTidy
<1>2. PgDir \in Pieces
  BY PgDirAssumption, LimitAssumption DEF Regions, Pieces, Entries
<1> QED
  BY <1>1, <1>2, MachineFacts, AddedToEmpty

(* So does the first memblock_reserve, *)
LEMMA PgDirKeeps ==
  ASSUME IInv, ReservePgDir
  PROVE  IInv'
<1> DEFINE new == memblock_add_region(reserved, PgDir)
<1>1. /\ booted = Len(Banks) /\ reserved' = new.table
      /\ last' = IF new.ok THEN Called("reserve", PgDir.base, PgDir.size) ELSE Failed
      /\ booted' = booted + 1 /\ UNCHANGED <<machine, memory, current_limit>>
  BY DEF ReservePgDir
<1>2. PgDir \in Pieces /\ Adds(new, reserved, PgDir)
  BY <1>1, PgDirAdded
<1> HIDE DEF new
<1>3. /\ Len(Banks) \in Nat /\ booted \in Nat /\ MaxRegions \in Nat
      /\ current_limit \in {Limit, LowmemLimit}
  BY MachineFacts DEF IInv, TypeOK
<1>4. Tidy(reserved') /\ Len(reserved') < MaxRegions
  BY <1>1, <1>2, <1>3, AddsTidy
<1>5. last' \in [op : {"none", "add", "reserve", "alloc", "free", "failed"},
                 base : 0 .. Limit, size : 0 .. Limit]
  <2>1. PgDir.base \in 0 .. Limit /\ PgDir.size \in 0 .. Limit /\ 0 \in 0 .. Limit
    BY <1>2, LimitAssumption DEF Pieces, Entries
  <2> QED
    BY <1>1, <2>1 DEF Called, Failed
<1> QED
  BY <1>1, <1>3, <1>4, <1>5, MemoryKept

(* memblock_set_current_limit, *)
LEMMA LimitKeeps ==
  ASSUME IInv, SetCurrentLimit
  PROVE  IInv'
<1>1. /\ booted = Len(Banks) + 1 /\ booted' = booted + 1 /\ current_limit' = LowmemLimit
      /\ UNCHANGED <<machine, memory, reserved, last>>
  BY DEF SetCurrentLimit
<1>2. /\ Len(Banks) \in Nat /\ booted \in Nat /\ Tidy(reserved) /\ Len(reserved) < MaxRegions
      /\ last \in [op : {"none", "add", "reserve", "alloc", "free", "failed"},
                   base : 0 .. Limit, size : 0 .. Limit]
  BY MachineFacts DEF IInv, TypeOK, TablesTidy, RoomLeft
<1> QED
  BY <1>1, <1>2, MemoryKept

(* What is allocated may be added. *)
LEMMA AllocAdds ==
  ASSUME IInv, NEW r \in Pieces, MayAdd(reserved, r)
  PROVE  Adds(memblock_add_region(reserved, r), reserved, r)
<1>1. machine \in Machines /\ Tidy(reserved) /\ Len(reserved) < MaxRegions
  BY DEF IInv, TypeOK, TablesTidy, RoomLeft
<1> QED
  BY <1>1, MachineFacts, AddedTo

(* __memblock_alloc_base keeps the invariant, *)
LEMMA AllocKeeps ==
  ASSUME IInv, NEW size \in AllocSizes, NEW align \in Aligns, NEW max \in Maxima,
         Alloc(size, align, max)
  PROVE  IInv'
<1> DEFINE up    == align_up(size, align)
           found == memblock_find_base(up, align, max)
           r     == Region(found, up)
           new   == memblock_add_region(reserved, r)
<1>1. /\ Booted /\ UNCHANGED <<machine, memory, current_limit, booted>>
      /\ found = 0 => UNCHANGED reserved /\ last' = Failed
      /\ found # 0 => /\ reserved' = new.table
                      /\ last' = IF new.ok THEN Called("alloc", found, up) ELSE Failed
  BY DEF Alloc, MEMBLOCK_ERROR
<1>2. found # 0 => /\ r \in Pieces /\ MayAdd(reserved, r)
                   /\ found \in 0 .. Limit - 1 /\ up \in 1 .. Limit
  BY PlaceIsFree
<1> HIDE DEF r, found, up
<1>3. found # 0 => Adds(new, reserved, r)
  BY <1>2, AllocAdds
<1> HIDE DEF new
<1>4. /\ Len(Banks) \in Nat /\ booted \in Nat /\ booted <= Len(Banks) + 2 /\ booted > Len(Banks)
      /\ current_limit \in {Limit, LowmemLimit} /\ MaxRegions \in Nat
      /\ Tidy(reserved) /\ Len(reserved) < MaxRegions
  BY <1>1, MachineFacts DEF IInv, TypeOK, TablesTidy, RoomLeft, Booted
<1>5. Tidy(reserved') /\ Len(reserved') < MaxRegions
  BY <1>1, <1>3, <1>4, AddsTidy
<1>6. last' \in [op : {"none", "add", "reserve", "alloc", "free", "failed"},
                 base : 0 .. Limit, size : 0 .. Limit]
  <2>1. 0 \in 0 .. Limit /\ (found # 0 => found \in 0 .. Limit /\ up \in 0 .. Limit)
    BY <1>2, LimitAssumption
  <2> QED
    BY <1>1, <2>1 DEF Called, Failed
<1> QED
  BY <1>1, <1>4, <1>5, <1>6, MemoryKept

(* What callers free is in the table, and is not all of it. *)
LEMMA FreeRemoves ==
  ASSUME IInv, NEW r \in Regions, Free(r)
  PROVE  /\ r \in Pieces /\ Span(r) \subseteq Covered(reserved)
         /\ Removes(__memblock_remove(reserved, r), reserved, r)
<1>1. /\ machine \in Machines /\ Tidy(reserved) /\ Len(reserved) < MaxRegions
  BY DEF IInv, TypeOK, TablesTidy, RoomLeft
<1>2. Span(r) \subseteq Covered(reserved) /\ Span(r) # Covered(reserved)
  BY DEF Free, Span
<1>3. /\ r.base \in Nat /\ r.size \in Nat \ {0} /\ End(r) = r.base + r.size /\ Limit \in Nat
  BY LimitAssumption DEF Regions, End
<1>4. r.base \in Span(r) /\ End(r) - 1 \in Span(r)
  BY <1>3 DEF Span
<1>5. Sorted(reserved)
  BY <1>1, <1>2, <1>4, EmptyTableFacts DEF Tidy
<1>6. r \in Pieces
  <2>1. PICK e \in ToSet(reserved) : End(r) - 1 \in Span(e)
    BY <1>2, <1>4, <1>5, CoveredBy
  <2>2. e \in Pieces
    BY <1>5, CoveredBy
  <2>3. End(e) <= Limit /\ End(e) \in Nat /\ e.base \in Nat
    BY <2>2, PieceFacts
  <2>4. End(r) <= Limit
    BY <1>3, <2>1, <2>3 DEF Span
  <2> QED
    BY <1>3, <2>4 DEF Regions, Pieces, Entries
<1>7. Removes(__memblock_remove(reserved, r), reserved, r)
  BY <1>1, <1>2, <1>5, <1>6, MachineFacts, RemovedFrom
<1> QED
  BY <1>2, <1>6, <1>7

(* and so does memblock_free. *)
LEMMA FreeKeeps ==
  ASSUME IInv, NEW r \in Regions, Free(r)
  PROVE  IInv'
<1> DEFINE new == __memblock_remove(reserved, r)
<1>1. /\ Booted /\ UNCHANGED <<machine, memory, current_limit, booted>>
      /\ reserved' = new.table
      /\ last' = IF new.ok THEN Called("free", r.base, r.size) ELSE Failed
  BY DEF Free
<1>2. r \in Pieces /\ Removes(new, reserved, r)
  BY FreeRemoves
<1> HIDE DEF new
<1>3. /\ Len(Banks) \in Nat /\ booted \in Nat /\ booted <= Len(Banks) + 2 /\ booted > Len(Banks)
      /\ current_limit \in {Limit, LowmemLimit} /\ MaxRegions \in Nat
  BY <1>1, MachineFacts DEF IInv, TypeOK, Booted
<1>4. Tidy(reserved') /\ Len(reserved') < MaxRegions
  BY <1>1, <1>2, <1>3 DEF Removes, Tidy
<1>5. last' \in [op : {"none", "add", "reserve", "alloc", "free", "failed"},
                 base : 0 .. Limit, size : 0 .. Limit]
  <2>1. r.base \in 0 .. Limit /\ r.size \in 0 .. Limit /\ 0 \in 0 .. Limit
    BY <1>2, LimitAssumption DEF Pieces, Entries
  <2> QED
    BY <1>1, <2>1 DEF Called, Failed
<1> QED
  BY <1>1, <1>3, <1>4, <1>5, MemoryKept

(* Every step keeps the invariant. *)
LEMMA StepKeeps == IInv /\ [Next]_vars => IInv'
<1> SUFFICES ASSUME IInv, [Next]_vars PROVE IInv'
  OBVIOUS
<1>1. CASE AddBank
  BY <1>1, BankKeeps
<1>2. CASE ReservePgDir
  BY <1>2, PgDirKeeps
<1>3. CASE SetCurrentLimit
  BY <1>3, LimitKeeps
<1>4. CASE \E size \in AllocSizes, align \in Aligns, max \in Maxima : Alloc(size, align, max)
  BY <1>4, AllocKeeps
<1>5. CASE \E r \in Regions : Free(r)
  BY <1>5, FreeKeeps
<1>6. CASE UNCHANGED vars
  BY <1>6 DEF vars, IInv, TypeOK, TablesTidy, RoomLeft, MadeOf, Ahead, Banks, MaxRegions
<1> QED
  BY <1>1, <1>2, <1>3, <1>4, <1>5, <1>6 DEF Next

(* The invariant holds in every state. *)
LEMMA AlwaysInv == Spec => []IInv
<1>1. Init => IInv
  BY InitSound
<1>2. IInv /\ [Next]_vars => IInv'
  BY StepKeeps
<1> QED
  BY <1>1, <1>2, PTL DEF Spec

-----------------------------------------------------------------------------
(* Whatever memblock_add_region and __memblock_remove add, grow, split, drop
   and take back, on every machine: both tables stay sorted with a gap between
   any two regions, and keep the entry free that an addition needs.        *)
THEOREM TablesStaySound == Spec => []TablesSound
<1>1. IInv => TablesSound
  <2>1. Tidy(memory) /\ Tidy(reserved) => Ordered(memory) /\ Ordered(reserved)
    BY TidyIsOrdered
  <2> QED
    BY <2>1 DEF IInv, TablesTidy, TablesSound, TablesOrdered
<1> QED
  BY <1>1, AlwaysInv, PTL

(* In every state memblock_search finds an address exactly if the table covers
   it, and memblock_find_base returns the highest aligned place that is memory
   and not reserved, 0 exactly if there is none.                           *)
THEOREM SearchesAreRight == Spec => []SearchesRight
<1>1. ASSUME IInv PROVE SearchExact
  <2>1. Tidy(memory) /\ Tidy(reserved)
    BY <1>1 DEF IInv, TablesTidy
  <2>2. \A addr \in 0 .. Limit - 1 : addr \in Nat
    BY LimitAssumption
  <2> QED
    BY <2>1, <2>2, SearchRight DEF SearchExact, memblock_is_memory
<1>2. ASSUME IInv PROVE FindsHighest
  <2> SUFFICES ASSUME NEW size \in AllocSizes, NEW align \in Aligns, NEW max \in Maxima
               PROVE  LET up   == align_up(size, align)
                          fits == Fits(up, align, UpTo(max))
                      IN memblock_find_base(up, align, max) = IF fits = {} THEN 0 ELSE Max(fits)
    BY DEF FindsHighest, UpTo, MEMBLOCK_ERROR
  <2> DEFINE up    == align_up(size, align)
             fits  == Fits(up, align, UpTo(max))
             found == memblock_find_base(up, align, max)
  <2>1. Highest(found, fits)
    BY <1>2, PlaceIsFree
  <2>2. fits \subseteq Nat
    BY LimitAssumption DEF Fits
  <2> HIDE DEF found, fits
  <2>3. found = IF fits = {} THEN 0 ELSE Max(fits)
    BY <2>1, <2>2, HighestIsMax
  <2> QED
    BY <2>3 DEF found, fits
<1>3. IInv => SearchesRight
  BY <1>1, <1>2 DEF SearchesRight
<1> QED
  BY <1>3, AlwaysInv, PTL

-----------------------------------------------------------------------------
(* The calls, as the addresses they add and take *)

(* What RangeStore sees of a state. *)
Outside == <<Covered(memory), Covered(reserved), last>>

(* A bank that is added is an Add of its addresses. *)
LEMMA BankStores ==
  ASSUME IInv, AddBank
  PROVE  NearlyFull \/ Store!Next
<1> DEFINE r   == Banks[booted + 1]
           new == memblock_add_region(memory, r)
<1>1. /\ booted < Len(Banks) /\ memory' = new.table
      /\ last' = IF new.ok THEN Called("add", r.base, r.size) ELSE Failed
      /\ UNCHANGED reserved
  BY DEF AddBank
<1>2. r \in Pieces /\ Adds(new, memory, r)
  BY <1>1, NextBank
<1> HIDE DEF new, r
<1>3. CASE new.ok
  <2>1. Covered(memory') = Covered(memory) \cup Span(r)
    BY <1>1, <1>2, <1>3 DEF Adds
  <2>2. r.base \in 0 .. Limit - 1 /\ r.size \in 1 .. Limit
    BY <1>2, LimitAssumption DEF Pieces, Entries, End
  <2>3. Span(r) = Store!Span(r.base, r.size)
    BY <1>2, PieceFacts DEF Span, Store!Span
  <2>4. Store!Add(r.base, r.size)
    BY <1>1, <1>3, <2>1, <2>3 DEF Store!Add, Called, Covered
  <2> QED
    BY <2>2, <2>4 DEF Store!Next
<1>4. CASE ~ new.ok
  BY <1>2, <1>4 DEF Adds, NearlyFull
<1> QED
  BY <1>3, <1>4

(* The page directory is a Reserve. *)
LEMMA PgDirStores ==
  ASSUME IInv, ReservePgDir
  PROVE  NearlyFull \/ Store!Next
<1> DEFINE new == memblock_add_region(reserved, PgDir)
<1>1. /\ booted = Len(Banks) /\ reserved' = new.table
      /\ last' = IF new.ok THEN Called("reserve", PgDir.base, PgDir.size) ELSE Failed
      /\ UNCHANGED memory
  BY DEF ReservePgDir
<1>2. PgDir \in Pieces /\ Adds(new, reserved, PgDir)
  BY <1>1, PgDirAdded
<1> HIDE DEF new
<1>3. CASE new.ok
  <2>1. Covered(reserved') = Covered(reserved) \cup Span(PgDir)
    BY <1>1, <1>2, <1>3 DEF Adds
  <2>2. PgDir.base \in 0 .. Limit - 1 /\ PgDir.size \in 1 .. Limit
    BY <1>2, LimitAssumption DEF Pieces, Entries, End
  <2>3. Span(PgDir) = Store!Span(PgDir.base, PgDir.size)
    BY <1>2, PieceFacts DEF Span, Store!Span
  <2>4. Store!Reserve(PgDir.base, PgDir.size)
    BY <1>1, <1>3, <2>1, <2>3 DEF Store!Reserve, Called, Covered
  <2> QED
    BY <2>2, <2>4 DEF Store!Next
<1>4. CASE ~ new.ok
  BY <1>2, <1>4 DEF Adds, NearlyFull
<1> QED
  BY <1>3, <1>4

(* An allocation is an Allocate of what was found, or fails. *)
LEMMA AllocStores ==
  ASSUME IInv, NEW size \in AllocSizes, NEW align \in Aligns, NEW max \in Maxima,
         Alloc(size, align, max)
  PROVE  NearlyFull \/ Store!Next
<1> DEFINE up    == align_up(size, align)
           found == memblock_find_base(up, align, max)
           r     == Region(found, up)
           new   == memblock_add_region(reserved, r)
<1>1. /\ UNCHANGED memory
      /\ found = 0 => UNCHANGED reserved /\ last' = Failed
      /\ found # 0 => /\ reserved' = new.table
                      /\ last' = IF new.ok THEN Called("alloc", found, up) ELSE Failed
  BY DEF Alloc, MEMBLOCK_ERROR
<1>2. found # 0 => /\ r \in Pieces /\ MayAdd(reserved, r)
                   /\ found \in 0 .. Limit - 1 /\ up \in 1 .. Limit
                   /\ up % align = 0 /\ found % align = 0
                   /\ Span(r) = found .. found + up - 1
                   /\ Span(r) \subseteq Covered(memory) \ Covered(reserved)
  BY PlaceIsFree
<1> HIDE DEF r, found, up
<1>3. found # 0 => Adds(new, reserved, r)
  BY <1>2, AllocAdds
<1> HIDE DEF new
<1>4. CASE found = 0
  <2>1. Store!Fail
    BY <1>1, <1>4 DEF Store!Fail, Store!Failed, Failed, Called, Covered
  <2> QED
    BY <2>1 DEF Store!Next
<1>5. CASE found # 0 /\ new.ok
  <2>1. Covered(reserved') = Covered(reserved) \cup Span(r)
    BY <1>1, <1>3, <1>5 DEF Adds
  <2>2. Span(r) = Store!Span(found, up)
    BY <1>2, <1>5 DEF Store!Span
  <2>3. Store!Allocate(found, up, align)
    <3>1. Covered(memory)' = Covered(memory)
      BY <1>1 DEF Covered
    <3>2. Covered(reserved)' = Covered(reserved) \cup Store!Span(found, up)
      BY <2>1, <2>2 DEF Covered
    <3>3. Store!Span(found, up) \subseteq Covered(memory) \ Covered(reserved)
      BY <1>2, <1>5, <2>2
    <3>4. up % align = 0 /\ found % align = 0 /\ last' = Called("alloc", found, up)
      BY <1>1, <1>2, <1>5
    <3> QED
      BY <1>5, <3>1, <3>2, <3>3, <3>4 DEF Store!Allocate, Called
  <2> QED
    BY <1>2, <1>5, <2>3 DEF Store!Next
<1>6. CASE found # 0 /\ ~ new.ok
  BY <1>3, <1>6 DEF Adds, NearlyFull
<1> QED
  BY <1>4, <1>5, <1>6

(* memblock_free is a Free. *)
LEMMA FreeStores ==
  ASSUME IInv, NEW r \in Regions, Free(r)
  PROVE  NearlyFull \/ Store!Next
<1> DEFINE new == __memblock_remove(reserved, r)
<1>1. /\ UNCHANGED memory /\ reserved' = new.table
      /\ last' = IF new.ok THEN Called("free", r.base, r.size) ELSE Failed
  BY DEF Free
<1>2. /\ r \in Pieces /\ Span(r) \subseteq Covered(reserved) /\ Removes(new, reserved, r)
  BY FreeRemoves
<1> HIDE DEF new
<1>3. CASE new.ok
  <2>1. Covered(reserved') = Covered(reserved) \ Span(r)
    BY <1>1, <1>2, <1>3 DEF Removes
  <2>2. r.base \in 0 .. Limit - 1 /\ r.size \in 1 .. Limit
    BY DEF Regions
  <2>3. Span(r) = Store!Span(r.base, r.size)
    BY <1>2, PieceFacts DEF Span, Store!Span
  <2>4. Store!Free(r.base, r.size)
    BY <1>1, <1>2, <1>3, <2>1, <2>3 DEF Store!Free, Called, Covered
  <2> QED
    BY <2>2, <2>4 DEF Store!Next
<1>4. CASE ~ new.ok
  BY <1>2, <1>4 DEF Removes, NearlyFull
<1> QED
  BY <1>3, <1>4

(* While both tables have an entry more than an addition needs, every call does
   to the sets of addresses exactly what RangeStore lets it do: it adds, takes
   or allocates the whole range it was asked for, an allocation being aligned
   memory that was not reserved, or fails and changes nothing.             *)
THEOREM StoreIsImplemented == Spec => StoreWhileRoom
<1>1. Init => Store!Init
  <2> SUFFICES ASSUME Init PROVE Store!Init
    OBVIOUS
  <2>1. Covered(memory) = {} /\ Covered(reserved) = {}
    BY EmptyTableFacts DEF Init
  <2> QED
    BY <2>1 DEF Init, Store!Init, Called
<1>2. IInv /\ [Next]_vars => [NearlyFull \/ Store!Next]_Outside
  <2> SUFFICES ASSUME IInv, [Next]_vars PROVE NearlyFull \/ Store!Next \/ UNCHANGED Outside
    OBVIOUS
  <2>1. CASE AddBank
    BY <2>1, BankStores
  <2>2. CASE ReservePgDir
    BY <2>2, PgDirStores
  <2>3. CASE SetCurrentLimit
    BY <2>3 DEF SetCurrentLimit, Outside, Covered
  <2>4. CASE \E size \in AllocSizes, align \in Aligns, max \in Maxima : Alloc(size, align, max)
    BY <2>4, AllocStores
  <2>5. CASE \E r \in Regions : Free(r)
    BY <2>5, FreeStores
  <2>6. CASE UNCHANGED vars
    BY <2>6 DEF vars, Outside, Covered
  <2> QED
    BY <2>1, <2>2, <2>3, <2>4, <2>5, <2>6 DEF Next
<1> QED
  BY <1>1, <1>2, AlwaysInv, PTL DEF Spec, StoreWhileRoom, Outside

=============================================================================
