--------------------------- MODULE BootmemProofs ---------------------------
(***************************************************************************)
(* Proofs about the boot memory allocator: no byte is handed out twice, no *)
(* BUG() is reached, a request fails only when it must, and the buddy      *)
(* allocator gets exactly what is left, block by block.                    *)
(***************************************************************************)
EXTENDS Bootmem, ListLemmas

-----------------------------------------------------------------------------
(* Division *)

LEMMA Quotient ==
  ASSUME NEW x \in Int, NEW n \in Nat \ {0}
  PROVE  /\ x \div n \in Int
         /\ n * (x \div n) <= x
         /\ x < n * (x \div n) + n
OBVIOUS

LEMMA QuotientAtLeast ==
  ASSUME NEW x \in Int, NEW n \in Nat \ {0}, NEW k \in Int, k * n <= x
  PROVE  k <= x \div n
OBVIOUS

LEMMA QuotientBelow ==
  ASSUME NEW x \in Int, NEW n \in Nat \ {0}, NEW k \in Int, x < k * n
  PROVE  x \div n < k
OBVIOUS

LEMMA Remainder ==
  ASSUME NEW x \in Int, NEW n \in Nat \ {0}
  PROVE  x % n \in 0 .. n - 1
OBVIOUS

LEMMA Divided ==
  ASSUME NEW x \in Int, NEW n \in Nat \ {0}
  PROVE  x = n * (x \div n) + (x % n)
BY Z3

LEMMA NoRemainder ==
  ASSUME NEW k \in Int, NEW n \in Nat \ {0}
  PROVE  (k * n) % n = 0 /\ (k * n) \div n = k
OBVIOUS

LEMMA Multiple ==
  ASSUME NEW x \in Int, NEW n \in Nat \ {0}, x % n = 0
  PROVE  x = (x \div n) * n
BY Divided, Quotient

(* A multiple of a multiple of a. *)
LEMMA Divides ==
  ASSUME NEW p \in Nat \ {0}, NEW a \in Nat \ {0}, p % a = 0, NEW k \in Int
  PROVE  (k * p) % a = 0
<1> DEFINE j == p \div a
<1>1. j \in Int /\ p = j * a
  BY Multiple, Quotient
<1> HIDE DEF j
<1>2. k * p = (k * j) * a
  BY <1>1
<1>3. k * j \in Int
  BY <1>1
<1> QED
  BY <1>2, <1>3, NoRemainder

(* ALIGN gives the least multiple that is not below x. *)
LEMMA Aligned ==
  ASSUME NEW x \in Int, NEW a \in Nat \ {0}
  PROVE  /\ ALIGN(x, a) \in Int
         /\ x <= ALIGN(x, a)
         /\ ALIGN(x, a) % a = 0
         /\ \A m \in Int : m % a = 0 /\ x <= m => ALIGN(x, a) <= m
<1> DEFINE q == (x + a - 1) \div a
<1>1. /\ q \in Int
      /\ a * q <= x + a - 1
      /\ x + a - 1 < a * q + a
  BY Quotient
<1>2. ALIGN(x, a) = q * a
  BY DEF ALIGN
<1> HIDE DEF q
<1>3. q * a \in Int /\ x <= q * a
  BY <1>1
<1>4. (q * a) % a = 0
  BY <1>1, NoRemainder
<1>5. ASSUME NEW m \in Int, m % a = 0, x <= m
      PROVE  q * a <= m
  <2> DEFINE j == m \div a
  <2>1. j \in Int /\ m = j * a
    BY <1>5, Multiple, Quotient
  <2> HIDE DEF j
  <2>2. q <= j
    <3>1. q * a < (j + 1) * a
      BY <1>1, <1>5, <2>1
    <3> QED
      BY <1>1, <2>1, <3>1
  <2> QED
    BY <1>1, <2>1, <2>2
<1> QED
  BY <1>2, <1>3, <1>4, <1>5

LEMMA AlignedToOne ==
  ASSUME NEW x \in Int
  PROVE  ALIGN(x, 1) = x
BY DEF ALIGN

-----------------------------------------------------------------------------
(* Pages *)

LEMMA DownBounds ==
  ASSUME NEW x \in Int
  PROVE  /\ PFN_DOWN(x) \in Int
         /\ PFN_DOWN(x) * PageSize <= x
         /\ x < (PFN_DOWN(x) + 1) * PageSize
BY WordAssumption, Quotient DEF PFN_DOWN

LEMMA DownIs ==
  ASSUME NEW x \in Int, NEW q \in Int, q * PageSize <= x, x < (q + 1) * PageSize
  PROVE  PFN_DOWN(x) = q
<1>1. q <= PFN_DOWN(x) /\ PFN_DOWN(x) < q + 1
  BY WordAssumption, QuotientAtLeast, QuotientBelow DEF PFN_DOWN
<1> QED
  BY <1>1, DownBounds

LEMMA DownMonotone ==
  ASSUME NEW x \in Int, NEW y \in Int, x <= y
  PROVE  PFN_DOWN(x) <= PFN_DOWN(y)
<1>1. PFN_DOWN(x) * PageSize <= y
  BY DownBounds, WordAssumption
<1> QED
  BY <1>1, DownBounds, WordAssumption, QuotientAtLeast DEF PFN_DOWN

LEMMA UpBounds ==
  ASSUME NEW x \in Int
  PROVE  /\ PFN_UP(x) \in Int
         /\ x <= PFN_UP(x) * PageSize
         /\ (PFN_UP(x) - 1) * PageSize < x
<1> DEFINE y == x + PageSize - 1
<1>1. y \in Int
  BY WordAssumption
<1>2. PFN_UP(x) = PFN_DOWN(y)
  BY DEF PFN_UP, PFN_DOWN
<1>3. /\ PFN_DOWN(y) \in Int
      /\ PFN_DOWN(y) * PageSize <= x + PageSize - 1
      /\ x + PageSize - 1 < (PFN_DOWN(y) + 1) * PageSize
  BY <1>1, DownBounds
<1> HIDE DEF y
<1> QED
  BY <1>2, <1>3, WordAssumption

LEMMA UpAtMost ==
  ASSUME NEW x \in Int, NEW q \in Int, x <= q * PageSize
  PROVE  PFN_UP(x) <= q
<1>1. x + PageSize - 1 < (q + 1) * PageSize
  BY WordAssumption
<1>2. (x + PageSize - 1) \div PageSize < q + 1
  BY <1>1, WordAssumption, QuotientBelow
<1> QED
  BY <1>2, UpBounds DEF PFN_UP

LEMMA UpAtLeast ==
  ASSUME NEW x \in Int, NEW q \in Int, (q - 1) * PageSize < x
  PROVE  q <= PFN_UP(x)
<1>1. q * PageSize <= x + PageSize - 1
  BY WordAssumption
<1> QED
  BY <1>1, WordAssumption, QuotientAtLeast DEF PFN_UP

LEMMA UpIs ==
  ASSUME NEW x \in Int, NEW q \in Int, (q - 1) * PageSize < x, x <= q * PageSize
  PROVE  PFN_UP(x) = q
BY UpAtMost, UpAtLeast, UpBounds

-----------------------------------------------------------------------------
(* Nodes *)

LEMMA MinPair ==
  ASSUME NEW a \in Int, NEW b \in Int
  PROVE  Min({a, b}) \in Int /\ Min({a, b}) <= a /\ Min({a, b}) <= b
<1>1. \E x \in {a, b} : \A y \in {a, b} : x <= y
  <2>1. CASE a <= b
    BY <2>1
  <2>2. CASE b <= a
    BY <2>2
  <2> QED
    BY <2>1, <2>2
<1> QED
  BY <1>1 DEF Min

LEMMA MinOf ==
  ASSUME NEW S, S \subseteq Nat, S # {}
  PROVE  Min(S) \in S /\ \A y \in S : Min(S) <= y
<1>1. \E x \in S : \A y \in S : x <= y
  BY LeastNatural
<1> QED
  BY <1>1 DEF Min

(* The pages a loop of arm_bootmem_init reaches lie in the node, when every
   region of the table starts there.                                       *)
LEMMA FreeInNode ==
  ASSUME NEW n \in Nodes
  PROVE  FreePages(n) \subseteq 0 .. n.low_pfn - n.min_pfn - 1
<1> SUFFICES ASSUME NEW p \in FreePages(n)
             PROVE  p \in 0 .. n.low_pfn - n.min_pfn - 1
  OBVIOUS
<1> DEFINE t == n.memory
<1>1. /\ n.min_pfn \in Nat /\ n.low_pfn \in Nat
      /\ t \in Seq(Regions)
      /\ \A i \in 1 .. Len(t) : n.min_pfn * PageSize <= t[i].base
  BY NodeAssumption
<1>2. PICK i \in 1 .. Len(t) :
        p \in PFN_UP(t[i].base) - n.min_pfn ..
                Min({PFN_DOWN(t[i].base + t[i].size), n.low_pfn}) - n.min_pfn - 1
  BY DEF FreePages, Reached
<1>3. t[i] \in Regions
  BY <1>1
<1>4. t[i].base \in Nat /\ t[i].base + t[i].size \in Int
  BY <1>3 DEF Regions
<1> DEFINE s == PFN_UP(t[i].base)
           d == PFN_DOWN(t[i].base + t[i].size)
           e == Min({d, n.low_pfn})
<1>5. s \in Int /\ n.min_pfn <= s
  <2>1. (n.min_pfn - 1) * PageSize < t[i].base
    BY <1>1, <1>4, WordAssumption
  <2>2. t[i].base \in Int /\ n.min_pfn \in Int
    BY <1>1, <1>4
  <2>3. n.min_pfn <= PFN_UP(t[i].base)
    BY <2>1, <2>2, UpAtLeast
  <2> QED
    BY <2>2, <2>3, UpBounds
<1>6. d \in Int
  BY <1>4, DownBounds
<1> HIDE DEF s, d
<1>7. e \in Int /\ e <= n.low_pfn
  <2>1. n.low_pfn \in Int
    BY <1>1
  <2> QED
    BY <1>6, <2>1, MinPair
<1>8. p \in s - n.min_pfn .. e - n.min_pfn - 1
  BY <1>2 DEF s, d
<1> HIDE DEF e
<1> QED
  BY <1>1, <1>5, <1>7, <1>8

LEMMA ReservedInNode ==
  ASSUME NEW n \in Nodes
  PROVE  ReservedPages(n) \subseteq 0 .. n.low_pfn - n.min_pfn - 1
<1> SUFFICES ASSUME NEW p \in ReservedPages(n)
             PROVE  p \in 0 .. n.low_pfn - n.min_pfn - 1
  OBVIOUS
<1> DEFINE t == n.reserved
<1>1. /\ n.min_pfn \in Nat /\ n.low_pfn \in Nat
      /\ t \in Seq(Regions)
      /\ \A i \in 1 .. Len(t) : n.min_pfn * PageSize <= t[i].base
  BY NodeAssumption
<1>2. PICK i \in 1 .. Len(t) :
        p \in PFN_DOWN(t[i].base) - n.min_pfn ..
                Min({PFN_UP(t[i].base + t[i].size), n.low_pfn}) - n.min_pfn - 1
  BY DEF ReservedPages, Reached
<1>3. t[i] \in Regions
  BY <1>1
<1>4. t[i].base \in Nat /\ t[i].base + t[i].size \in Int
  BY <1>3 DEF Regions
<1> DEFINE s == PFN_DOWN(t[i].base)
           d == PFN_UP(t[i].base + t[i].size)
           e == Min({d, n.low_pfn})
<1>5. s \in Int /\ n.min_pfn <= s
  BY <1>1, <1>4, WordAssumption, QuotientAtLeast, DownBounds DEF PFN_DOWN
<1>6. d \in Int
  BY <1>4, UpBounds
<1> HIDE DEF s, d
<1>7. e \in Int /\ e <= n.low_pfn
  <2>1. n.low_pfn \in Int
    BY <1>1
  <2> QED
    BY <1>6, <2>1, MinPair
<1>8. p \in s - n.min_pfn .. e - n.min_pfn - 1
  BY <1>2 DEF s, d
<1> HIDE DEF e
<1> QED
  BY <1>1, <1>5, <1>7, <1>8

LEMMA Geometry ==
  ASSUME node \in Nodes
  PROVE  /\ Pages \in Nat \ {0}
         /\ node_min_pfn \in Nat /\ node_low_pfn \in Nat
         /\ node_low_pfn = node_min_pfn + Pages
         /\ FreePages(node) \subseteq Indices
         /\ ReservedPages(node) \subseteq Indices
         /\ MapPages \subseteq ReservedPages(node)
         /\ Free \subseteq Indices
<1>1. /\ node.min_pfn \in Nat /\ node.low_pfn \in Nat /\ node.min_pfn < node.low_pfn
      /\ node.map_pages \subseteq ReservedPages(node)
  BY NodeAssumption
<1>2. /\ Pages \in Nat \ {0}
      /\ node_min_pfn \in Nat /\ node_low_pfn \in Nat
      /\ node_low_pfn = node_min_pfn + Pages
      /\ MapPages \subseteq ReservedPages(node)
  BY <1>1 DEF Pages, node_min_pfn, node_low_pfn, MapPages
<1>3. FreePages(node) \subseteq Indices /\ ReservedPages(node) \subseteq Indices
  BY FreeInNode, ReservedInNode DEF Indices, Pages, node_min_pfn, node_low_pfn
<1> QED
  BY <1>2, <1>3 DEF Free

LEMMA SameNode ==
  ASSUME UNCHANGED node
  PROVE  /\ Pages' = Pages /\ Indices' = Indices
         /\ node_min_pfn' = node_min_pfn
         /\ MapPages' = MapPages /\ Free' = Free
BY DEF Pages, Indices, node_min_pfn, node_low_pfn, MapPages, Free

-----------------------------------------------------------------------------
(* The search *)

LEMMA StepIsOne ==
  ASSUME NEW a \in Aligns
  PROVE  Step(a) = 1
<1>1. a \in Nat \ {0} /\ PageSize % a = 0 /\ PageSize \in Nat \ {0}
  BY CallerAssumption, WordAssumption
<1> DEFINE q == a \div PageSize
<1>2. q \in Int /\ q <= 1
  <2>1. a <= PageSize
    <3> DEFINE j == PageSize \div a
    <3>1. j \in Int /\ PageSize = j * a
      BY <1>1, Multiple, Quotient
    <3> HIDE DEF j
    <3>2. j >= 1
      BY <1>1, <3>1
    <3> QED
      BY <1>1, <3>1, <3>2
  <2>2. a < 2 * PageSize
    BY <1>1, <2>1
  <2> QED
    BY <1>1, <2>2, QuotientBelow, Quotient
<1> HIDE DEF q
<1>3. Max({q, 1}) = 1
  BY <1>2 DEF Max
<1> QED
  BY <1>3 DEF Step, q

LEMMA AlignIndex ==
  ASSUME node \in Nodes, NEW i \in Int, NEW a \in Aligns
  PROVE  align_idx(i, Step(a)) = i
<1>1. ALIGN(node_min_pfn + i, 1) = node_min_pfn + i
  BY Geometry, AlignedToOne
<1> QED
  BY <1>1, Geometry, StepIsOne DEF align_idx

(* The search is told a number, and one whose page is free when it starts at
   the beginning of a word.                                                *)
Zeros(offset) ==
  {i \in offset .. (offset \div WordBits + Pages \div WordBits + 1) * WordBits - 1 : ~Bit(i)}

LEMMA ZerosNatural ==
  ASSUME node \in Nodes, NEW offset \in Nat
  PROVE  Zeros(offset) \subseteq Nat
<1>1. Zeros(offset) \subseteq offset .. (offset \div WordBits + Pages \div WordBits + 1) * WordBits - 1
  BY DEF Zeros
<1>2. (offset \div WordBits + Pages \div WordBits + 1) * WordBits - 1 \in Int
  BY WordAssumption, Geometry, Quotient
<1> QED
  BY <1>1, <1>2

LEMMA NextZero ==
  ASSUME node \in Nodes, NEW offset \in Nat
  PROVE  /\ find_next_zero_bit(Pages, offset) \in Int
         /\ Zeros(offset) = {} => find_next_zero_bit(Pages, offset) = -1
         /\ offset = 0 /\ Zeros(0) # {} => find_next_zero_bit(Pages, offset) = Min(Zeros(0))
<1>1. find_next_zero_bit(Pages, offset) =
        IF Zeros(offset) = {} THEN -1
        ELSE IF Min(Zeros(offset)) \div WordBits = offset \div WordBits THEN Min(Zeros(offset))
        ELSE Min(Zeros(offset)) + (offset % WordBits)
  BY DEF find_next_zero_bit, Zeros
<1>2. Zeros(offset) \subseteq Nat
  BY ZerosNatural
<1>3. Zeros(offset) # {} => Min(Zeros(offset)) \in Nat
  BY <1>2, MinOf
<1>4. offset % WordBits \in Int
  BY WordAssumption, Remainder
<1>5. find_next_zero_bit(Pages, offset) \in Int
  BY <1>1, <1>3, <1>4
<1>6. offset = 0 => offset % WordBits = 0
  BY WordAssumption
<1>7. offset = 0 /\ Zeros(0) # {} => find_next_zero_bit(Pages, offset) = Min(Zeros(0))
  BY <1>1, <1>3, <1>6
<1> QED
  BY <1>1, <1>5, <1>7

(* The place this turn of the search looks at, unless the node is exhausted. *)
LEMMA Candidate ==
  ASSUME NodeSound, phase = "search"
  PROVE  /\ req.size \in Nat \ {0} /\ req.align \in Aligns
         /\ First = find_next_zero_bit(Pages, req.sidx)
         /\ First \in Int /\ PFN_UP(req.size) \in Nat \ {0}
         /\ ~Exhausted => /\ 0 <= First /\ First + PFN_UP(req.size) <= Pages
                          /\ Run \subseteq Indices
                          /\ Run = First .. First + PFN_UP(req.size) - 1
<1>1. node \in Nodes
  BY DEF NodeSound, TypeOK
<1>2. /\ req.size \in Nat \ {0} /\ req.align \in Aligns /\ req.sidx \in Nat
  <2>1. req \in [size : Nat \ {0}, align : Aligns, goal : Nat, sidx : 0 .. Pages, fallback : 0 .. Pages]
    BY DEF NodeSound, SearchFits
  <2> QED
    BY <2>1
<1>3. find_next_zero_bit(Pages, req.sidx) \in Int
  BY <1>1, <1>2, NextZero
<1>4. First = find_next_zero_bit(Pages, req.sidx)
  BY <1>1, <1>2, <1>3, AlignIndex DEF First
<1>5. PFN_UP(req.size) \in Nat \ {0}
  <2>1. (1 - 1) * PageSize < req.size
    BY <1>2, WordAssumption
  <2> QED
    BY <1>2, <2>1, UpAtLeast, UpBounds
<1>6. ASSUME ~Exhausted
      PROVE  /\ 0 <= First /\ First + PFN_UP(req.size) <= Pages
             /\ Run \subseteq Indices
             /\ Run = First .. First + PFN_UP(req.size) - 1
  BY <1>1, <1>3, <1>4, <1>5, <1>6, Geometry DEF Exhausted, Run, Indices
<1> QED
  BY <1>2, <1>3, <1>4, <1>5, <1>6

-----------------------------------------------------------------------------
(* The invariant *)

LEMMA InitSound == Init => NodeSound
<1> SUFFICES ASSUME Init PROVE NodeSound
  OBVIOUS
<1>1. Pages \in Nat \ {0}
  BY Geometry DEF Init
<1>2. PFN_PHYS(Pages) \in Nat
  BY <1>1, WordAssumption DEF PFN_PHYS
<1>3. TypeOK
  <2>1. req.sidx = 0 /\ req.fallback = 0
    BY DEF Init, NoReq
  <2>2. 0 \in 0 .. PFN_PHYS(Pages) /\ 0 \in 0 .. Pages
    BY <1>1, <1>2
  <2> QED
    BY <2>1, <2>2 DEF Init, TypeOK
<1>4. AllocationsDisjoint /\ AllocationsOwned /\ NoBug /\ MapExact
  BY DEF Init, AllocationsDisjoint, AllocationsOwned, NoBug, MapExact
<1>5. TailUnused
  BY WordAssumption DEF Init, TailUnused
<1>6. TrimmedLate /\ SearchFits /\ ReleasedSoFar
  BY DEF Init, TrimmedLate, SearchFits, ReleasedSoFar
<1> QED
  BY <1>3, <1>4, <1>5, <1>6 DEF NodeSound

(* A step that leaves what is handed out alone. *)
LEMMA NothingHandedOut ==
  ASSUME NodeSound, UNCHANGED <<node, map, regions, trimmed, last_end_off, bug>>,
         phase # "init", phase' # "init"
  PROVE  /\ AllocationsDisjoint' /\ AllocationsOwned' /\ NoBug' /\ MapExact' /\ TailUnused'
         /\ trimmed' \subseteq Used' /\ Used' = Used
<1>1. Indices' = Indices /\ Free' = Free /\ node_min_pfn' = node_min_pfn
  BY SameNode
<1>2. Used' = Used
  BY DEF Used
<1>3. AllocationsDisjoint'
  BY DEF NodeSound, AllocationsDisjoint
<1>4. AllocationsOwned'
  BY <1>1 DEF NodeSound, AllocationsOwned
<1>5. MapExact'
  BY <1>1, <1>2 DEF NodeSound, MapExact
<1>6. TailUnused'
  BY DEF NodeSound, TailUnused
<1> QED
  BY <1>2, <1>3, <1>4, <1>5, <1>6 DEF NodeSound, NoBug, TrimmedLate

(* arm_bootmem_init leaves exactly what is free unmarked. *)
LEMMA ArmBootmemInitSound == NodeSound /\ ArmBootmemInit => NodeSound'
<1> SUFFICES ASSUME NodeSound, ArmBootmemInit PROVE NodeSound'
  OBVIOUS
<1>1. /\ phase = "init" /\ phase' = "boot"
      /\ map' = (Indices \ FreePages(node)) \cup ReservedPages(node)
      /\ UNCHANGED <<node, last_end_off, hint_idx, regions, req, next, trimmed, released, bug>>
  BY DEF ArmBootmemInit, searchVars
<1>2. /\ TypeOK /\ node \in Nodes /\ ~bug
      /\ regions = {} /\ last_end_off = 0 /\ hint_idx = 0 /\ trimmed = {} /\ released = {}
  BY <1>1 DEF NodeSound, TypeOK, NoBug, MapExact, TrimmedLate, ReleasedSoFar
<1>3. Pages' = Pages /\ Indices' = Indices /\ Free' = Free
  BY <1>1, SameNode
<1>4. map' = Indices \ Free /\ map' \subseteq Indices
  BY <1>1, <1>2, Geometry DEF Free
<1>5. TypeOK'
  BY <1>1, <1>2, <1>3, <1>4 DEF TypeOK, PFN_PHYS
<1>6. AllocationsDisjoint' /\ AllocationsOwned' /\ NoBug'
  BY <1>1, <1>2 DEF AllocationsDisjoint, AllocationsOwned, NoBug
<1>7. MapExact'
  BY <1>1, <1>2, <1>3, <1>4 DEF MapExact, Used
<1>8. TailUnused'
  BY <1>1, <1>2, WordAssumption DEF TailUnused
<1>9. TrimmedLate' /\ SearchFits' /\ ReleasedSoFar'
  BY <1>1, <1>2 DEF TrimmedLate, SearchFits, ReleasedSoFar
<1> QED
  BY <1>5, <1>6, <1>7, <1>8, <1>9 DEF NodeSound

Requests == [size : Nat \ {0}, align : Aligns, goal : Nat, sidx : 0 .. Pages, fallback : 0 .. Pages]

(* Where alloc_bootmem_core starts to search. *)
LEMMA SearchStarts ==
  ASSUME node \in Nodes, hint_idx \in 0 .. Pages,
         NEW size \in Nat \ {0}, NEW align \in Aligns, NEW goal \in Nat
  PROVE  /\ Search(size, align, goal) \in Requests
         /\ Search(size, align, goal).size = size
         /\ Search(size, align, goal).align = align
         /\ Search(size, align, goal).goal = goal
         /\ goal = 0 => /\ Search(size, align, goal).fallback \in {0, 1}
                        /\ Search(size, align, goal).fallback = 0 => Search(size, align, goal).sidx = 0
<1> DEFINE at == IF node_min_pfn < goal /\ goal < node_low_pfn THEN goal ELSE node_min_pfn
           sidx == at - node_min_pfn
<1>1. /\ Pages \in Nat \ {0} /\ node_min_pfn \in Nat
      /\ node_low_pfn = node_min_pfn + Pages
  BY Geometry
<1>2. at \in Int /\ sidx \in 0 .. Pages - 1 /\ (goal = 0 => sidx = 0)
  BY <1>1
<1>3. ALIGN(at, Step(align)) = at
  <2> HIDE DEF at
  <2> QED
    BY <1>2, StepIsOne, AlignedToOne
<1>4. align_idx(hint_idx, Step(align)) = hint_idx
  BY <1>1, AlignIndex
<1>5. Search(size, align, goal) =
        [size |-> size, align |-> align, goal |-> goal,
         sidx |-> IF hint_idx > sidx THEN hint_idx ELSE sidx,
         fallback |-> IF hint_idx > sidx THEN sidx + 1 ELSE 0]
  BY <1>3, <1>4 DEF Search
<1> HIDE DEF sidx
<1> QED
  BY <1>1, <1>2, <1>5 DEF Requests

LEMMA StartAllocSound ==
  ASSUME NodeSound, NEW size \in AllocSizes, NEW align \in Aligns, NEW goal \in Goals,
         StartAlloc(size, align, goal)
  PROVE  NodeSound'
<1>1. /\ phase = "boot" /\ phase' = "search"
      /\ req' = Search(size, align, goal)
      /\ UNCHANGED <<node, map, last_end_off, hint_idx, regions, next, trimmed, released, bug>>
  BY DEF StartAlloc, searchVars
<1>2. TypeOK /\ node \in Nodes /\ hint_idx \in 0 .. Pages
  BY DEF NodeSound, TypeOK
<1>3. size \in Nat \ {0} /\ goal \in Nat
  BY CallerAssumption
<1>4. /\ req' \in Requests /\ req'.goal = goal
      /\ goal = 0 => req'.fallback \in {0, 1} /\ (req'.fallback = 0 => req'.sidx = 0)
  BY <1>1, <1>2, <1>3, SearchStarts
<1>5. Pages' = Pages /\ Indices' = Indices
  BY <1>1, SameNode
<1>6. TypeOK'
  BY <1>1, <1>2, <1>4, <1>5 DEF TypeOK, PFN_PHYS, Requests
<1>7. /\ AllocationsDisjoint' /\ AllocationsOwned' /\ NoBug' /\ MapExact' /\ TailUnused'
      /\ trimmed' \subseteq Used'
  BY <1>1, NothingHandedOut
<1>8. TrimmedLate'
  BY <1>1, <1>7 DEF NodeSound, TrimmedLate
<1>9. SearchFits'
  BY <1>4, <1>5 DEF SearchFits, Requests
<1>10. ReleasedSoFar'
  BY <1>1 DEF NodeSound, ReleasedSoFar
<1> QED
  BY <1>6, <1>7, <1>8, <1>9, <1>10 DEF NodeSound

(* What a turn of the search that finds a taken page does to its locals. *)
LEMMA SkipTakenSound ==
  ASSUME NodeSound, SkipTaken
  PROVE  NodeSound'
<1> DEFINE i == Min(Run \cap map)
<1>1. /\ phase = "search" /\ phase' = "search" /\ ~Exhausted
      /\ Run \cap map # {}
      /\ UNCHANGED <<node, map, last_end_off, hint_idx, regions, next, trimmed, released, bug>>
      /\ LET sidx == align_idx(i, Step(req.align))
         IN req' = [req EXCEPT !.sidx = IF sidx = i THEN sidx + Step(req.align) ELSE sidx]
  BY DEF SkipTaken, searchVars
<1>2. TypeOK /\ node \in Nodes /\ Pages \in Nat \ {0}
  BY Geometry DEF NodeSound, TypeOK
<1>3. /\ req \in Requests
      /\ req.goal = 0 => req.fallback \in {0, 1}
      /\ req.size <= PageSize /\ req.goal = 0 /\ req.fallback = 0 => req.sidx = 0
  BY <1>1 DEF NodeSound, SearchFits, Requests
<1>4. /\ req.align \in Aligns
      /\ First = find_next_zero_bit(Pages, req.sidx)
      /\ First \in Int /\ 0 <= First /\ First + PFN_UP(req.size) <= Pages
      /\ PFN_UP(req.size) \in Nat \ {0}
      /\ Run = First .. First + PFN_UP(req.size) - 1
      /\ Run \subseteq Indices
  BY <1>1, Candidate
<1>5. i \in Run \cap map /\ i \in 0 .. Pages - 1
  <2>1. Run \cap map \subseteq Nat
    BY <1>4 DEF Indices
  <2> QED
    BY <1>1, <1>4, <2>1, MinOf DEF Indices
<1>6. req' = [req EXCEPT !.sidx = i + 1]
  <2> HIDE DEF i
  <2> QED
    BY <1>1, <1>2, <1>4, <1>5, AlignIndex, StepIsOne
<1>7. req' \in Requests /\ req'.goal = req.goal /\ req'.fallback = req.fallback /\ req'.size = req.size
  <2> HIDE DEF i
  <2> QED
    BY <1>2, <1>3, <1>5, <1>6 DEF Requests
<1>8. ~(req.size <= PageSize /\ req.goal = 0 /\ req.fallback = 0)
  <2> SUFFICES ASSUME req.size <= PageSize, req.goal = 0, req.fallback = 0 PROVE FALSE
    OBVIOUS
  <2>1. req.sidx = 0 /\ req.size \in Nat \ {0}
    BY <1>3 DEF Requests
  <2>2. PFN_UP(req.size) = 1
    BY <2>1, WordAssumption, UpIs
  <2>3. Run = {First}
    BY <1>4, <2>2
  <2>4. Zeros(0) # {} /\ First = Min(Zeros(0))
    BY <1>2, <1>4, <2>1, NextZero
  <2>5. First \in Zeros(0)
    <3>1. Zeros(0) \subseteq Nat
      BY <1>2, ZerosNatural
    <3> QED
      BY <2>4, <3>1, MinOf
  <2>6. First \notin map
    BY <2>5 DEF Zeros, Bit
  <2> QED
    BY <1>1, <2>3, <2>6
<1>9. Pages' = Pages
  BY <1>1, SameNode
<1>10. TypeOK'
  BY <1>1, <1>2, <1>7, <1>9, SameNode DEF TypeOK, PFN_PHYS, Requests
<1>11. /\ AllocationsDisjoint' /\ AllocationsOwned' /\ NoBug' /\ MapExact' /\ TailUnused'
       /\ trimmed' \subseteq Used'
  BY <1>1, NothingHandedOut
<1>12. TrimmedLate'
  BY <1>1, <1>11 DEF NodeSound, TrimmedLate
<1>13. SearchFits'
  BY <1>3, <1>7, <1>8, <1>9 DEF SearchFits, Requests
<1>14. ReleasedSoFar'
  BY <1>1 DEF NodeSound, ReleasedSoFar
<1> QED
  BY <1>10, <1>11, <1>12, <1>13, <1>14 DEF NodeSound

(* The search comes back, or drops its goal, or gives up. *)
LEMMA SearchEndsSound ==
  ASSUME NodeSound, SearchEnds
  PROVE  NodeSound'
<1>1. /\ phase = "search" /\ Exhausted /\ phase' \in {"search", "boot"}
      /\ UNCHANGED <<node, map, last_end_off, hint_idx, regions, next, trimmed, released, bug>>
  BY DEF SearchEnds, searchVars
<1>2. TypeOK /\ node \in Nodes /\ Pages \in Nat \ {0} /\ hint_idx \in 0 .. Pages
  BY Geometry DEF NodeSound, TypeOK
<1>3. /\ req \in Requests
      /\ req.goal = 0 => req.fallback \in {0, 1}
  BY <1>1 DEF NodeSound, SearchFits, Requests
<1>4. Pages' = Pages
  BY <1>1, SameNode
<1>5. /\ req'.sidx \in 0 .. Pages /\ req'.fallback \in 0 .. Pages
      /\ phase' = "search" =>
           /\ req' \in Requests
           /\ req'.goal = 0 => req'.fallback \in {0, 1}
           /\ req'.size <= PageSize /\ req'.goal = 0 /\ req'.fallback = 0 => req'.sidx = 0
  <2>1. CASE req.fallback # 0
    <3>1. req' = [req EXCEPT !.sidx = align_idx(req.fallback - 1, Step(req.align)), !.fallback = 0]
      BY <1>1, <2>1 DEF SearchEnds
    <3>2. align_idx(req.fallback - 1, Step(req.align)) = req.fallback - 1
      BY <1>2, <1>3, AlignIndex DEF Requests
    <3>3. req' = [req EXCEPT !.sidx = req.fallback - 1, !.fallback = 0]
      BY <3>1, <3>2
    <3>4. req.fallback \in 1 .. Pages
      BY <1>2, <1>3, <2>1 DEF Requests
    <3>5. req.fallback - 1 \in 0 .. Pages /\ 0 \in 0 .. Pages
      BY <1>2, <3>4
    <3>6. req' \in Requests /\ req'.sidx = req.fallback - 1 /\ req'.fallback = 0 /\ req'.goal = req.goal
      BY <1>3, <3>3, <3>5 DEF Requests
    <3>7. req'.goal = 0 => req'.sidx = 0
      BY <1>3, <2>1, <3>6
    <3> QED
      BY <3>5, <3>6, <3>7
  <2>2. CASE req.fallback = 0 /\ req.goal # 0
    <3>1. req' = Search(req.size, req.align, 0)
      BY <1>1, <2>2 DEF SearchEnds
    <3>2. req.size \in Nat \ {0} /\ req.align \in Aligns
      BY <1>3 DEF Requests
    <3>3. /\ req' \in Requests
          /\ req'.fallback \in {0, 1}
          /\ req'.fallback = 0 => req'.sidx = 0
      BY <1>2, <3>1, <3>2, SearchStarts
    <3> QED
      BY <3>3 DEF Requests
  <2>3. CASE req.fallback = 0 /\ req.goal = 0
    <3>1. phase' = "boot" /\ req' = NoReq
      BY <2>3 DEF SearchEnds
    <3> QED
      BY <1>2, <3>1 DEF NoReq
  <2> QED
    BY <2>1, <2>2, <2>3
<1>6. TypeOK'
  BY <1>1, <1>2, <1>4, <1>5, SameNode DEF TypeOK, PFN_PHYS
<1>7. /\ AllocationsDisjoint' /\ AllocationsOwned' /\ NoBug' /\ MapExact' /\ TailUnused'
      /\ trimmed' \subseteq Used'
  BY <1>1, NothingHandedOut
<1>8. TrimmedLate'
  BY <1>1, <1>7 DEF NodeSound, TrimmedLate
<1>9. SearchFits'
  BY <1>4, <1>5 DEF SearchFits, Requests
<1>10. ReleasedSoFar'
  BY <1>1 DEF NodeSound, ReleasedSoFar
<1> QED
  BY <1>6, <1>7, <1>8, <1>9, <1>10 DEF NodeSound

LEMMA FreeAllBootmemSound ==
  ASSUME NodeSound, FreeAllBootmem
  PROVE  NodeSound'
<1>1. /\ phase \in {"boot", "trim"} /\ phase' = "release" /\ next' = 0
      /\ UNCHANGED <<node, map, last_end_off, hint_idx, regions, req, trimmed, released, bug>>
  BY DEF FreeAllBootmem, searchVars
<1>2. TypeOK /\ node \in Nodes /\ released = {} /\ Pages \in Nat \ {0}
  BY <1>1, Geometry DEF NodeSound, TypeOK, ReleasedSoFar
<1>3. Pages' = Pages /\ Indices' = Indices
  BY <1>1, SameNode
<1>4. TypeOK'
  BY <1>1, <1>2, <1>3 DEF TypeOK, PFN_PHYS
<1>5. /\ AllocationsDisjoint' /\ AllocationsOwned' /\ NoBug' /\ MapExact' /\ TailUnused'
      /\ trimmed' \subseteq Used'
  BY <1>1, NothingHandedOut
<1>6. TrimmedLate' /\ SearchFits'
  BY <1>1, <1>5 DEF TrimmedLate, SearchFits
<1>7. ReleasedSoFar'
  <2>1. {i \in Indices \ map : i < 0} = {}
    BY DEF Indices
  <2>2. 0 % WordBits = 0
    BY WordAssumption
  <2> QED
    BY <1>1, <1>2, <1>3, <2>1, <2>2 DEF ReleasedSoFar
<1> QED
  BY <1>4, <1>5, <1>6, <1>7 DEF NodeSound

-----------------------------------------------------------------------------
(* Giving back and handing over *)

(* free_unused_memmap frees whole pages of one region, each of them once. *)
LEMMA TrimMemmapSound ==
  ASSUME NodeSound, NEW sidx \in 0 .. Pages, NEW eidx \in 0 .. Pages, TrimMemmap(sidx, eidx)
  PROVE  NodeSound'
<1> DEFINE given == sidx .. eidx - 1
<1>1. /\ phase \in {"boot", "trim"} /\ phase' = "trim" /\ sidx < eidx
      /\ given \cap trimmed = {}
      /\ hint_idx' = IF hint_idx > sidx THEN sidx ELSE hint_idx
      /\ bug' = (bug \/ ~(given \subseteq map))
      /\ map' = map \ given
      /\ trimmed' = trimmed \cup given
      /\ UNCHANGED <<node, last_end_off, req, next, regions, released>>
  BY DEF TrimMemmap
<1>2. /\ TypeOK /\ node \in Nodes /\ ~bug
      /\ AllocationsDisjoint /\ AllocationsOwned /\ TailUnused
      /\ map = Indices \ ((Free \ Used) \cup trimmed) /\ trimmed \subseteq Used
      /\ released = {}
  BY <1>1 DEF NodeSound, TypeOK, NoBug, MapExact, TrimmedLate, ReleasedSoFar
<1>3. Pages \in Nat \ {0} /\ Free \subseteq Indices
  BY <1>2, Geometry
<1>4. PICK r \in regions : r.off <= PFN_PHYS(sidx) /\ PFN_PHYS(eidx) <= r.off + r.size
  BY DEF TrimMemmap
<1>5. given \subseteq PagesOf(r)
  <2>1. r.off \in Nat /\ r.size \in Nat \ {0}
    BY <1>2 DEF TypeOK
  <2>2. PFN_DOWN(r.off) <= sidx
    <3>1. r.off < (sidx + 1) * PageSize
      BY <1>4, <2>1, WordAssumption DEF PFN_PHYS
    <3>2. PFN_DOWN(r.off) < sidx + 1
      <4>1. r.off \in Int /\ sidx + 1 \in Int
        BY <2>1
      <4> QED
        BY <3>1, <4>1, WordAssumption, QuotientBelow DEF PFN_DOWN
    <3> QED
      BY <2>1, <3>2, DownBounds
  <2>3. eidx <= PFN_UP(r.off + r.size)
    <3>1. (eidx - 1) * PageSize < r.off + r.size
      BY <1>4, <2>1, WordAssumption DEF PFN_PHYS
    <3> QED
      BY <2>1, <3>1, UpAtLeast
  <2>4. PFN_DOWN(r.off) \in Int /\ PFN_UP(r.off + r.size) \in Int
    BY <2>1, DownBounds, UpBounds
  <2> QED
    BY <2>2, <2>3, <2>4 DEF PagesOf
<1>6. given \subseteq Used /\ given \subseteq Free
  BY <1>2, <1>4, <1>5 DEF Used, AllocationsOwned
<1>7. given \subseteq map /\ ~bug'
  BY <1>1, <1>2, <1>3, <1>6
<1>8. Pages' = Pages /\ Indices' = Indices /\ Free' = Free /\ Used' = Used
      /\ node_min_pfn' = node_min_pfn
  BY <1>1, SameNode DEF Used
<1> HIDE DEF given
<1>9. TypeOK'
  <2>1. hint_idx' \in 0 .. Pages
    BY <1>1, <1>2 DEF TypeOK
  <2>2. trimmed' \subseteq Indices /\ map' \subseteq Indices
    BY <1>1, <1>2, <1>3, <1>6 DEF TypeOK
  <2> QED
    BY <1>1, <1>2, <1>7, <1>8, <2>1, <2>2 DEF TypeOK, PFN_PHYS
<1>10. AllocationsDisjoint' /\ NoBug' /\ TailUnused'
  BY <1>1, <1>2, <1>7 DEF AllocationsDisjoint, NoBug, TailUnused
<1>11. AllocationsOwned'
  <2> SUFFICES ASSUME NEW s \in regions
               PROVE  /\ PagesOf(s) \subseteq Free
                      /\ PagesOf(s) \ trimmed' \subseteq map'
                      /\ (PFN_PHYS(node_min_pfn) + s.off) % s.align = 0
    BY <1>1, <1>8 DEF AllocationsOwned
  <2> QED
    BY <1>1, <1>2 DEF AllocationsOwned
<1>12. MapExact'
  <2>1. map' = Indices \ ((Free \ Used) \cup trimmed')
    BY <1>1, <1>2
  <2> QED
    BY <1>1, <1>8, <2>1 DEF MapExact
<1>13. TrimmedLate' /\ SearchFits' /\ ReleasedSoFar'
  BY <1>1, <1>2, <1>6, <1>8 DEF TrimmedLate, SearchFits, ReleasedSoFar
<1> QED
  BY <1>9, <1>10, <1>11, <1>12, <1>13 DEF NodeSound

(* The clear bits of a word are its pages that are free: the bits behind the
   last page were set with the map.                                        *)
LEMMA ClearBitsAreFree ==
  ASSUME NodeSound, phase = "release", next < Pages
  PROVE  /\ ClearBits = {i \in Indices \ map : next <= i /\ i < next + WordBits}
         /\ next \in Nat
<1>1. /\ node \in Nodes /\ next \in Nat /\ map \subseteq Indices /\ next % WordBits = 0
      /\ Pages \in Nat \ {0} /\ WordBits \in Nat \ {0}
  BY Geometry, WordAssumption DEF NodeSound, TypeOK, ReleasedSoFar
<1>2. next + WordBits <= ALIGN(Pages, WordBits)
  <2> DEFINE k == next \div WordBits
             j == ALIGN(Pages, WordBits) \div WordBits
  <2>1. k \in Int /\ next = k * WordBits
    BY <1>1, Multiple, Quotient
  <2>2. ALIGN(Pages, WordBits) \in Int /\ Pages <= ALIGN(Pages, WordBits)
        /\ ALIGN(Pages, WordBits) % WordBits = 0
    BY <1>1, Aligned
  <2>3. j \in Int /\ ALIGN(Pages, WordBits) = j * WordBits
    BY <1>1, <2>2, Multiple, Quotient
  <2> HIDE DEF k, j
  <2>4. k * WordBits < j * WordBits
    BY <1>1, <2>1, <2>2, <2>3
  <2>5. k + 1 <= j
    BY <1>1, <2>1, <2>3, <2>4
  <2>6. (k + 1) * WordBits <= j * WordBits
    BY <1>1, <2>1, <2>3, <2>5
  <2> QED
    BY <1>1, <2>1, <2>3, <2>6
<1>3. ALIGN(Pages, WordBits) \in Int
  BY <1>1, Aligned
<1>4. ASSUME NEW i \in next .. next + WordBits - 1
      PROVE  ~Bit(i) <=> i \in Indices \ map
  BY <1>1, <1>2, <1>3 DEF Bit, Indices
<1>5. ASSUME NEW i \in Indices \ map, next <= i, i < next + WordBits
      PROVE  i \in next .. next + WordBits - 1
  BY <1>1, <1>5 DEF Indices
<1> QED
  BY <1>1, <1>4, <1>5 DEF ClearBits, Indices

(* The blocks of a word cover its clear bits, also when it is one block. *)
LEMMA WordBlocksCover ==
  ASSUME NodeSound, phase = "release", next < Pages
  PROVE  /\ UNION {b[1] .. b[1] + 2 ^ b[2] - 1 : b \in WordBlocks} = ClearBits
         /\ \A b \in WordBlocks : /\ b[1] \in Nat
                                  /\ b[1] .. b[1] + 2 ^ b[2] - 1 \subseteq ClearBits
                                  /\ (node_min_pfn + b[1]) % 2 ^ b[2] = 0
<1>1. /\ node \in Nodes /\ next \in Nat /\ next % WordBits = 0
      /\ WordBits \in Nat \ {0} /\ WordOrder \in Nat \ {0} /\ WordBits = 2 ^ WordOrder
      /\ node_min_pfn \in Nat
  BY Geometry, WordAssumption DEF NodeSound, TypeOK, ReleasedSoFar
<1>2. CASE WholeWord
  <2>1. WordBlocks = {<<next, WordOrder>>}
    BY <1>2 DEF WordBlocks
  <2>2. ClearBits = next .. next + WordBits - 1
    <3> DEFINE W == next .. next + WordBits - 1
    <3>1. IsFiniteSet(W) /\ Cardinality(W) = WordBits
      BY <1>1, FS_Interval
    <3>2. ClearBits \subseteq W
      BY DEF ClearBits
    <3>3. Cardinality(ClearBits) = WordBits
      BY <1>2 DEF WholeWord
    <3> HIDE DEF W
    <3>4. ClearBits = W
      BY <3>1, <3>2, <3>3, FS_Subset
    <3> QED
      BY <3>4 DEF W
  <2>3. (node_min_pfn + next) % WordBits = 0
    <3> DEFINE k == next \div WordBits
               j == node_min_pfn \div WordBits
    <3>1. k \in Int /\ next = k * WordBits
      <4>1. next \in Int
        BY <1>1
      <4> QED
        BY <1>1, <4>1, Multiple, Quotient
    <3>2. j \in Int /\ node_min_pfn = j * WordBits
      BY <1>1, <1>2, Multiple, Quotient DEF WholeWord
    <3> HIDE DEF k, j
    <3>3. node_min_pfn + next = (j + k) * WordBits
      BY <1>1, <3>1, <3>2
    <3> QED
      BY <1>1, <3>1, <3>2, <3>3, NoRemainder
  <2> QED
    BY <1>1, <2>1, <2>2, <2>3
<1>3. CASE ~WholeWord
  <2>1. WordBlocks = {<<i, 0>> : i \in ClearBits}
    BY <1>3 DEF WordBlocks
  <2>2. ClearBits \subseteq Nat
    BY ClearBitsAreFree DEF Indices
  <2>3. 2 ^ 0 = 1
    OBVIOUS
  <2>4. ASSUME NEW i \in Nat PROVE i .. i + 2 ^ 0 - 1 = {i} /\ (node_min_pfn + i) % 2 ^ 0 = 0
    <3>1. (node_min_pfn + i) % 1 = 0
      BY <1>1, NoRemainder
    <3> QED
      BY <2>3, <3>1
  <2>5. ASSUME NEW b \in WordBlocks
        PROVE  /\ b[1] \in ClearBits /\ b[1] \in Nat
               /\ b[1] .. b[1] + 2 ^ b[2] - 1 = {b[1]}
               /\ (node_min_pfn + b[1]) % 2 ^ b[2] = 0
    <3>1. PICK i \in ClearBits : b = <<i, 0>>
      BY <2>1
    <3> QED
      BY <2>2, <2>4, <3>1
  <2>6. ASSUME NEW i \in ClearBits
        PROVE  i \in UNION {b[1] .. b[1] + 2 ^ b[2] - 1 : b \in WordBlocks}
    <3>1. <<i, 0>> \in WordBlocks
      BY <2>1
    <3> QED
      BY <2>5, <3>1
  <2>7. ASSUME NEW i \in UNION {b[1] .. b[1] + 2 ^ b[2] - 1 : b \in WordBlocks}
        PROVE  i \in ClearBits
    BY <2>5
  <2> QED
    BY <2>5, <2>6, <2>7
<1> QED
  BY <1>2, <1>3

LEMMA ReleaseWordSound ==
  ASSUME NodeSound, ReleaseWord
  PROVE  NodeSound'
<1>1. /\ phase = "release" /\ phase' = "release" /\ next < Pages
      /\ released' = released \cup ClearBits
      /\ next' = next + WordBits
      /\ UNCHANGED <<node, map, last_end_off, hint_idx, regions, req, trimmed, bug>>
  BY WordBlocksCover DEF ReleaseWord, searchVars
<1>2. /\ TypeOK /\ node \in Nodes /\ next \in Nat
      /\ released = {i \in Indices \ map : i < next}
      /\ next % WordBits = 0
      /\ Pages \in Nat \ {0} /\ WordBits \in Nat \ {0}
      /\ ClearBits = {i \in Indices \ map : next <= i /\ i < next + WordBits}
  BY <1>1, Geometry, WordAssumption, ClearBitsAreFree DEF NodeSound, TypeOK, ReleasedSoFar
<1>3. released' = {i \in Indices \ map : i < next'}
  BY <1>1, <1>2 DEF Indices
<1>4. next' % WordBits = 0 /\ next' \in Nat
  <2> DEFINE k == next \div WordBits
  <2>1. k \in Int /\ next = k * WordBits
    BY <1>2, Multiple, Quotient
  <2> HIDE DEF k
  <2>2. next' = (k + 1) * WordBits
    BY <1>1, <1>2, <2>1
  <2> QED
    BY <1>1, <1>2, <2>1, <2>2, NoRemainder
<1>5. Pages' = Pages /\ Indices' = Indices
  BY <1>1, SameNode
<1>6. TypeOK'
  BY <1>1, <1>2, <1>3, <1>4, <1>5 DEF TypeOK, PFN_PHYS
<1>7. /\ AllocationsDisjoint' /\ AllocationsOwned' /\ NoBug' /\ MapExact' /\ TailUnused'
      /\ trimmed' \subseteq Used'
  BY <1>1, NothingHandedOut
<1>8. TrimmedLate' /\ SearchFits'
  BY <1>1, <1>7 DEF TrimmedLate, SearchFits
<1>9. ReleasedSoFar'
  BY <1>1, <1>3, <1>4, <1>5 DEF ReleasedSoFar
<1> QED
  BY <1>6, <1>7, <1>8, <1>9 DEF NodeSound

LEMMA ReleaseMapSound ==
  ASSUME NodeSound, ReleaseMap
  PROVE  NodeSound'
<1>1. /\ phase = "release" /\ phase' = "done" /\ next >= Pages
      /\ released' = released \cup MapPages
      /\ UNCHANGED <<node, map, last_end_off, hint_idx, regions, req, next, trimmed, bug>>
  BY DEF ReleaseMap, searchVars
<1>2. /\ TypeOK /\ node \in Nodes /\ next \in Nat
      /\ released = {i \in Indices \ map : i < next}
      /\ Pages \in Nat \ {0} /\ MapPages \subseteq Indices
  BY <1>1, Geometry DEF NodeSound, TypeOK, ReleasedSoFar
<1>3. released' = (Indices \ map) \cup MapPages
  BY <1>1, <1>2 DEF Indices
<1>4. Pages' = Pages /\ Indices' = Indices /\ MapPages' = MapPages
  BY <1>1, SameNode
<1>5. TypeOK'
  BY <1>1, <1>2, <1>3, <1>4 DEF TypeOK, PFN_PHYS
<1>6. /\ AllocationsDisjoint' /\ AllocationsOwned' /\ NoBug' /\ MapExact' /\ TailUnused'
      /\ trimmed' \subseteq Used'
  BY <1>1, NothingHandedOut
<1>7. TrimmedLate' /\ SearchFits' /\ ReleasedSoFar'
  BY <1>1, <1>3, <1>4, <1>6 DEF TrimmedLate, SearchFits, ReleasedSoFar
<1> QED
  BY <1>5, <1>6, <1>7 DEF NodeSound

-----------------------------------------------------------------------------
(* Handing out *)

(* An allocation that ends inside a page has bytes there. *)
LEMMA TailPage ==
  ASSUME NEW off \in Nat, NEW e \in Nat, off < e, e % PageSize # 0
  PROVE  PFN_DOWN(e) \in PFN_DOWN(off) .. PFN_UP(e) - 1
<1>1. PFN_DOWN(off) \in Int /\ PFN_DOWN(e) \in Int /\ PFN_UP(e) \in Int
  BY DownBounds, UpBounds
<1>2. PFN_DOWN(off) <= PFN_DOWN(e)
  BY DownMonotone
<1>3. PFN_DOWN(e) * PageSize # e
  BY <1>1, WordAssumption, NoRemainder
<1>4. ((PFN_DOWN(e) + 1) - 1) * PageSize < e
  BY <1>1, <1>3, DownBounds, WordAssumption
<1>5. PFN_DOWN(e) + 1 <= PFN_UP(e)
  <2>1. PFN_DOWN(e) + 1 \in Int /\ e \in Int
    BY <1>1
  <2> QED
    BY <1>4, <2>1, UpAtLeast
<1> QED
  BY <1>1, <1>2, <1>5

(* A byte of an allocation lies in one of its pages. *)
LEMMA BytesInPages ==
  ASSUME NEW r \in [off : Nat, size : Nat \ {0}, align : Aligns], NEW b \in Bytes(r)
  PROVE  b \in Int /\ r.off <= b /\ b < r.off + r.size /\ PFN_DOWN(b) \in PagesOf(r)
<1>1. b \in Int /\ r.off <= b /\ b < r.off + r.size /\ r.off \in Int /\ r.off + r.size \in Int
  BY DEF Bytes
<1>2. PFN_DOWN(r.off) <= PFN_DOWN(b)
  BY <1>1, DownMonotone
<1>3. PFN_DOWN(b) + 1 <= PFN_UP(r.off + r.size)
  <2>1. PFN_DOWN(b) \in Int /\ PFN_DOWN(b) * PageSize <= b
    BY <1>1, DownBounds
  <2>2. ((PFN_DOWN(b) + 1) - 1) * PageSize < r.off + r.size
    BY <1>1, <2>1, WordAssumption
  <2>3. PFN_DOWN(b) + 1 \in Int
    BY <2>1
  <2> QED
    BY <1>1, <2>2, <2>3, UpAtLeast
<1> QED
  BY <1>1, <1>2, <1>3, DownBounds, UpBounds DEF PagesOf

(* Where the new allocation lies: on the pages of the run, and at most in the
   tail of the page before it.                                             *)
LEMMA Placed ==
  ASSUME NodeSound, phase = "search", ~Exhausted
  PROVE  /\ StartOff \in Nat /\ EndOff = StartOff + req.size
         /\ (PFN_PHYS(node_min_pfn) + StartOff) % req.align = 0
         /\ StartOff <= First * PageSize
         /\ ~Merges => StartOff = First * PageSize
         /\ Merges => last_end_off <= StartOff /\ PFN_DOWN(last_end_off) = First - 1
<1>1. /\ node \in Nodes /\ last_end_off \in Nat
  BY DEF NodeSound, TypeOK
<1>2. req.size \in Nat \ {0} /\ req.align \in Aligns /\ First \in Int /\ 0 <= First
  BY Candidate
<1>3. /\ req.align \in Nat \ {0} /\ PageSize % req.align = 0 /\ PageSize \in Nat \ {0}
      /\ node_min_pfn \in Nat
  BY <1>1, <1>2, CallerAssumption, WordAssumption, Geometry
<1> DEFINE base == PFN_PHYS(node_min_pfn)
           a    == req.align
<1>4. base \in Nat /\ base = node_min_pfn * PageSize
  BY <1>3 DEF PFN_PHYS
<1>5. First * PageSize \in Nat
  BY <1>2, <1>3
<1>6. base + First * PageSize = (node_min_pfn + First) * PageSize
  BY <1>2, <1>3, <1>4
<1>7. (base + First * PageSize) % a = 0
  <2>1. node_min_pfn + First \in Int
    BY <1>2, <1>3
  <2> HIDE DEF base
  <2> QED
    BY <1>3, <1>6, <2>1, Divides
<1>8. EndOff = StartOff + req.size
  BY DEF EndOff
<1>9. CASE ~Merges
  <2>1. StartOff = First * PageSize
    BY <1>9 DEF StartOff, PFN_PHYS
  <2> QED
    BY <1>5, <1>7, <1>8, <1>9, <2>1
<1>10. CASE Merges
  <2>1. PFN_DOWN(last_end_off) = First - 1
    BY <1>1, <1>2, <1>10, DownBounds DEF Merges
  <2>2. last_end_off < First * PageSize
    BY <1>1, <1>2, <2>1, DownBounds
  <2> DEFINE up == ALIGN(base + last_end_off, a)
  <2>3. StartOff = up - base
    BY <1>10 DEF StartOff, align_off
  <2> HIDE DEF base
  <2>4. base + last_end_off \in Int /\ base + First * PageSize \in Int
    BY <1>1, <1>4, <1>5
  <2>5. /\ up \in Int /\ base + last_end_off <= up /\ up % a = 0
        /\ \A m \in Int : m % a = 0 /\ base + last_end_off <= m => up <= m
    BY <1>3, <2>4, Aligned
  <2>6. base + last_end_off <= base + First * PageSize
    BY <1>1, <1>4, <1>5, <2>2
  <2>7. up <= base + First * PageSize
    BY <1>7, <2>4, <2>5, <2>6
  <2> HIDE DEF up
  <2>8. base + StartOff = up /\ StartOff \in Nat /\ last_end_off <= StartOff
        /\ StartOff <= First * PageSize
    BY <1>1, <1>4, <1>5, <2>3, <2>5, <2>7
  <2> QED
    BY <1>8, <1>10, <2>1, <2>5, <2>8 DEF base
<1> QED
  BY <1>9, <1>10

Taken == [off |-> StartOff, size |-> req.size, align |-> req.align]

(* What __reserve marks is the pages of the new allocation, without the one it
   shares with the last.                                                   *)
LEMMA NewPages ==
  ASSUME NodeSound, phase = "search", ~Exhausted
  PROVE  /\ Taken \in [off : Nat, size : Nat \ {0}, align : Aligns]
         /\ EndOff \in 0 .. PFN_PHYS(Pages) /\ PFN_UP(EndOff) \in 0 .. Pages
         /\ Reserves \subseteq Run
         /\ \/ PagesOf(Taken) = Reserves
            \/ Merges /\ PagesOf(Taken) = Reserves \cup {First - 1}
<1>1. /\ node \in Nodes /\ Pages \in Nat \ {0} /\ PageSize \in Nat \ {0}
  BY Geometry, WordAssumption DEF NodeSound, TypeOK
<1>2. /\ req.size \in Nat \ {0} /\ req.align \in Aligns /\ First \in Int /\ 0 <= First
      /\ PFN_UP(req.size) \in Nat \ {0} /\ First + PFN_UP(req.size) <= Pages
      /\ Run = First .. First + PFN_UP(req.size) - 1
  BY Candidate
<1>3. /\ StartOff \in Nat /\ EndOff = StartOff + req.size
      /\ StartOff <= First * PageSize
      /\ ~Merges => StartOff = First * PageSize
      /\ Merges => last_end_off <= StartOff /\ PFN_DOWN(last_end_off) = First - 1
  BY Placed
<1>4. EndOff \in Nat
  BY <1>2, <1>3
<1>5. EndOff <= (First + PFN_UP(req.size)) * PageSize
  <2> DEFINE k == PFN_UP(req.size)
  <2>1. req.size <= k * PageSize
    <3>1. req.size \in Int
      BY <1>2
    <3> QED
      BY <3>1, UpBounds
  <2>2. k \in Int
    BY <1>2
  <2> HIDE DEF k
  <2>3. EndOff <= First * PageSize + k * PageSize
    BY <1>1, <1>2, <1>3, <2>1, <2>2
  <2>4. EndOff <= (First + k) * PageSize
    BY <1>1, <1>2, <2>2, <2>3
  <2> QED
    BY <2>4 DEF k
<1>6. PFN_UP(EndOff) \in Int /\ PFN_UP(EndOff) <= First + PFN_UP(req.size)
  <2>1. First + PFN_UP(req.size) \in Int /\ EndOff \in Int
    BY <1>2, <1>4
  <2> QED
    BY <1>5, <2>1, UpAtMost, UpBounds
<1>7. /\ PFN_DOWN(StartOff) \in Int /\ First - 1 <= PFN_DOWN(StartOff) /\ PFN_DOWN(StartOff) <= First
      /\ PFN_DOWN(StartOff) # First => Merges
  <2>1. PFN_DOWN(StartOff) \in Int
    BY <1>3, DownBounds
  <2>2. PFN_DOWN(First * PageSize) = First /\ First * PageSize \in Int
    BY <1>1, <1>2, NoRemainder DEF PFN_DOWN
  <2>3. PFN_DOWN(StartOff) <= First
    BY <1>3, <2>2, DownMonotone
  <2>4. CASE ~Merges
    BY <1>2, <1>3, <2>1, <2>2, <2>4
  <2>5. CASE Merges
    <3>1. last_end_off \in Int /\ StartOff \in Int /\ last_end_off <= StartOff
      BY <1>3, <2>5 DEF NodeSound, TypeOK
    <3>2. PFN_DOWN(last_end_off) <= PFN_DOWN(StartOff)
      BY <3>1, DownMonotone
    <3> QED
      BY <1>3, <2>1, <2>3, <2>5, <3>2
  <2> QED
    BY <2>4, <2>5
<1>8. First <= PFN_UP(EndOff)
  <2>1. (First - 1) * PageSize \in Int /\ PFN_DOWN(StartOff) * PageSize \in Int
    BY <1>1, <1>2, <1>7
  <2>2. PFN_DOWN(StartOff) * PageSize <= StartOff
    BY <1>3, DownBounds
  <2>3. (First - 1) * PageSize <= PFN_DOWN(StartOff) * PageSize
    BY <1>1, <1>2, <1>7
  <2>4. (First - 1) * PageSize < EndOff
    BY <1>2, <1>3, <2>1, <2>2, <2>3
  <2> QED
    BY <1>2, <1>4, <2>4, UpAtLeast
<1>9. EndOff \in 0 .. PFN_PHYS(Pages) /\ PFN_UP(EndOff) \in 0 .. Pages
  <2>1. (First + PFN_UP(req.size)) * PageSize <= Pages * PageSize
    BY <1>1, <1>2
  <2>2. (First + PFN_UP(req.size)) * PageSize \in Int /\ Pages * PageSize \in Int
    BY <1>1, <1>2
  <2>3. EndOff <= Pages * PageSize
    BY <1>4, <1>5, <2>1, <2>2
  <2>4. PFN_UP(EndOff) \in 0 .. Pages
    BY <1>1, <1>2, <1>6, <1>8
  <2> QED
    BY <1>4, <2>2, <2>3, <2>4 DEF PFN_PHYS
<1>10. Taken \in [off : Nat, size : Nat \ {0}, align : Aligns]
  BY <1>2, <1>3 DEF Taken
<1>11. PagesOf(Taken) = PFN_DOWN(StartOff) .. PFN_UP(EndOff) - 1
  BY <1>3 DEF PagesOf, Taken
<1>12. CASE PFN_DOWN(StartOff) = First
  <2>1. Reserves = First .. PFN_UP(EndOff) - 1
    BY <1>2, <1>12 DEF Reserves
  <2>2. PagesOf(Taken) = Reserves /\ Reserves \subseteq Run
    BY <1>2, <1>6, <1>11, <1>12, <2>1
  <2> QED
    BY <1>9, <1>10, <2>2
<1>13. CASE PFN_DOWN(StartOff) = First - 1
  <2>1. Reserves = First .. PFN_UP(EndOff) - 1
    BY <1>2, <1>13 DEF Reserves
  <2>2. PagesOf(Taken) = Reserves \cup {First - 1} /\ Reserves \subseteq Run
    BY <1>2, <1>6, <1>8, <1>11, <1>13, <2>1
  <2>3. Merges
    BY <1>2, <1>7, <1>13
  <2> QED
    BY <1>9, <1>10, <2>2, <2>3
<1> QED
  BY <1>2, <1>7, <1>12, <1>13

(* The page whose tail is used was handed out, and nobody has a byte there
   behind the last allocation.                                             *)
LEMMA SharedPage ==
  ASSUME NodeSound, phase = "search", ~Exhausted, Merges
  PROVE  /\ First - 1 \in Used
         /\ \A r \in regions : First - 1 \in PagesOf(r) => r.off + r.size <= last_end_off
<1>1. last_end_off % PageSize # 0
  BY DEF Merges
<1>2. PFN_DOWN(last_end_off) = First - 1
  BY Placed
<1>3. TypeOK /\ TailUnused
  BY DEF NodeSound
<1>4. PICK r \in regions : r.off + r.size = last_end_off
  BY <1>1, <1>3 DEF TailUnused
<1>5. r.off \in Nat /\ r.size \in Nat \ {0} /\ last_end_off \in Nat
  BY <1>3 DEF TypeOK
<1>6. PFN_DOWN(last_end_off) \in PagesOf(r)
  <2>1. r.off < last_end_off
    BY <1>4, <1>5
  <2> QED
    BY <1>1, <1>4, <1>5, <2>1, TailPage DEF PagesOf
<1> QED
  BY <1>1, <1>2, <1>3, <1>6 DEF Used, TailUnused

(* A run of free pages is handed out, from the tail of the last page if it
   follows it.                                                             *)
LEMMA FoundSound ==
  ASSUME NodeSound, Found
  PROVE  NodeSound'
<1>1. /\ phase = "search" /\ phase' = "boot" /\ ~Exhausted
      /\ Run \cap map = {}
      /\ last_end_off' = EndOff
      /\ hint_idx' = PFN_UP(EndOff)
      /\ map' = map \cup Reserves
      /\ bug' = (bug \/ Reserves \cap map # {})
      /\ regions' = regions \cup {Taken}
      /\ req' = NoReq
      /\ UNCHANGED <<node, next, trimmed, released>>
  BY DEF Found, Taken
<1>2. /\ TypeOK /\ node \in Nodes /\ ~bug
      /\ AllocationsDisjoint /\ AllocationsOwned /\ TailUnused
      /\ trimmed = {} /\ released = {}
      /\ map = Indices \ (Free \ Used)
      /\ map \subseteq Indices
  BY <1>1 DEF NodeSound, TypeOK, NoBug, MapExact, TrimmedLate, ReleasedSoFar
<1>3. Pages \in Nat \ {0} /\ Free \subseteq Indices
  BY <1>2, Geometry
<1>4. Pages' = Pages /\ Indices' = Indices /\ Free' = Free /\ node_min_pfn' = node_min_pfn
  BY <1>1, SameNode
<1>5. /\ Taken \in [off : Nat, size : Nat \ {0}, align : Aligns]
      /\ EndOff \in 0 .. PFN_PHYS(Pages) /\ PFN_UP(EndOff) \in 0 .. Pages
      /\ Reserves \subseteq Run
      /\ \/ PagesOf(Taken) = Reserves
         \/ Merges /\ PagesOf(Taken) = Reserves \cup {First - 1}
  BY <1>1, NewPages
<1>6. /\ StartOff \in Nat /\ EndOff = StartOff + req.size /\ req.size \in Nat \ {0}
      /\ Merges => last_end_off <= StartOff
      /\ (PFN_PHYS(node_min_pfn) + StartOff) % req.align = 0
      /\ Taken.off = StartOff /\ Taken.size = req.size /\ Taken.align = req.align
  BY <1>1, Placed, Candidate DEF Taken
<1>7. Run \subseteq Indices
  BY <1>1, Candidate
<1>8. Reserves \cap map = {} /\ Reserves \subseteq Free \ Used
  BY <1>1, <1>2, <1>5, <1>7
<1>9. Used \subseteq Free /\ Used \cap Reserves = {}
  BY <1>2, <1>8 DEF Used, AllocationsOwned
<1>10. PagesOf(Taken) \subseteq Used \cup Reserves
  BY <1>1, <1>5, SharedPage
<1>11. Used' = Used \cup Reserves
  <2>1. Used' = Used \cup PagesOf(Taken)
    BY <1>1 DEF Used
  <2>2. Reserves \subseteq PagesOf(Taken)
    BY <1>5
  <2> QED
    BY <1>10, <2>1, <2>2
<1>12. map' = Indices \ (Free \ Used')
  BY <1>1, <1>2, <1>3, <1>8, <1>11
(* Nobody has a byte of its pages from where it starts. *)
<1>13. ASSUME NEW r \in regions, NEW q \in PagesOf(r), q \in PagesOf(Taken)
       PROVE  r.off + r.size <= StartOff
  <2>1. q \notin Reserves
    BY <1>9, <1>13 DEF Used
  <2>2. Merges /\ q = First - 1
    BY <1>5, <1>13, <2>1
  <2>3. r.off + r.size <= last_end_off /\ last_end_off <= StartOff
    BY <1>1, <1>6, <1>13, <2>2, SharedPage
  <2>4. r.off + r.size \in Int /\ last_end_off \in Int
    BY <1>2, <1>13 DEF TypeOK
  <2> QED
    BY <1>6, <2>3, <2>4
<1>14. \A r \in regions : r \in [off : Nat, size : Nat \ {0}, align : Aligns]
  BY <1>2 DEF TypeOK
<1>15. ASSUME NEW r \in regions PROVE Bytes(r) \cap Bytes(Taken) = {}
  <2> SUFFICES ASSUME NEW b \in Bytes(r), b \in Bytes(Taken) PROVE FALSE
    OBVIOUS
  <2>1. b < r.off + r.size /\ PFN_DOWN(b) \in PagesOf(r) /\ b \in Int
    BY <1>14, <1>15, BytesInPages
  <2>2. StartOff <= b /\ PFN_DOWN(b) \in PagesOf(Taken)
    BY <1>5, <1>6, BytesInPages
  <2>3. r.off + r.size <= StartOff
    BY <1>13, <1>15, <2>1, <2>2
  <2>4. r.off + r.size \in Int
    BY <1>14, <1>15
  <2> QED
    BY <1>6, <2>1, <2>2, <2>3, <2>4
<1>16. TypeOK'
  <2>1. map' \subseteq Indices
    BY <1>1, <1>2, <1>5, <1>7
  <2>2. regions' \subseteq [off : Nat, size : Nat \ {0}, align : Aligns]
    BY <1>1, <1>5, <1>14
  <2>3. req'.sidx = 0 /\ req'.fallback = 0
    BY <1>1 DEF NoReq
  <2>4. bug' \in BOOLEAN
    BY <1>1
  <2>5. PFN_PHYS(Pages') = PFN_PHYS(Pages)
    BY <1>4
  <2> QED
    BY <1>1, <1>2, <1>3, <1>4, <1>5, <2>1, <2>2, <2>3, <2>4, <2>5 DEF TypeOK
<1>17. AllocationsDisjoint'
  <2> SUFFICES ASSUME NEW r \in regions', NEW s \in regions', r # s
               PROVE  Bytes(r) \cap Bytes(s) = {}
    BY DEF AllocationsDisjoint
  <2>1. CASE r \in regions /\ s \in regions
    BY <1>2, <2>1 DEF AllocationsDisjoint
  <2>2. CASE r \in regions /\ s = Taken
    BY <1>15, <2>2
  <2>3. CASE r = Taken /\ s \in regions
    BY <1>15, <2>3
  <2> QED
    BY <1>1, <2>1, <2>2, <2>3
<1>18. AllocationsOwned'
  <2> SUFFICES ASSUME NEW r \in regions'
               PROVE  /\ PagesOf(r) \subseteq Free
                      /\ PagesOf(r) \ trimmed' \subseteq map'
                      /\ (PFN_PHYS(node_min_pfn) + r.off) % r.align = 0
    BY <1>4 DEF AllocationsOwned
  <2>1. CASE r \in regions
    BY <1>1, <1>2, <2>1 DEF AllocationsOwned
  <2>2. CASE r = Taken
    <3>1. PagesOf(r) \subseteq Free
      BY <1>8, <1>9, <1>10, <2>2
    <3>2. PagesOf(r) \subseteq map'
      BY <1>3, <1>10, <1>11, <1>12, <2>2, <3>1
    <3> QED
      BY <1>6, <2>2, <3>1, <3>2
  <2> QED
    BY <1>1, <2>1, <2>2
<1>19. MapExact'
  BY <1>1, <1>2, <1>4, <1>12 DEF MapExact
<1>20. TailUnused'
  <2> SUFFICES ASSUME EndOff % PageSize # 0
               PROVE  /\ \E r \in regions' : r.off + r.size = EndOff
                      /\ \A r \in regions' :
                           PFN_DOWN(EndOff) \in PagesOf(r) => r.off + r.size <= EndOff
    BY <1>1 DEF TailUnused
  <2>1. Taken.off + Taken.size = EndOff /\ EndOff \in Nat /\ StartOff < EndOff
    BY <1>6
  <2>2. PFN_DOWN(EndOff) \in PagesOf(Taken)
    BY <1>6, <2>1, TailPage DEF PagesOf
  <2>3. ASSUME NEW r \in regions, PFN_DOWN(EndOff) \in PagesOf(r)
        PROVE  r.off + r.size <= EndOff
    <3>1. r.off + r.size <= StartOff
      BY <1>13, <2>2, <2>3
    <3>2. r.off + r.size \in Int
      BY <1>14, <2>3
    <3> QED
      BY <1>6, <2>1, <3>1, <3>2
  <2> QED
    BY <1>1, <2>1, <2>3
<1>21. NoBug' /\ TrimmedLate' /\ SearchFits' /\ ReleasedSoFar'
  BY <1>1, <1>2, <1>8 DEF NoBug, TrimmedLate, SearchFits, ReleasedSoFar
<1> QED
  BY <1>16, <1>17, <1>18, <1>19, <1>20, <1>21 DEF NodeSound

(* What was not handed out is not yet in use. *)
LEMMA FoundIsNew ==
  ASSUME NodeSound, phase = "search", ~Exhausted, Run \cap map = {}
  PROVE  Taken \notin regions
<1> SUFFICES ASSUME Taken \in regions PROVE FALSE
  OBVIOUS
<1>1. /\ map = Indices \ (Free \ Used) /\ trimmed = {} /\ AllocationsOwned
  BY DEF NodeSound, MapExact, TrimmedLate
<1>2. PagesOf(Taken) \cap Run = {}
  <2>1. PagesOf(Taken) \subseteq map
    BY <1>1 DEF AllocationsOwned
  <2> QED
    BY <2>1
<1>3. Reserves = {} /\ Merges /\ PagesOf(Taken) = {First - 1}
  <2>1. PagesOf(Taken) # {}
    <3>1. Taken \in [off : Nat, size : Nat \ {0}, align : Aligns]
      BY NewPages
    <3>2. Taken.off \in Bytes(Taken)
      BY <3>1 DEF Bytes
    <3> QED
      BY <3>1, <3>2, BytesInPages
  <2> QED
    BY <1>2, <2>1, NewPages
<1>4. Taken.off + Taken.size <= last_end_off
  BY <1>3, SharedPage
<1>5. /\ Taken.off = StartOff /\ Taken.size = req.size /\ req.size \in Nat \ {0}
      /\ StartOff \in Nat /\ last_end_off <= StartOff /\ last_end_off \in Nat
  BY <1>3, Placed, Candidate DEF Taken, NodeSound, TypeOK
<1> QED
  BY <1>4, <1>5

LEMMA TrimmedFree ==
  ASSUME NodeSound
  PROVE  trimmed \subseteq Free
BY DEF NodeSound, TrimmedLate, AllocationsOwned, Used

(* From the first page find_next_zero_bit looks at every page. *)
LEMMA WholeNodeSearched ==
  ASSUME node \in Nodes
  PROVE  Indices \subseteq 0 .. (0 \div WordBits + Pages \div WordBits + 1) * WordBits - 1
<1> DEFINE q == Pages \div WordBits
<1>1. Pages \in Nat \ {0} /\ WordBits \in Nat \ {0}
  BY Geometry, WordAssumption
<1>2. q \in Int /\ Pages < WordBits * q + WordBits
  BY <1>1, Quotient
<1>3. 0 \div WordBits = 0
  BY <1>1
<1> HIDE DEF q
<1>4. (0 + q + 1) * WordBits = WordBits * q + WordBits
  BY <1>1, <1>2
<1>5. Indices \subseteq 0 .. (0 + q + 1) * WordBits - 1
  BY <1>1, <1>2, <1>4 DEF Indices
<1> QED
  BY <1>3, <1>5 DEF q

-----------------------------------------------------------------------------
(* The theorems *)

LEMMA NextSound == NodeSound /\ [Next]_vars => NodeSound'
<1> SUFFICES ASSUME NodeSound, [Next]_vars PROVE NodeSound'
  OBVIOUS
<1>1. ASSUME NEW size \in AllocSizes, NEW align \in Aligns, NEW goal \in Goals,
             StartAlloc(size, align, goal)
      PROVE  NodeSound'
  BY <1>1, StartAllocSound
<1>2. ASSUME NEW sidx \in 0 .. Pages, NEW eidx \in 0 .. Pages, TrimMemmap(sidx, eidx)
      PROVE  NodeSound'
  BY <1>2, TrimMemmapSound
<1>3. CASE UNCHANGED vars
  <2>1. Pages' = Pages /\ Indices' = Indices /\ Free' = Free /\ MapPages' = MapPages
        /\ node_min_pfn' = node_min_pfn
    BY <1>3, SameNode DEF vars
  <2>2. TypeOK' /\ AllocationsDisjoint' /\ AllocationsOwned' /\ NoBug'
    BY <1>3, <2>1 DEF NodeSound, vars, TypeOK, AllocationsDisjoint, AllocationsOwned, NoBug, PFN_PHYS
  <2>3. MapExact' /\ TailUnused' /\ TrimmedLate'
    BY <1>3, <2>1 DEF NodeSound, vars, MapExact, TailUnused, TrimmedLate, Used
  <2>4. SearchFits' /\ ReleasedSoFar'
    BY <1>3, <2>1 DEF NodeSound, vars, SearchFits, ReleasedSoFar
  <2> QED
    BY <2>2, <2>3, <2>4 DEF NodeSound
<1> QED
  BY <1>1, <1>2, <1>3, ArmBootmemInitSound, FreeAllBootmemSound, SkipTakenSound, FoundSound,
     SearchEndsSound, ReleaseWordSound, ReleaseMapSound DEF Next, Call, Progress

(* alloc_bootmem_core gives each byte to one owner at most, only memory that was
   free and at the alignment asked for, and reaches no BUG(), for every node,
   every table of memblock and every sequence of requests.                 *)
THEOREM NodeIsSound == Spec => []NodeSound
BY InitSound, NextSound, PTL DEF Spec

LEMMA HandOverFollows == NodeSound => HandOverExact
<1> SUFFICES ASSUME NodeSound PROVE HandOverExact
  OBVIOUS
<1>1. node \in Nodes
  BY DEF NodeSound, TypeOK
<1>2. phase # "init" => map = Indices \ ((Free \ Used) \cup trimmed)
  BY DEF NodeSound, MapExact
<1>3. Free \subseteq Indices /\ MapPages \subseteq ReservedPages(node) /\ Used \subseteq Free
  BY <1>1, Geometry DEF NodeSound, AllocationsOwned, Used
<1>4. HandOver
  <2> SUFFICES ASSUME phase = "release", next < Pages, NEW b \in WordBlocks
               PROVE  /\ b[1] .. b[1] + 2 ^ b[2] - 1 \subseteq Indices \ (released \cup MapPages)
                      /\ (node_min_pfn + b[1]) % 2 ^ b[2] = 0
    BY DEF HandOver
  <2>1. /\ b[1] .. b[1] + 2 ^ b[2] - 1 \subseteq ClearBits
        /\ (node_min_pfn + b[1]) % 2 ^ b[2] = 0
    BY WordBlocksCover
  <2>2. ClearBits = {i \in Indices \ map : next <= i /\ i < next + WordBits} /\ next \in Nat
    BY ClearBitsAreFree
  <2>3. released = {i \in Indices \ map : i < next}
    BY DEF NodeSound, ReleasedSoFar
  <2>4. MapPages \subseteq map
    BY <1>2, <1>3, TrimmedFree, Geometry, <1>1 DEF Free
  <2>5. ClearBits \cap released = {}
    BY <2>2, <2>3 DEF Indices
  <2> QED
    BY <2>1, <2>2, <2>4, <2>5
<1>5. ReleaseExact
  BY <1>2, <1>3, TrimmedFree DEF NodeSound, ReleasedSoFar, ReleaseExact
<1> QED
  BY <1>4, <1>5 DEF HandOverExact

(* free_all_bootmem gives the buddy allocator aligned blocks it did not have, and
   in the end exactly what is free, the trimmed pages and the bitmap, wherever
   the node starts in a word and ends in one.                              *)
THEOREM HandOverIsExact == Spec => []HandOverExact
BY NodeIsSound, HandOverFollows, PTL

(* A search for up to a page that gives up has seen every page: it comes back
   to the first page, where find_next_zero_bit is exact.                   *)
LEMMA FailureFollows == NodeSound /\ [Next]_vars => FailsFull
<1> SUFFICES ASSUME NodeSound, [Next]_vars,
                    phase = "search", phase' = "boot", regions' = regions, req.size <= PageSize
             PROVE  map = Indices
  BY DEF FailsFull
<1>1. /\ node \in Nodes /\ Pages \in Nat \ {0} /\ map \subseteq Indices
  BY Geometry DEF NodeSound, TypeOK
<1>2. SearchEnds \/ Found
  BY DEF Next, Call, Progress, vars, ArmBootmemInit, StartAlloc, TrimMemmap, FreeAllBootmem,
         SkipTaken, ReleaseWord, ReleaseMap
<1>3. ~Found
  <2> SUFFICES ASSUME Found PROVE FALSE
    OBVIOUS
  <2>1. ~Exhausted /\ Taken \in regions' /\ Run \cap map = {}
    BY DEF Found, Taken
  <2>2. PagesOf(Taken) \subseteq Used /\ Taken \in regions
    BY <2>1 DEF Used
  <2> QED
    BY <2>1, <2>2, FoundIsNew
<1>4. /\ Exhausted /\ req.fallback = 0 /\ req.goal = 0
  BY <1>2, <1>3 DEF SearchEnds
<1>5. req.sidx = 0 /\ req.size \in Nat \ {0}
  BY <1>4, Candidate DEF NodeSound, SearchFits
<1>6. First = find_next_zero_bit(Pages, 0) /\ PFN_UP(req.size) = 1
  BY <1>5, Candidate, WordAssumption, UpIs
<1>7. First < 0 \/ First >= Pages
  BY <1>1, <1>4, <1>6, Candidate DEF Exhausted
<1>8. ASSUME NEW i \in Indices, i \notin map PROVE FALSE
  <2>1. i \in Zeros(0)
    BY <1>1, <1>8, WholeNodeSearched DEF Zeros, Bit, Indices
  <2>2. First = Min(Zeros(0)) /\ Min(Zeros(0)) \in Nat /\ Min(Zeros(0)) <= i
    BY <1>1, <1>6, <2>1, ZerosNatural, NextZero, MinOf
  <2> QED
    BY <1>1, <1>7, <2>2 DEF Indices
<1> QED
  BY <1>1, <1>8

(* A request of up to a page fails only when every page is taken, although the
   search starts at a hint and a goal and find_next_zero_bit may skip zeros. *)
THEOREM OnlyFullMapFailsHolds == Spec => OnlyFullMapFails
<1>1. NodeSound /\ [Next]_vars => [FailsFull]_vars
  BY FailureFollows
<1> QED
  BY <1>1, NodeIsSound, PTL DEF Spec, OnlyFullMapFails
=============================================================================
