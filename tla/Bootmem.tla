------------------------------- MODULE Bootmem -------------------------------
(***************************************************************************)
(* The boot memory allocator of mm/bootmem.c for the one node: a bitmap of  *)
(* the low pages that arm_bootmem_init fills from the memblock tables, the  *)
(* first-fit allocator that packs small requests into the tail of the last *)
(* page it handed out, and the hand-over of what is left to the buddy      *)
(* allocator in free_all_bootmem.                                          *)
(*                                                                         *)
(* Every turn of the search loop is a step.  Page indices are relative to   *)
(* node_min_pfn, byte offsets to its address.  No caller passes a limit    *)
(* below the end of the node, so limit is left out.  The set regions is    *)
(* history: what the callers of the allocator own.                         *)
(***************************************************************************)
EXTENDS Integers, Sequences, FiniteSets, FiniteSetsExt

CONSTANTS
  PageSize,       \* PAGE_SIZE, in bytes
  WordBits,       \* BITS_PER_LONG
  WordOrder,      \* ilog2(BITS_PER_LONG)
  Nodes,          \* the nodes that may be booted, see NodeAssumption
  AllocSizes,     \* what the callers ask for
  Aligns,
  Goals,          \* the pages they would like it to start at, 0 for none
  MaxRegions      \* bound: the number of requests granted

Regions == [base : Nat, size : Nat \ {0}]

PFN_UP(x)   == (x + PageSize - 1) \div PageSize
PFN_DOWN(x) == x \div PageSize
PFN_PHYS(x) == x * PageSize

(* The page indices of the regions a loop of arm_bootmem_init reaches: it ends
   low memory at low_pfn, and stops at a region that starts behind it.     *)
Reached(n, table, first(_), last(_)) ==
  LET start(i) == first(table[i].base)
      end(i)   == Min({last(table[i].base + table[i].size), n.low_pfn})
  IN UNION {start(i) - n.min_pfn .. end(i) - n.min_pfn - 1 :
              i \in {k \in 1 .. Len(table) : \A j \in 1 .. k : start(j) <= end(j)}}

FreePages(n)     == Reached(n, n.memory, PFN_UP, PFN_DOWN)
ReservedPages(n) == Reached(n, n.reserved, PFN_DOWN, PFN_UP)

ASSUME WordAssumption ==
  /\ PageSize \in Nat \ {0}
  /\ WordBits \in Nat \ {0}
  /\ WordOrder \in Nat \ {0} /\ WordBits = 2 ^ WordOrder

(* A node is what arm_bootmem_init gets: the first and the last page of low
   memory, the tables of memblock, and the pages, as indices, of the bitmap,
   which memblock_alloc_base has reserved.  min_pfn is the lowest page of any
   bank (find_limits), so that no region of a table starts below it.       *)
ASSUME NodeAssumption ==
  \A n \in Nodes :
    /\ n.min_pfn \in Nat /\ n.low_pfn \in Nat /\ n.min_pfn < n.low_pfn
    /\ n.memory \in Seq(Regions) /\ n.reserved \in Seq(Regions)
    /\ \A i \in 1 .. Len(n.memory) : n.min_pfn * PageSize <= n.memory[i].base
    /\ \A i \in 1 .. Len(n.reserved) : n.min_pfn * PageSize <= n.reserved[i].base
    /\ n.map_pages \subseteq ReservedPages(n)

(* Alignments are powers of two, none larger than a page. *)
ASSUME CallerAssumption ==
  /\ AllocSizes \subseteq Nat \ {0}
  /\ Aligns \subseteq {a \in Nat \ {0} : PageSize % a = 0}
  /\ Goals \subseteq Nat
  /\ MaxRegions \in Nat

VARIABLES
  node,          \* the node that is booted
  map,           \* the pages whose bit in node_bootmem_map is set
  last_end_off,
  hint_idx,
  phase,         \* where the boot sequence is
  req,           \* the locals of the allocation in progress
  next,          \* start, of the loop in free_all_bootmem_core
  regions,       \* the allocated byte ranges
  trimmed,       \* pages of them freed again, by free_unused_memmap
  released,      \* pages given to the buddy allocator
  bug            \* a BUG() was reached

searchVars == <<last_end_off, hint_idx, regions>>
vars == <<node, map, last_end_off, hint_idx, phase, req, next, regions, trimmed, released, bug>>

-----------------------------------------------------------------------------
node_min_pfn == node.min_pfn
node_low_pfn == node.low_pfn
MapPages     == node.map_pages

Pages   == node_low_pfn - node_min_pfn
Indices == 0 .. Pages - 1

ALIGN(x, a) == ((x + a - 1) \div a) * a

align_idx(idx, step)  == ALIGN(node_min_pfn + idx, step) - node_min_pfn
align_off(off, align) == ALIGN(PFN_PHYS(node_min_pfn) + off, align) - PFN_PHYS(node_min_pfn)

Step(align) == Max({align \div PageSize, 1})

(* The bits behind the last page of the last word were set with the map and
   stay set; the rest of the bitmap's last page was never written.         *)
Bit(i) == i \in map \/ i \in Pages .. ALIGN(Pages, WordBits) - 1

(* find_next_zero_bit, -1 if there is none.  A bit found behind the word it
   starts in is counted from the offset's place in that word.              *)
find_next_zero_bit(size, offset) ==
  LET word  == offset \div WordBits
      zeros == {i \in offset .. (word + size \div WordBits + 1) * WordBits - 1 : ~Bit(i)}
      zero  == Min(zeros)
  IN IF zeros = {} THEN -1
     ELSE IF zero \div WordBits = word THEN zero
     ELSE zero + (offset % WordBits)

-----------------------------------------------------------------------------
(* Initialisation *)

NoReq == [size |-> 0, align |-> 1, goal |-> 0, sidx |-> 0, fallback |-> 0]

Init ==
  /\ node \in Nodes
  /\ map          = {}
  /\ last_end_off = 0
  /\ hint_idx     = 0
  /\ phase        = "init"
  /\ req          = NoReq
  /\ next         = 0
  /\ regions      = {}
  /\ trimmed      = {}
  /\ released     = {}
  /\ bug          = FALSE

(* init_bootmem_core marks all pages reserved, then arm_bootmem_init frees the
   memory and reserves the reserved regions.                               *)
ArmBootmemInit ==
  /\ phase = "init"
  /\ map' = (Indices \ FreePages(node)) \cup ReservedPages(node)
  /\ phase' = "boot"
  /\ UNCHANGED <<node, searchVars, req, next, trimmed, released, bug>>

-----------------------------------------------------------------------------
(* Allocating *)

(* Entry of alloc_bootmem_core: where the search starts.  When the last
   allocation ended behind that, it starts there first and comes back.     *)
Search(size, align, goal) ==
  LET step  == Step(align)
      start == ALIGN(IF node_min_pfn < goal /\ goal < node_low_pfn
                     THEN goal ELSE node_min_pfn, step)
      sidx  == start - node_min_pfn
  IN [size |-> size, align |-> align, goal |-> goal,
      sidx |-> IF hint_idx > sidx THEN align_idx(hint_idx, step) ELSE sidx,
      fallback |-> IF hint_idx > sidx THEN sidx + 1 ELSE 0]

StartAlloc(size, align, goal) ==
  /\ phase = "boot"
  /\ Cardinality(regions) < MaxRegions
  /\ req' = Search(size, align, goal)
  /\ phase' = "search"
  /\ UNCHANGED <<node, map, searchVars, next, trimmed, released, bug>>

(* The candidate of this turn of find_block. *)
First == align_idx(find_next_zero_bit(Pages, req.sidx), Step(req.align))
Run   == First .. First + PFN_UP(req.size) - 1

(* As an unsigned number the -1 of find_next_zero_bit lies beyond any node. *)
Exhausted == First < 0 \/ First >= Pages \/ First + PFN_UP(req.size) > Pages

(* A page of the candidate is taken: look behind the first such page. *)
SkipTaken ==
  /\ phase = "search"
  /\ ~Exhausted
  /\ Run \cap map # {}
  /\ LET i    == Min(Run \cap map)
         step == Step(req.align)
         sidx == align_idx(i, step)
     IN req' = [req EXCEPT !.sidx = IF sidx = i THEN sidx + step ELSE sidx]
  /\ UNCHANGED <<node, map, searchVars, phase, next, trimmed, released, bug>>

(* Mutant: the tail of the last page is used although the new run does not
   follow it.                                                              *)
MergesAnywhere == last_end_off % PageSize # 0

(* The run starts right behind a page that is only partly used. *)
Merges == last_end_off % PageSize # 0 /\ PFN_DOWN(last_end_off) + 1 = First

StartOff == IF Merges THEN align_off(last_end_off, req.align) ELSE PFN_PHYS(First)

EndOff == StartOff + req.size

(* The pages __reserve marks: without the first one when it is shared. *)
Reserves ==
  LET merge == IF PFN_DOWN(StartOff) < First THEN 1 ELSE 0
  IN PFN_DOWN(StartOff) + merge .. PFN_UP(EndOff) - 1

Found ==
  /\ phase = "search"
  /\ ~Exhausted
  /\ Run \cap map = {}
  /\ last_end_off' = EndOff
  /\ hint_idx' = PFN_UP(EndOff)
  /\ map' = map \cup Reserves
  /\ bug' = (bug \/ Reserves \cap map # {})
  /\ regions' = regions \cup {[off |-> StartOff, size |-> req.size, align |-> req.align]}
  /\ phase' = "boot"
  /\ req' = NoReq
  /\ UNCHANGED <<node, next, trimmed, released>>

(* Mutant: the search does not come back to where it should have started. *)
FailAtEnd ==
  /\ phase = "search"
  /\ Exhausted
  /\ IF req.goal # 0
     THEN req' = Search(req.size, req.align, 0) /\ UNCHANGED phase
     ELSE phase' = "boot" /\ req' = NoReq
  /\ UNCHANGED <<node, map, searchVars, next, trimmed, released, bug>>

(* Mutant: the fallback is not reset. *)
FallbackAgain ==
  /\ phase = "search"
  /\ Exhausted
  /\ IF req.fallback # 0
     THEN /\ req' = [req EXCEPT !.sidx = align_idx(req.fallback - 1, Step(req.align))]
          /\ UNCHANGED phase
     ELSE IF req.goal # 0
     THEN req' = Search(req.size, req.align, 0) /\ UNCHANGED phase
     ELSE phase' = "boot" /\ req' = NoReq
  /\ UNCHANGED <<node, map, searchVars, next, trimmed, released, bug>>

(* The end of the node is reached: back to where the search should have
   started, then once more without the goal, then the request fails.       *)
SearchEnds ==
  /\ phase = "search"
  /\ Exhausted
  /\ IF req.fallback # 0
     THEN /\ req' = [req EXCEPT !.sidx = align_idx(req.fallback - 1, Step(req.align)),
                                !.fallback = 0]
          /\ UNCHANGED phase
     ELSE IF req.goal # 0
     THEN req' = Search(req.size, req.align, 0) /\ UNCHANGED phase
     ELSE phase' = "boot" /\ req' = NoReq
  /\ UNCHANGED <<node, map, searchVars, next, trimmed, released, bug>>

-----------------------------------------------------------------------------
(* Releasing *)

PagesOf(r) == PFN_DOWN(r.off) .. PFN_UP(r.off + r.size) - 1

(* free_unused_memmap: free_bootmem of whole pages in the middle of a region,
   once the last allocation is done.                                       *)
TrimMemmap(sidx, eidx) ==
  /\ phase \in {"boot", "trim"}
  /\ sidx < eidx
  /\ \E r \in regions :
       /\ r.off <= PFN_PHYS(sidx)
       /\ PFN_PHYS(eidx) <= r.off + r.size
  /\ (sidx .. eidx - 1) \cap trimmed = {}
  /\ hint_idx' = IF hint_idx > sidx THEN sidx ELSE hint_idx
  /\ bug' = (bug \/ ~(sidx .. eidx - 1 \subseteq map))
  /\ map' = map \ (sidx .. eidx - 1)
  /\ trimmed' = trimmed \cup (sidx .. eidx - 1)
  /\ phase' = "trim"
  /\ UNCHANGED <<node, last_end_off, req, next, regions, released>>

FreeAllBootmem ==
  /\ phase \in {"boot", "trim"}
  /\ phase' = "release"
  /\ next' = 0
  /\ UNCHANGED <<node, map, searchVars, req, trimmed, released, bug>>

ClearBits == {i \in next .. next + WordBits - 1 : ~Bit(i)}

(* Mutant: a word of free pages is released as one block wherever it starts. *)
WholeWordUnaligned ==
  Cardinality(ClearBits) = WordBits /\ next + WordBits < Pages

(* The word's pages can be released as one block. *)
WholeWord ==
  /\ node_min_pfn % WordBits = 0
  /\ Cardinality(ClearBits) = WordBits
  /\ next + WordBits < Pages

(* The blocks, as index and order, __free_pages_bootmem gets of this word. *)
WordBlocks ==
  IF WholeWord THEN {<<next, WordOrder>>} ELSE {<<i, 0>> : i \in ClearBits}

ReleaseWord ==
  /\ phase = "release"
  /\ next < Pages
  /\ released' = released \cup UNION {b[1] .. b[1] + 2 ^ b[2] - 1 : b \in WordBlocks}
  /\ next' = next + WordBits
  /\ UNCHANGED <<node, map, searchVars, phase, req, trimmed, bug>>

(* At last the pages of the bitmap itself. *)
ReleaseMap ==
  /\ phase = "release"
  /\ next >= Pages
  /\ released' = released \cup MapPages
  /\ phase' = "done"
  /\ UNCHANGED <<node, map, searchVars, req, next, trimmed, bug>>

-----------------------------------------------------------------------------
Call ==
  \/ ArmBootmemInit
  \/ \E size \in AllocSizes, align \in Aligns, goal \in Goals : StartAlloc(size, align, goal)
  \/ \E sidx, eidx \in 0 .. Pages : TrimMemmap(sidx, eidx)
  \/ FreeAllBootmem

Progress == SkipTaken \/ Found \/ SearchEnds \/ ReleaseWord \/ ReleaseMap

Next == Call \/ Progress

Spec == Init /\ [][Next]_vars

FairSpec == Spec /\ WF_vars(Progress)

-----------------------------------------------------------------------------
(* Properties *)

Bytes(r) == r.off .. r.off + r.size - 1

TypeOK ==
  /\ node \in Nodes
  /\ map \subseteq Indices
  /\ last_end_off \in 0 .. PFN_PHYS(Pages)
  /\ hint_idx \in 0 .. Pages
  /\ phase \in {"init", "boot", "search", "trim", "release", "done"}
  /\ req.sidx \in 0 .. Pages /\ req.fallback \in 0 .. Pages
  /\ next \in Nat
  /\ regions \subseteq [off : Nat, size : Nat \ {0}, align : Aligns]
  /\ trimmed \subseteq Indices
  /\ released \subseteq Indices
  /\ bug \in BOOLEAN

(* Memory that nobody reserved before, and the pages handed out of it. *)
Free == FreePages(node) \ ReservedPages(node)
Used == UNION {PagesOf(r) : r \in regions}

(* No byte is handed out twice, although requests share pages. *)
AllocationsDisjoint ==
  \A r, s \in regions : r # s => Bytes(r) \cap Bytes(s) = {}

(* What is handed out is memory that nobody reserved before, at the alignment
   asked for, and stays marked until its owner gives it back.              *)
AllocationsOwned ==
  \A r \in regions :
    /\ PagesOf(r) \subseteq Free
    /\ PagesOf(r) \ trimmed \subseteq map
    /\ (PFN_PHYS(node_min_pfn) + r.off) % r.align = 0

(* No BUG(): an allocation never finds a page of its run taken when it marks
   it, and no page is freed twice.                                         *)
NoBug == ~bug

(* The buddy allocator gets a block at its alignment, of pages it has not yet
   been given: what its own guard asks of __free_pages_bootmem.            *)
HandOver ==
  phase = "release" /\ next < Pages =>
    \A b \in WordBlocks :
      /\ b[1] .. b[1] + 2 ^ b[2] - 1 \subseteq Indices \ (released \cup MapPages)
      /\ (node_min_pfn + b[1]) % 2 ^ b[2] = 0

(* In the end it has all that was memory, neither reserved nor handed out, the
   trimmed pages, the bitmap, and nothing else.                            *)
ReleaseExact ==
  phase = "done" =>
    released = (Free \ Used) \cup trimmed \cup MapPages

(* Before it is set up, nothing; then a bit is clear exactly for what is free
   and not handed out, or given back.                                      *)
MapExact ==
  IF phase = "init"
  THEN map = {} /\ regions = {} /\ last_end_off = 0 /\ hint_idx = 0
  ELSE map = Indices \ ((Free \ Used) \cup trimmed)

(* The page last_end_off lies in may be shared: the last allocation ends there,
   and nobody else has a byte of that page behind it.                      *)
TailUnused ==
  last_end_off % PageSize # 0 =>
    /\ \E r \in regions : r.off + r.size = last_end_off
    /\ \A r \in regions :
         PFN_DOWN(last_end_off) \in PagesOf(r) => r.off + r.size <= last_end_off

(* Pages are given back after the last allocation, and were handed out. *)
TrimmedLate ==
  /\ trimmed \subseteq Used
  /\ phase \in {"init", "boot", "search"} => trimmed = {}

(* The locals of a search.  A request of up to a page that has neither a place
   to come back to nor a goal searches from the first page.                *)
SearchFits ==
  phase = "search" =>
    /\ req \in [size : Nat \ {0}, align : Aligns, goal : Nat, sidx : 0 .. Pages, fallback : 0 .. Pages]
    /\ req.goal = 0 => req.fallback \in {0, 1}
    /\ req.size <= PageSize /\ req.goal = 0 /\ req.fallback = 0 => req.sidx = 0

(* The release goes from word to word and leaves no clear bit behind. *)
ReleasedSoFar ==
  CASE phase = "release" -> /\ next % WordBits = 0
                            /\ released = {i \in Indices \ map : i < next}
    [] phase = "done"    -> released = (Indices \ map) \cup MapPages
    [] OTHER             -> released = {}

(* While it is in use the allocator gives each byte to one owner at most, and
   only what is memory and free; with what the bitmap, the tail of the last
   page, the search and the release rely on.                               *)
NodeSound ==
  /\ TypeOK
  /\ AllocationsDisjoint
  /\ AllocationsOwned
  /\ NoBug
  /\ MapExact
  /\ TailUnused
  /\ TrimmedLate
  /\ SearchFits
  /\ ReleasedSoFar

(* What the buddy allocator gets of the node, block by block and in the end. *)
HandOverExact == HandOver /\ ReleaseExact

(* A request of up to a page fails only when every page is taken: the search
   comes back for what lies below the hint, and below the goal.            *)
FailsFull ==
  phase = "search" /\ phase' = "boot" /\ regions' = regions /\ req.size <= PageSize
    => map = Indices
OnlyFullMapFails == [][FailsFull]_vars

(* The search ends, and so does the release. *)
CallsReturn == phase \in {"search", "release"} ~> phase \in {"boot", "done"}

(* The search is told the first zero bit, wherever in a word it asks from. *)
FindsFirstZero ==
  phase = "search" =>
    LET zeros == {i \in req.sidx .. Pages - 1 : i \notin map}
    IN zeros # {} => find_next_zero_bit(Pages, req.sidx) = Min(zeros)

=============================================================================
