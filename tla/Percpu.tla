-------------------------------- MODULE Percpu --------------------------------
(***************************************************************************)
(* The percpu allocator of mm/percpu.c: areas carved out of the first      *)
(* chunk, whose map lists the blocks in order, a free one as its size and  *)
(* an allocated one as minus its size.  Sizes are in bytes.                *)
(*                                                                         *)
(* The build has one CPU, no reserved chunk and no static area.  A chunk   *)
(* added later lies in the vmalloc area with no page behind it: clearing   *)
(* the area taken from it is a stray write, which ends the program.        *)
(* kmalloc and vmalloc are external and may refuse.                        *)
(***************************************************************************)
EXTENDS Integers, Sequences, FiniteSets, SequencesExt, FiniteSetsExt

CONSTANTS
  UnitSize,     \* pcpu_unit_size
  IntSize,      \* sizeof(int)
  BaseShift,    \* PCPU_SLOT_BASE_SHIFT
  EarlySlots,   \* PERCPU_DYNAMIC_EARLY_SLOTS
  DflMapAlloc,  \* PCPU_DFL_MAP_ALLOC
  Types         \* the types callers ask an area for: size, alignment

ASSUME PercpuAssumption ==
  /\ UnitSize \in Nat \ {0} /\ IntSize \in 1 .. UnitSize /\ BaseShift \in Nat
  /\ EarlySlots \in Nat /\ EarlySlots >= 4 /\ DflMapAlloc \in Nat \ {0}
  /\ Types \subseteq [size : IntSize .. UnitSize, align : 1 .. UnitSize]

VARIABLES
  map,          \* chunk->map up to map_used
  map_alloc,    \* chunk->map_alloc
  free_size,    \* chunk->free_size
  contig_hint,  \* chunk->contig_hint
  slot,         \* the pcpu_slot list the chunk is on
  late,         \* whether percpu_init_late has run
  held,         \* the areas callers hold
  call,         \* the allocation in progress
  pcpu          \* where it stands

chunkVars == <<map, free_size, contig_hint, slot>>
pcpuVars == <<map, map_alloc, free_size, contig_hint, slot, late, held, call, pcpu>>

NoCall == [size |-> 0, align |-> 1]

-----------------------------------------------------------------------------
(* Blocks of a map *)

Largest(S) == Max(S \cup {0})
BlockSize(x) == IF x < 0 THEN -x ELSE x

(* The offset of block i. *)
Offset(m, i) == FoldLeft(LAMBDA off, x : off + BlockSize(x), 0, SubSeq(m, 1, i - 1))

FreeBlocks(m) == {i \in DOMAIN m : m[i] > 0}

HeadOf(m, i, align) == (-Offset(m, i)) % align

(* The blocks that hold size bytes once the offset is aligned. *)
Fitting(m, size, align) == {i \in DOMAIN m : m[i] >= 0 /\ m[i] >= HeadOf(m, i, align) + size}

-----------------------------------------------------------------------------
(* The slot lists *)

Fls(x) == CHOOSE k \in 0 .. x : x < 2 ^ k /\ (k = 0 \/ 2 ^ (k - 1) <= x)

__pcpu_size_to_slot(size) == Max({Fls(size) - BaseShift + 2, 1})
pcpu_nr_slots == __pcpu_size_to_slot(UnitSize) + 2

pcpu_size_to_slot(size) ==
  IF size = UnitSize THEN pcpu_nr_slots - 1 ELSE __pcpu_size_to_slot(size)

pcpu_chunk_slot(free, hint) ==
  IF free < IntSize \/ hint < IntSize THEN 0 ELSE pcpu_size_to_slot(free)

-----------------------------------------------------------------------------
(* pcpu_alloc_area *)

(* A head that is small, or behind a free block, goes to the block before. *)
Absorbed(m, i, head) ==
  IF head > 0 /\ (head < IntSize \/ m[i - 1] > 0)
  THEN [m EXCEPT ![i - 1] = IF @ > 0 THEN @ + head ELSE @ - head, ![i] = @ - head]
  ELSE m

(* The area in block i of chunk c: the new map, hint and free size, and the
   offset handed out.                                                      *)
AreaIn(m, free, hint, size, align, i) ==
  LET head  == HeadOf(m, i, align)
      m1    == Absorbed(m, i, head)
      h     == IF m1 # m THEN 0 ELSE head
      rest  == m1[i] - h - size
      tail  == IF rest < IntSize THEN 0 ELSE rest
      taken == m1[i] - h - tail
      lost  == IF m1 # m /\ m[i - 1] <= 0 THEN head ELSE 0
      seen  == Largest({m[j] : j \in 1 .. i - 1} \cup {h, tail})
  IN [map  |-> SubSeq(m1, 1, i - 1) \o (IF h > 0 THEN <<h>> ELSE <<>>) \o <<-taken>>
               \o (IF tail > 0 THEN <<tail>> ELSE <<>>) \o SubSeq(m1, i + 1, Len(m1)),
      free |-> free - lost - taken,
      hint |-> IF i = Len(m) THEN seen ELSE Max({hint, seen}),
      off  |-> Offset(m, i) + head]

(* The first block that fits. *)
pcpu_alloc_area(m, free, hint, size, align) ==
  AreaIn(m, free, hint, size, align, Min(Fitting(m, size, align)))

-----------------------------------------------------------------------------
(* pcpu_free_area *)

(* Mutant: the merged entry is not taken out of the map. *)
MergePrevKeepsEntry(m, i) ==
  IF i > 1 /\ m[i - 1] > 0
  THEN [map |-> [m EXCEPT ![i - 1] = @ + m[i]], at |-> i - 1]
  ELSE [map |-> m, at |-> i]

MergePrev(m, i) ==
  IF i > 1 /\ m[i - 1] >= 0
  THEN [map |-> RemoveAt([m EXCEPT ![i - 1] = @ + m[i]], i), at |-> i - 1]
  ELSE [map |-> m, at |-> i]

(* The entries behind a block merged with the next are moved down from the
   fourth entry of the map (&chunk->map[1 + 2]), whatever the block is.     *)
MergeNext(m, i) ==
  IF i < Len(m) /\ m[i + 1] >= 0
  THEN LET behind == Len(m) - 1 - i
       IN SubSeq([m EXCEPT ![i] = @ + m[i + 1]], 1, i) \o SubSeq(m, 4, 3 + behind)
  ELSE m

(* The first block at the offset: for offset zero the static area, which
   is empty.                                                               *)
BlockAt(m, off) == Min({i \in DOMAIN m : Offset(m, i) = off})

(* Mutant: the hint is left alone. *)
FreeKeepsHint(m, free, hint, off) ==
  LET i == BlockAt(m, off)
      p == MergePrev([m EXCEPT ![i] = -@], i)
  IN [map |-> MergeNext(p.map, p.at), free |-> free - m[i], hint |-> hint]

pcpu_free_area(m, free, hint, off) ==
  LET i == BlockAt(m, off)
      p == MergePrev([m EXCEPT ![i] = -@], i)
      n == MergeNext(p.map, p.at)
  IN [map |-> n, free |-> free - m[i], hint |-> Max({n[p.at], hint})]

-----------------------------------------------------------------------------
(* setup_per_cpu_areas, pcpu_setup_first_chunk: an empty static area and
   one free block.                                                         *)
PercpuInit ==
  /\ map = <<0, UnitSize>>
  /\ map_alloc = EarlySlots
  /\ free_size = UnitSize
  /\ contig_hint = UnitSize
  /\ slot = pcpu_nr_slots - 1
  /\ late = FALSE
  /\ held = {}
  /\ call = NoCall
  /\ pcpu = "idle"

pcpu_need_to_extend ==
  IF map_alloc >= Len(map) + 2 THEN 0
  ELSE Min({n \in {DflMapAlloc * 2 ^ k : k \in 0 .. Len(map) + 2} : n >= Len(map) + 2})

(* pcpu_alloc, past the check of size and alignment. *)
AllocPercpu(type) ==
  /\ pcpu = "idle"
  /\ call' = type
  /\ pcpu' = "search"
  /\ UNCHANGED <<map, map_alloc, free_size, contig_hint, slot, late, held>>

(* The walk over the slots meets the chunk. *)
OnWalk == slot >= pcpu_size_to_slot(call.size) /\ call.size <= contig_hint

Finish == pcpu' = "idle" /\ call' = NoCall

(* The map is too short and cannot be replaced. *)
NoLongerMap ==
  /\ pcpu = "search" /\ OnWalk /\ pcpu_need_to_extend # 0
  /\ Finish
  /\ UNCHANGED <<map, map_alloc, free_size, contig_hint, slot, late, held>>

(* pcpu_extend_area_map has no return statement where it succeeds: the call
   starts over or fails.                                                   *)
ExtendMap ==
  /\ pcpu = "search" /\ OnWalk /\ pcpu_need_to_extend # 0 /\ late
  /\ map_alloc' = pcpu_need_to_extend
  /\ Finish \/ UNCHANGED <<pcpu, call>>
  /\ UNCHANGED <<map, free_size, contig_hint, slot, late, held>>

TakeArea ==
  /\ pcpu = "search" /\ OnWalk /\ pcpu_need_to_extend = 0
  /\ Fitting(map, call.size, call.align) # {}
  /\ LET a == pcpu_alloc_area(map, free_size, contig_hint, call.size, call.align)
     IN /\ map' = a.map /\ free_size' = a.free /\ contig_hint' = a.hint
        /\ slot' = pcpu_chunk_slot(a.free, a.hint)
        /\ held' = held \cup {[off |-> a.off, size |-> call.size, align |-> call.align]}
  /\ Finish
  /\ UNCHANGED <<map_alloc, late>>

(* The scan finds no block and corrects the hint; there is no other chunk. *)
ScanFails ==
  /\ pcpu = "search" /\ OnWalk /\ pcpu_need_to_extend = 0
  /\ Fitting(map, call.size, call.align) = {}
  /\ contig_hint' = Largest({map[i] : i \in FreeBlocks(map)})
  /\ slot' = pcpu_chunk_slot(free_size, contig_hint')
  /\ pcpu' = "create"
  /\ UNCHANGED <<map, map_alloc, free_size, late, held, call>>

NoChunk ==
  /\ pcpu = "search" /\ ~OnWalk
  /\ pcpu' = "create"
  /\ UNCHANGED <<map, map_alloc, free_size, contig_hint, slot, late, held, call>>

(* pcpu_create_chunk fails, for want of memory or of address space. *)
NoNewChunk ==
  /\ pcpu = "create"
  /\ Finish
  /\ UNCHANGED <<map, map_alloc, free_size, contig_hint, slot, late, held>>

(* The new chunk serves the call, and its area is cleared. *)
NewChunk ==
  /\ pcpu = "create" /\ late
  /\ pcpu' = "fault"
  /\ UNCHANGED <<map, map_alloc, free_size, contig_hint, slot, late, held, call>>

MergedWell(m, i) == MergeNext(m, i) = m \/ SubSeq(m, 4, Len(m) + 2 - i) = SubSeq(m, i + 2, Len(m))

(* free_percpu.  Once entries are lost or doubled the offsets of the blocks
   behind are wrong and the model ends.                                    *)
FreePercpu(a) ==
  /\ pcpu = "idle"
  /\ held' = held \ {a}
  /\ LET i == BlockAt(map, a.off)
         p == MergePrev([map EXCEPT ![i] = -@], i)
         f == pcpu_free_area(map, free_size, contig_hint, a.off)
     IN /\ map' = f.map /\ free_size' = f.free /\ contig_hint' = f.hint
        /\ slot' = pcpu_chunk_slot(f.free, f.hint)
        /\ pcpu' = IF MergedWell(p.map, p.at) THEN "idle" ELSE "corrupt"
  /\ UNCHANGED <<map_alloc, late, call>>

(* percpu_init_late copies the map out of the initial data; a refused
   allocation is reported and then written to.                             *)
percpu_init_late ==
  /\ pcpu = "idle" /\ ~late
  /\ late' = TRUE
  /\ pcpu' \in {"idle", "fault"}
  /\ UNCHANGED <<map, map_alloc, free_size, contig_hint, slot, held, call>>

PercpuNext ==
  \/ \E type \in Types : AllocPercpu(type)
  \/ NoLongerMap \/ ExtendMap \/ TakeArea \/ ScanFails \/ NoChunk
  \/ NoNewChunk \/ NewChunk
  \/ \E a \in held : FreePercpu(a)
  \/ percpu_init_late

-----------------------------------------------------------------------------
(* What the allocator keeps true *)

(* While no merge has gone wrong, an allocated block starts where an area
   handed out starts and covers it, no two free blocks touch, and the free
   size is the sum of the free blocks.  The one block without an owner is
   the first: freeing it marks the empty static area before it and leaves
   the block taken for good.  (pcpu_alloc_area, pcpu_split_block,
   pcpu_free_area)                                                         *)
BlocksOwned ==
  pcpu # "corrupt" =>
    /\ \A a \in held : \E i \in DOMAIN map :
         Offset(map, i) = a.off /\ map[i] <= -a.size /\ a.off % a.align = 0
    /\ \A i \in DOMAIN map : map[i] < 0 =>
         (\E a \in held : a.off = Offset(map, i)) \/ Offset(map, i) = 0
    /\ \A i \in FreeBlocks(map) : i + 1 \notin FreeBlocks(map)
    /\ Offset(map, Len(map) + 1) = UnitSize
    /\ free_size = MapThenSumSet(LAMBDA i : map[i], FreeBlocks(map))
    /\ Len(map) <= map_alloc

(* A new chunk is asked for only when no block of the chunk fits: the hint
   is never below the largest free block, and the chunk is never on a slot
   list the walk leaves out.  (contig_hint, pcpu_chunk_relocate)           *)
GrowsOnlyWhenFull ==
  [][pcpu' = "create" => Fitting(map, call.size, call.align) = {}]_pcpuVars

PercpuSpec == PercpuInit /\ [][PercpuNext]_pcpuVars
===============================================================================
