------------------------------ MODULE Memblock ------------------------------
(***************************************************************************)
(* The early memory manager of mm/memblock.c: two tables of regions, memory *)
(* and reserved, kept sorted and coalesced, and the top-down allocator that *)
(* searches memory for an aligned range that is not reserved.              *)
(*                                                                         *)
(* A table is the sequence of the first cnt entries of its array.  Nothing *)
(* sets memblock_can_resize, so memblock_double_array fails at once.       *)
(* Addresses stay below 2^32: no base + size wraps.                        *)
(***************************************************************************)
EXTENDS Integers, Sequences, FiniteSets, SequencesExt

CONSTANTS
  Limit,        \* addresses are 0 .. Limit - 1
  PageSize,     \* PAGE_SIZE, the lowest address an allocation may return
  Machines,     \* the machines that may be booted, see MachineAssumption
  PgDir,        \* swapper_pg_dir, as a region
  AllocSizes,   \* the sizes callers of memblock_alloc ask for
  Aligns,       \* and the alignments
  Tops,         \* and the upper limits of memblock_alloc_base
  LowmemLimit   \* where sanity_check_meminfo ends low memory

Region(base, size) == [base |-> base, size |-> size]
Regions == [base : 0 .. Limit - 1, size : 1 .. Limit]

End(r) == r.base + r.size

memblock_addrs_adjacent(r, s) ==
  IF s.base = End(r) THEN 1 ELSE IF r.base = End(s) THEN -1 ELSE 0

memblock_addrs_overlap(r, s) == r.base < End(s) /\ s.base < End(r)

ASSUME LimitAssumption ==
  /\ Limit \in Nat \ {0}
  /\ PageSize \in Nat \ {0}

(* A machine has INIT_MEMBLOCK_REGIONS, the max of both tables, and the banks of
   meminfo.  arm_add_memory rounds a bank to pages.  Banks do not overlap; one
   that is listed twice touches none before it, so that its region is still
   the one that was added.                                                 *)
ASSUME MachineAssumption ==
  \A m \in Machines :
    /\ m.max_regions \in Nat /\ m.max_regions > 2
    /\ m.banks \in Seq({b \in Regions : End(b) <= Limit /\ b.base % PageSize = 0})
    /\ \A j \in 1 .. Len(m.banks) : \A i \in 1 .. j - 1 :
         \/ ~memblock_addrs_overlap(m.banks[i], m.banks[j])
         \/ /\ m.banks[i] = m.banks[j]
            /\ \A k \in 1 .. j - 1 : memblock_addrs_adjacent(m.banks[k], m.banks[j]) = 0

ASSUME PgDirAssumption == PgDir \in Regions /\ End(PgDir) <= Limit

ASSUME CallerAssumption ==
  /\ AllocSizes \subseteq Nat \ {0}
  /\ Aligns \subseteq (Nat \ {0}) \cap {2^k : k \in 0 .. 30}
  /\ Tops \subseteq 1 .. Limit
  /\ LowmemLimit \in 1 .. Limit

VARIABLES
  machine,    \* the machine that is booted
  memory,     \* memblock.memory
  reserved,   \* memblock.reserved
  current_limit, \* memblock.current_limit, Limit for MEMBLOCK_ALLOC_ANYWHERE
  booted,     \* how many steps of the boot sequence are done
  last        \* what the last call did, as its caller sees it

vars == <<machine, memory, reserved, current_limit, booted, last>>

MaxRegions == machine.max_regions
Banks      == machine.banks

MEMBLOCK_ERROR == 0
MEMBLOCK_ALLOC_ACCESSIBLE == 0

(* The addresses a table covers. *)
Covered(table) == UNION {table[i].base .. End(table[i]) - 1 : i \in 1 .. Len(table)}

Called(op, base, size) == [op |-> op, base |-> base, size |-> size]
Failed == Called("failed", 0, 0)

-----------------------------------------------------------------------------
(* Tables *)

(* The dummy region of memblock_init, coalesced away by the first add. *)
EmptyTable == <<Region(0, 0)>>

(* Index of the first region that overlaps r, 0 (the code's -1) if none does. *)
memblock_overlaps_region(table, r) ==
  SelectInSeq(table, LAMBDA s : memblock_addrs_overlap(s, r))

(* memblock_coalesce_regions for the region i and its successor. *)
CoalesceNext(table, i) ==
  RemoveAt(ReplaceAt(table, i, Region(table[i].base, table[i].size + table[i + 1].size)), i + 1)

(* Mutant: the region that grows downwards keeps its base. *)
GrowUpOnly(table, i, r) ==
  ReplaceAt(table, i, Region(table[i].base, table[i].size + r.size))

(* What memblock_add_region does where r touches the region i: the region
   grows, and swallows its successor when that plugged the hole.           *)
Grow(table, i, r) ==
  LET first == IF memblock_addrs_adjacent(r, table[i]) > 0 THEN r.base ELSE table[i].base
      grown == ReplaceAt(table, i, Region(first, table[i].size + r.size))
  IN IF i < Len(table) /\ memblock_addrs_adjacent(grown[i], grown[i + 1]) # 0
     THEN CoalesceNext(grown, i)
     ELSE grown

(* The sorted insertion: behind the last region that does not start above r. *)
Insert(table, r) ==
  InsertAt(table, 1 + SelectLastInSeq(table, LAMBDA s : s.base <= r.base), r)

(* Mutant: a full table keeps its last region, the marker overwritten. *)
InsertIntoMarker(table, r) ==
  IF Len(table) >= MaxRegions
  THEN [table |-> table, ok |-> FALSE]
  ELSE [table |-> Insert(table, r), ok |-> TRUE]

(* Inserting, with its two ways to run out of room.  When the table is full
   afterwards memblock_double_array fails, and the addition is taken back by
   cnt--, which drops the last entry of the table.                         *)
InsertOrFail(table, r) ==
  IF Len(table) >= MaxRegions
  THEN [table |-> table, ok |-> FALSE]
  ELSE IF Len(table) + 1 = MaxRegions
       THEN [table |-> SubSeq(Insert(table, r), 1, Len(table)), ok |-> FALSE]
       ELSE [table |-> Insert(table, r), ok |-> TRUE]

memblock_add_region(table, r) ==
  LET i == SelectInSeq(table, LAMBDA s : s = r \/ memblock_addrs_adjacent(r, s) # 0)
  IN IF Len(table) = 1 /\ table[1].size = 0
     THEN [table |-> <<r>>, ok |-> TRUE]
     ELSE IF i = 0
          THEN InsertOrFail(table, r)
          ELSE [table |-> IF table[i] = r THEN table ELSE Grow(table, i, r), ok |-> TRUE]

(* __memblock_remove: the whole region, its front, its end or its middle, in
   which case what lies behind the hole is added again.                    *)
__memblock_remove(table, r) ==
  LET i == SelectInSeq(table, LAMBDA s : s.base <= r.base /\ End(r) <= End(s))
      s == table[i]
  IN IF i = 0
     THEN [table |-> table, ok |-> FALSE]
     ELSE IF s = r
     THEN [table |-> RemoveAt(table, i), ok |-> TRUE]
     ELSE IF s.base = r.base
     THEN [table |-> ReplaceAt(table, i, Region(End(r), s.size - r.size)), ok |-> TRUE]
     ELSE IF End(s) = End(r)
     THEN [table |-> ReplaceAt(table, i, Region(s.base, s.size - r.size)), ok |-> TRUE]
     ELSE memblock_add_region(ReplaceAt(table, i, Region(s.base, r.base - s.base)),
                              Region(End(r), End(s) - End(r)))

-----------------------------------------------------------------------------
(* Searching *)

align_up(a, align)   == ((a + align - 1) \div align) * align
align_down(a, align) == (a \div align) * align

(* memblock_find_region: from the top of [start, end) down, each time to just
   below the lowest reserved region in the way.                            *)
memblock_find_region(start, end, size, align) ==
  LET low == IF start = 0 THEN PageSize ELSE start
      at[base \in 0 .. Limit] ==
        LET j == memblock_overlaps_region(reserved, Region(base, size))
        IN IF base < low THEN MEMBLOCK_ERROR
           ELSE IF j = 0 THEN base
           ELSE IF reserved[j].base < size THEN MEMBLOCK_ERROR
           ELSE at[align_down(reserved[j].base - size, align)]
  IN IF end < size THEN MEMBLOCK_ERROR ELSE at[align_down(end - size, align)]

(* memblock_find_base with start 0: the last region of memory that has room.
   MEMBLOCK_ALLOC_ACCESSIBLE stands for current_limit.                     *)
memblock_find_base(size, align, max) ==
  LET top == IF max = MEMBLOCK_ALLOC_ACCESSIBLE THEN current_limit ELSE max
      found(i) ==
        LET end == Min({End(memory[i]), top})
        IN IF memory[i].size < size \/ memory[i].base >= end
           THEN MEMBLOCK_ERROR
           ELSE memblock_find_region(memory[i].base, end, size, align)
      hits == {i \in 1 .. Len(memory) : found(i) # MEMBLOCK_ERROR}
  IN IF hits = {} THEN MEMBLOCK_ERROR ELSE found(Max(hits))

(* Mutant: the first address behind a region still belongs to it. *)
BeyondEnd(addr, r) == addr > End(r)

IsBehind(addr, r) == addr >= End(r)

(* memblock_search: the entry of the table that holds addr, -1 if none. *)
memblock_search(table, addr) ==
  LET in[part \in (0 .. Len(table)) \X (0 .. Len(table))] ==
        LET left  == part[1]
            right == part[2]
            mid   == (left + right) \div 2
            r     == table[mid + 1]
            go(l, h) == IF l < h THEN in[<<l, h>>] ELSE -1
        IN IF addr < r.base THEN go(left, mid)
           ELSE IF IsBehind(addr, r) THEN go(mid + 1, right)
           ELSE mid
  IN in[<<0, Len(table)>>]

memblock_is_memory(addr) == memblock_search(memory, addr) # -1

-----------------------------------------------------------------------------
(* memblock_init *)
Init ==
  /\ machine \in Machines
  /\ memory   = EmptyTable
  /\ reserved = EmptyTable
  /\ current_limit = Limit
  /\ booted   = 0
  /\ last     = Called("none", 0, 0)

(* memblock_add of the next bank, in the order of arm_memblock_init. *)
AddBank ==
  /\ booted < Len(Banks)
  /\ LET r   == Banks[booted + 1]
         new == memblock_add_region(memory, r)
     IN /\ memory' = new.table
        /\ last'   = IF new.ok THEN Called("add", r.base, r.size) ELSE Failed
  /\ booted' = booted + 1
  /\ UNCHANGED <<machine, reserved, current_limit>>

(* memblock_reserve of the kernel's page directory. *)
ReservePgDir ==
  /\ booted = Len(Banks)
  /\ LET new == memblock_add_region(reserved, PgDir)
     IN /\ reserved' = new.table
        /\ last'     = IF new.ok THEN Called("reserve", PgDir.base, PgDir.size) ELSE Failed
  /\ booted' = booted + 1
  /\ UNCHANGED <<machine, memory, current_limit>>

(* memblock_set_current_limit, by sanity_check_meminfo. *)
SetCurrentLimit ==
  /\ booted = Len(Banks) + 1
  /\ current_limit' = LowmemLimit
  /\ booted' = booted + 1
  /\ UNCHANGED <<machine, memory, reserved, last>>

Maxima == Tops \cup {MEMBLOCK_ALLOC_ACCESSIBLE}

Booted == booted > Len(Banks) + 1

(* __memblock_alloc_base, below current_limit for early_alloc, below the end
   of low memory for arm_bootmem_init.                                     *)
Alloc(size, align, max) ==
  /\ Booted
  /\ LET up    == align_up(size, align)
         found == memblock_find_base(up, align, max)
         new   == memblock_add_region(reserved, Region(found, up))
     IN IF found = MEMBLOCK_ERROR
        THEN UNCHANGED reserved /\ last' = Failed
        ELSE /\ reserved' = new.table
             /\ last'     = IF new.ok THEN Called("alloc", found, up) ELSE Failed
  /\ UNCHANGED <<machine, memory, current_limit, booted>>

(* memblock_free of part of what was allocated, the page directory staying; a
   table is never emptied.                                                 *)
Free(r) ==
  /\ Booted
  /\ r.base .. End(r) - 1 # Covered(reserved)
  /\ r.base .. End(r) - 1 \subseteq Covered(reserved) \ (PgDir.base .. End(PgDir) - 1)
  /\ LET new == __memblock_remove(reserved, r)
     IN /\ reserved' = new.table
        /\ last'     = IF new.ok THEN Called("free", r.base, r.size) ELSE Failed
  /\ UNCHANGED <<machine, memory, current_limit, booted>>

Next ==
  \/ AddBank
  \/ ReservePgDir
  \/ SetCurrentLimit
  \/ \E size \in AllocSizes, align \in Aligns, max \in Maxima : Alloc(size, align, max)
  \/ \E r \in Regions : Free(r)

Spec == Init /\ [][Next]_vars

-----------------------------------------------------------------------------
(* Properties *)

TypeOK ==
  /\ machine \in Machines
  /\ memory \in Seq({r \in [base : 0 .. Limit, size : 0 .. Limit] : End(r) <= Limit})
  /\ reserved \in Seq({r \in [base : 0 .. Limit, size : 0 .. Limit] : End(r) <= Limit})
  /\ current_limit \in {Limit, LowmemLimit}
  /\ booted \in 0 .. Len(Banks) + 2
  /\ last \in [op : {"none", "add", "reserve", "alloc", "free", "failed"},
               base : 0 .. Limit, size : 0 .. Limit]

(* Both tables stay sorted with a gap between any two regions, whatever was
   added, split, grown or taken back: what the binary search, the insertion
   and the one-sided coalescing rely on.                                   *)
Ordered(table) ==
  \/ table = EmptyTable
  \/ /\ Len(table) > 0
     /\ \A i \in 1 .. Len(table) : table[i].size > 0
     /\ \A j \in 1 .. Len(table) : \A i \in 1 .. j - 1 : End(table[i]) < table[j].base
TablesOrdered == Ordered(memory) /\ Ordered(reserved)

(* The marker entry behind a table is never written: a table that is full is
   cut back before the call returns.                                       *)
RoomLeft == Len(memory) < MaxRegions /\ Len(reserved) < MaxRegions

(* The binary search under pfn_valid agrees with the table for every address,
   below, between and above the regions, and however fragmented the table. *)
SearchExact ==
  \A addr \in 0 .. Limit - 1 :
    /\ memblock_is_memory(addr) <=> addr \in Covered(memory)
    /\ memblock_search(reserved, addr) # -1 <=> addr \in Covered(reserved)

(* The places where an allocation could go. *)
Fits(size, align, top) ==
  {b \in PageSize .. Limit - 1 :
     /\ b % align = 0
     /\ b + size <= top
     /\ b .. b + size - 1 \subseteq Covered(memory) \ Covered(reserved)}

(* memblock_find_base returns the highest place there is, and fails only when
   there is none, although it skips from one reserved region to the next.  *)
FindsHighest ==
  Booted =>
    \A size \in AllocSizes, align \in Aligns, max \in Maxima :
      LET up   == align_up(size, align)
          fits == Fits(up, align, IF max = MEMBLOCK_ALLOC_ACCESSIBLE THEN current_limit ELSE max)
      IN memblock_find_base(up, align, max) = IF fits = {} THEN MEMBLOCK_ERROR ELSE Max(fits)

(* Both ways to look into the tables: for an address, and for a place. *)
SearchesRight == SearchExact /\ FindsHighest

(* Whatever is added and taken back, the tables stay tables with room left. *)
TablesSound == TypeOK /\ TablesOrdered /\ RoomLeft

(* The two tables implement two sets of addresses, and calls that either do
   what was asked or fail and change nothing, as long as neither table is full
   but for the entry an addition needs: then a call that fails may take back
   too much (FailureUndone).                                               *)
Store == INSTANCE RangeStore WITH
  memory   <- Covered(memory),
  reserved <- Covered(reserved)

NearlyFull == Len(memory) + 1 >= MaxRegions \/ Len(reserved) + 1 >= MaxRegions

StoreWhileRoom ==
  Store!Init /\ [][NearlyFull \/ Store!Next]_<<Covered(memory), Covered(reserved), last>>

(* An addition that fails takes back what it did and nothing else. *)
FailureUndone == [][last'.op = "failed" => Covered(reserved)' = Covered(reserved)]_vars

=============================================================================
