-------------------------------- MODULE Boot --------------------------------
(***************************************************************************)
(* From the tags of the boot loader to the buddy allocator: the banks of   *)
(* memory (arch/arm/kernel/setup.c), the page tables (arch/arm/mm/mmu.c),  *)
(* the zones (arch/arm/mm/init.c, mm/page_alloc.c), the resource tree      *)
(* (kernel/resource.c), in the order of start_kernel (init/main.c).        *)
(*                                                                         *)
(* Addresses are page numbers, those of tags and of "mem=" excepted.  The  *)
(* two allocators the boot goes through, memblock and bootmem, are the     *)
(* sets of pages they stand for: Memblock shows that the first returns the *)
(* highest place, and Bootmem what the second hands over.  A string is     *)
(* what its parser makes of it.                                            *)
(***************************************************************************)
EXTENDS Integers, Sequences, FiniteSets, FiniteSetsExt, SequencesExt, Functions

CONSTANTS
  TagPage,        \* PAGE_SIZE, in the unit of tags and of "mem="
  NR_BANKS,
  SectionPages,   \* SECTION_SIZE; PGDIR_SIZE is twice that
  BlockPages,     \* MAX_ORDER_NR_PAGES
  PHYS_OFFSET,    \* the physical page that PAGE_OFFSET maps
  PAGE_OFFSET,
  TASK_SIZE,
  VMALLOC_END,
  Vectors,        \* the virtual page 0xffff0000
  VirtualPages,   \* the virtual pages, 2^20
  SZ_16M, SZ_32M, SZ_128M,
  SwapperPages,   \* the physical pages of swapper_pg_dir
  PageStructs,    \* struct pages in a page; bootmem's requests are counted in these
  MapPageBits,    \* pages whose bits a page of bootmem's bitmap holds
  PageblockBits,  \* NR_PAGEBLOCK_BITS
  WordBits,       \* bits in what a usemap grows by
  PagesPerWaitqueue, WaitMin, WaitMax,   \* the sizes of a wait table
  PcpuPages,      \* the first percpu unit
  BatchShare,     \* the 1024 of zone_batchsize
  BatchMax,       \* 512K of pages
  PageTypes,      \* MIGRATE_TYPES
  Boards          \* what the machines, their boot loaders and command lines say

PGDIR_SIZE == 2 * SectionPages

ASSUME GeometryAssumption ==
  /\ TagPage \in Nat \ {0} /\ NR_BANKS \in Nat \ {0}
  /\ SectionPages \in Nat \ {0} /\ BlockPages \in Nat \ {0}
  /\ PHYS_OFFSET % PGDIR_SIZE = 0 /\ PAGE_OFFSET % PGDIR_SIZE = 0
  /\ VMALLOC_END % PGDIR_SIZE = 0 /\ VirtualPages % PGDIR_SIZE = 0
  /\ TASK_SIZE <= PAGE_OFFSET - PGDIR_SIZE
  /\ VMALLOC_END < Vectors /\ Vectors < VirtualPages
  /\ SwapperPages \subseteq Nat /\ SwapperPages # {}

ASSUME BoardAssumption ==
  \A b \in Boards :
    /\ b.fixup \in Seq([start : Nat, size : Nat]) /\ Len(b.fixup) <= NR_BANKS
    /\ b.tags \in Seq([tag : STRING, start : Nat, size : Nat])
    /\ b.kernel \in [code : Seq(Nat), data : Seq(Nat)]

VARIABLES
  bootAt,       \* where start_kernel is
  board,        \* the machine it runs on
  todo,         \* the tags, then the parameters, still to be parsed
  usermem,      \* a "mem=" was seen
  meminfo,
  vmalloc_min,
  memTable,     \* memblock.memory, as the set of its pages
  resTable,     \* memblock.reserved
  pmd,          \* swapper_pg_dir, by section
  pte,          \* the second-level tables, by the page they translate
  early,        \* who owns the pages of early_alloc
  limits,       \* min, max_low and max_high
  bootFree,     \* the pages whose bit in the bootmem bitmap is clear
  lastEnd,      \* where bootmem's last allocation ends: the page behind it, and
                \* what it leaves of the page in front of that
  nodeZones,    \* the zones of the node
  nodeMap,      \* where the node's struct pages are
  zonelist,
  iomem,        \* the children of iomem_resource, and theirs
  given,        \* the pages the buddy allocator has been given
  again,        \* and those it has been given twice
  totals        \* the page counts of mem_init, and the pagesets

bankVars == <<board, todo, usermem, meminfo, vmalloc_min>>
tableVars == <<memTable, resTable, pmd, pte, early>>
bootmemVars == <<bootFree, lastEnd>>
zoneVars == <<limits, nodeZones, nodeMap, zonelist>>
givenVars == <<given, again, totals>>
bootVars == <<bootAt, bankVars, tableVars, bootmemVars, zoneVars, iomem, givenVars>>

ZONE_NORMAL  == 0
ZONE_HIGHMEM == 1
ZONE_MOVABLE == 2
NodeZones == {ZONE_NORMAL, ZONE_HIGHMEM, ZONE_MOVABLE}

NoFrame == -1
NoBank == [start |-> 0, size |-> 0, highmem |-> FALSE]
NoEntry == [kind |-> "none", at |-> 0]

virt(page) == (page - PHYS_OFFSET + PAGE_OFFSET) % VirtualPages
phys(page) == page - PAGE_OFFSET + PHYS_OFFSET

AlignTo(x, a) == ((x + a - 1) \div a) * a
FloorTo(x, a) == (x \div a) * a

(* The maximal runs of a set of pages, from below: the regions of a table. *)
Runs(pages) ==
  LET starts == SetToSortSeq({p \in pages : p - 1 \notin pages}, <)
      end(p) == Min({q \in {p2 + 1 : p2 \in pages} : q > p /\ q \notin pages})
  IN [i \in 1 .. Len(starts) |-> [start |-> starts[i], end |-> end(starts[i])]]

-----------------------------------------------------------------------------
(* Start *)

BootInit ==
  /\ bootAt = "start"
  /\ board = CHOOSE b \in Boards : TRUE
  /\ todo = <<>>
  /\ usermem = FALSE
  /\ meminfo = [nr |-> 0, bank |-> [i \in 0 .. NR_BANKS - 1 |-> NoBank]]
  /\ vmalloc_min = VMALLOC_END - SZ_128M
  /\ memTable = {} /\ resTable = {}
  /\ pmd = [s \in 0 .. VirtualPages \div SectionPages - 1 |-> NoEntry]
  /\ pte = <<>>
  /\ early = [vectors |-> NoFrame, zero |-> NoFrame, bitmap |-> {}]
  /\ limits = [min |-> 0, max_low |-> 0, max_high |-> 0]
  /\ bootFree = {} /\ lastEnd = [page |-> 0, left |-> 0]
  /\ nodeZones = [z \in NodeZones |-> [start |-> 0, spanned |-> 0, present |-> 0, usemap |-> 0]]
  /\ nodeMap = [first |-> 0, base |-> 0]
  /\ zonelist = <<>>
  /\ iomem = [children |-> <<>>, kernel |-> <<>>]
  /\ given = {} /\ again = {}
  /\ totals = [ram |-> 0, high |-> 0, phys |-> 0, grouping |-> TRUE, pagesets |-> <<>>]

(* squash_mem_tags *)
Squashed(tags) ==
  [i \in 1 .. Len(tags) |->
     IF tags[i].tag = "mem" THEN [tags[i] EXCEPT !.tag = "none"] ELSE tags[i]]

(* setup_arch until the tags: the machine's fixup puts the banks in place, and
   then what the tags say of memory does not count.                        *)
SetupMachine(b) ==
  /\ bootAt = "start"
  /\ board' = b
  /\ meminfo' =
       [nr |-> Len(b.fixup),
        bank |-> [i \in 0 .. NR_BANKS - 1 |->
                    IF i < Len(b.fixup)
                    THEN [start |-> b.fixup[i + 1].start, size |-> b.fixup[i + 1].size,
                          highmem |-> FALSE]
                    ELSE NoBank]]
  /\ todo' = IF b.fixup # <<>> THEN Squashed(b.tags) ELSE b.tags
  /\ bootAt' = "tags"
  /\ UNCHANGED <<usermem, vmalloc_min, tableVars, bootmemVars, zoneVars, iomem, givenVars>>

(* The entry is written before its size is looked at: a bank of no pages is
   left behind the last one.                                               *)
arm_add_memory(info, start, size) ==
  LET new == [start |-> AlignTo(start, TagPage) \div TagPage,
              size |-> (size - (start % TagPage)) \div TagPage,
              highmem |-> info.bank[info.nr].highmem]
  IN IF info.nr >= NR_BANKS THEN info
     ELSE [nr |-> IF new.size = 0 THEN info.nr ELSE info.nr + 1,
           bank |-> [info.bank EXCEPT ![info.nr] = new]]

(* parse_tag; a tag of another kind does nothing to memory. *)
ParseTag ==
  /\ bootAt = "tags"
  /\ todo # <<>>
  /\ meminfo' = IF Head(todo).tag = "mem"
                THEN arm_add_memory(meminfo, Head(todo).start, Head(todo).size)
                ELSE meminfo
  /\ todo' = Tail(todo)
  /\ UNCHANGED <<bootAt, board, usermem, vmalloc_min, tableVars, bootmemVars, zoneVars,
                 iomem, givenVars>>

TagsParsed ==
  /\ bootAt = "tags"
  /\ todo = <<>>
  /\ todo' = board.cmdline
  /\ bootAt' = "params"
  /\ UNCHANGED <<board, usermem, meminfo, vmalloc_min, tableVars, bootmemVars, zoneVars,
                 iomem, givenVars>>

(* The first "mem=" blows away what was there before. *)
early_mem(p) ==
  /\ meminfo' = arm_add_memory(IF usermem THEN meminfo ELSE [meminfo EXCEPT !.nr = 0],
                               p.start, p.size)
  /\ usermem' = TRUE
  /\ UNCHANGED vmalloc_min

early_vmalloc(p) ==
  /\ LET most == VMALLOC_END - (PAGE_OFFSET + SZ_32M)
     IN vmalloc_min' = VMALLOC_END - Min({Max({p.size, SZ_16M}), most})
  /\ UNCHANGED <<meminfo, usermem>>

(* parse_args and do_early_param: what no handler knows is passed over. *)
ParseParam ==
  /\ bootAt = "params"
  /\ todo # <<>>
  /\ todo' = Tail(todo)
  /\ CASE Head(todo).param = "mem"     -> early_mem(Head(todo))
       [] Head(todo).param = "vmalloc" -> early_vmalloc(Head(todo))
       [] OTHER                        -> UNCHANGED <<meminfo, usermem, vmalloc_min>>
  /\ UNCHANGED <<bootAt, board, tableVars, bootmemVars, zoneVars, iomem, givenVars>>

-----------------------------------------------------------------------------
(* The banks in order *)

Swapped(bank, i, j) == [bank EXCEPT ![i] = bank[j], ![j] = bank[i]]

(* The inner loop of sort, from the element root of n.  While the heap is built
   its condition tests where the loop started and not where it is, so that it
   goes on behind the array until an element is in place.                  *)
SiftDown(bank, root, n, building) ==
  LET larger(b, r) ==
        LET c == 2 * r + 1
        IN IF c < n - 1 /\ b[c].start < b[c + 1].start THEN c + 1 ELSE c
      sift[b \in [0 .. NR_BANKS - 1 -> [start : Nat, size : Nat, highmem : BOOLEAN]],
           r \in 0 .. NR_BANKS - 1] ==
        LET at == IF building THEN root ELSE r
            c  == larger(b, r)
        IN IF 2 * at + 1 < n /\ b[r].start < b[c].start THEN sift[Swapped(b, r, c), c] ELSE b
  IN sift[bank, root]

(* sort of lib/sort.c, a heapsort, with meminfo_cmp. *)
SortBanks(info) ==
  LET build(b, i) == SiftDown(b, i, info.nr, TRUE)
      pop(b, i)   == SiftDown(Swapped(b, 0, i), 0, i, FALSE)
      half        == info.nr \div 2
      heap        == FoldLeft(build, info.bank, [k \in 1 .. half |-> half - k])
  IN FoldLeft(pop, heap, [k \in 1 .. info.nr - 1 |-> info.nr - k])

BankPages(b) == b.start .. b.start + b.size - 1

arm_memblock_init ==
  /\ bootAt = "params"
  /\ todo = <<>>
  /\ LET sorted == SortBanks(meminfo)
     IN /\ meminfo' = [meminfo EXCEPT !.bank = sorted]
        /\ memTable' = UNION {BankPages(sorted[i]) : i \in 0 .. meminfo.nr - 1}
  /\ resTable' = SwapperPages
  /\ bootAt' = "paging"
  /\ UNCHANGED <<board, todo, usermem, vmalloc_min, pmd, pte, early, bootmemVars, zoneVars,
                 iomem, givenVars>>

lowmem_limit == phys(vmalloc_min - 1) + 1

(* Mutant: the high part of a split bank keeps the size of the whole. *)
SplitKeepsSize(info, j) ==
  LET b    == info.bank[j]
      room == vmalloc_min - virt(b.start)
      low  == [b EXCEPT !.size = room]
      rest == [b EXCEPT !.start = lowmem_limit, !.highmem = TRUE]
  IN IF info.nr >= NR_BANKS THEN [info EXCEPT !.bank[j] = low]
     ELSE [nr |-> info.nr + 1,
           bank |-> [k \in DOMAIN info.bank |->
                       IF k = j THEN low ELSE IF k = j + 1 THEN rest
                       ELSE IF k > j + 1 /\ k <= info.nr THEN info.bank[k - 1]
                       ELSE info.bank[k]]]

(* The bank j crosses the limit: its high part becomes the next bank, or is
   ignored when there is no room for another.                              *)
SplitBank(info, j) ==
  LET b    == info.bank[j]
      room == vmalloc_min - virt(b.start)
      low  == [b EXCEPT !.size = room]
      rest == [start |-> lowmem_limit, size |-> b.size - room, highmem |-> TRUE]
  IN IF info.nr >= NR_BANKS THEN [info EXCEPT !.bank[j] = low]
     ELSE [nr |-> info.nr + 1,
           bank |-> [k \in DOMAIN info.bank |->
                       IF k = j THEN low ELSE IF k = j + 1 THEN rest
                       ELSE IF k > j + 1 /\ k <= info.nr THEN info.bank[k - 1]
                       ELSE info.bank[k]]]

(* The loop of sanity_check_meminfo from the bank j on: a bank above the limit
   or below PAGE_OFFSET makes it and all behind it high memory.            *)
Checked(given0) ==
  LET check[info \in [nr : Nat, bank : [0 .. NR_BANKS - 1 ->
                        [start : Nat, size : Nat, highmem : BOOLEAN]]],
            j \in 0 .. NR_BANKS, high \in BOOLEAN] ==
        LET b      == info.bank[j]
            beyond == high \/ virt(b.start) > vmalloc_min \/ virt(b.start) < PAGE_OFFSET
            marked == [info EXCEPT !.bank[j].highmem = beyond]
            split  == /\ virt(b.start) < vmalloc_min
                      /\ b.size > vmalloc_min - virt(b.start)
        IN IF j >= info.nr THEN info
           ELSE IF ~split THEN check[marked, j + 1, beyond]
           ELSE IF info.nr >= NR_BANKS THEN check[SplitBank(marked, j), j + 1, beyond]
           ELSE check[SplitBank(marked, j), j + 2, TRUE]
  IN check[given0, 0, FALSE]

(* The cache is VIPT without aliases and there is one processor: no reason to
   ignore high memory.                                                     *)
sanity_check_meminfo ==
  /\ bootAt = "paging"
  /\ meminfo' = Checked(meminfo)
  /\ bootAt' = "map"
  /\ UNCHANGED <<board, todo, usermem, vmalloc_min, tableVars, bootmemVars, zoneVars, iomem,
                 givenVars>>

-----------------------------------------------------------------------------
(* Page tables *)

(* memblock_alloc of a page below current_limit: the highest that is free. *)
EarlyPage(reserved) == Max({p \in memTable : p < lowmem_limit} \ reserved)

(* pmd_offset leads to the first of the two entries of a directory. *)
FirstEntry(page) == 2 * (page \div PGDIR_SIZE)
DirPages(page)   == FloorTo(page, PGDIR_SIZE) .. FloorTo(page, PGDIR_SIZE) + PGDIR_SIZE - 1

(* The tables a mapping is put into: the first level, the second and what is
   reserved, for a second-level table takes a page.                        *)
Tables(p1, p2, reserved) == [pmd |-> p1, pte |-> p2, reserved |-> reserved]

(* pmd_clear, of every directory that one of the pages lies in. *)
Cleared(p1, pages) ==
  [s \in DOMAIN p1 |-> IF \E p \in pages : s \div 2 = p \div PGDIR_SIZE THEN NoEntry ELSE p1[s]]

(* Mutant: every mapping brings its own table. *)
FreshTable(t, page) ==
  LET at    == EarlyPage(t.reserved)
      first == FirstEntry(page)
      entry == [kind |-> "table", at |-> at]
  IN Tables([t.pmd EXCEPT ![first] = entry, ![first + 1] = entry],
            [p \in DirPages(page) |-> NoFrame] @@ t.pte, t.reserved \cup {at})

(* early_pte_alloc: only when the first entry is empty; both are filled.  The
   new table is cleared.                                                   *)
early_pte_alloc(t, page) ==
  LET at    == EarlyPage(t.reserved)
      first == FirstEntry(page)
      entry == [kind |-> "table", at |-> at]
  IN IF t.pmd[first] # NoEntry THEN t
     ELSE Tables([t.pmd EXCEPT ![first] = entry, ![first + 1] = entry],
                 [p \in DirPages(page) |-> NoFrame] @@ t.pte, t.reserved \cup {at})

(* alloc_init_section of a part of one directory: entries of its own when all
   is aligned, else the pages one by one.  Where the first entry is a section
   and not a table there is no entry for a page, and nothing maps it: the BUG
   is printed and what lies there is overwritten.                          *)
alloc_init_section(t, page, end, frame) ==
  IF page % SectionPages = 0 /\ end % SectionPages = 0 /\ frame % SectionPages = 0
  THEN [t EXCEPT !.pmd =
          [s \in DOMAIN t.pmd |->
             IF s \in page \div SectionPages .. end \div SectionPages - 1
             THEN [kind |-> "section", at |-> frame + s * SectionPages - page]
             ELSE t.pmd[s]]]
  ELSE LET u == early_pte_alloc(t, page)
       IN [u EXCEPT !.pte =
             [p \in DOMAIN u.pte |-> IF p \in page .. end - 1 THEN frame + p - page ELSE u.pte[p]]]

(* create_mapping, by directories.  Every type a board maps may use pages, and
   no frame lies beyond 32 bits.                                           *)
create_mapping(t, page, frame, length) ==
  LET parts == FloorTo(page, PGDIR_SIZE) \div PGDIR_SIZE .. (page + length - 1) \div PGDIR_SIZE
      part(u, d) ==
        LET from == Max({page, d * PGDIR_SIZE})
            to   == Min({page + length, (d + 1) * PGDIR_SIZE})
        IN alloc_init_section(u, from, to, frame + from - page)
  IN IF page # Vectors /\ page < TASK_SIZE THEN t
     ELSE FoldLeft(part, t, SetToSortSeq(parts, <))

LowRegions == SelectSeq(Runs(memTable), LAMBDA r : r.start < lowmem_limit)

(* prepare_page_table, then map_lowmem: what lies below the kernel's memory and
   behind its first region is cleared, and low memory mapped.              *)
MapLowmem ==
  /\ bootAt = "map"
  /\ LET first == Min({Runs(memTable)[1].end, lowmem_limit})
         clear == Cleared(Cleared(pmd, 0 .. PAGE_OFFSET - 1),
                          {v \in virt(first) .. VMALLOC_END - 1 :
                             (v - virt(first)) % PGDIR_SIZE = 0})
         map(t, r) == create_mapping(t, virt(r.start), r.start,
                                     Min({r.end, lowmem_limit}) - r.start)
         done  == FoldLeft(map, Tables(clear, pte, resTable), LowRegions)
     IN pmd' = done.pmd /\ pte' = done.pte /\ resTable' = done.reserved
  /\ bootAt' = "devices"
  /\ UNCHANGED <<bankVars, memTable, early, bootmemVars, zoneVars, iomem, givenVars>>

(* devicemaps_init, kmap_init and the zero page of paging_init.  No machine has
   devices to map.                                                         *)
MapDevices ==
  /\ bootAt = "devices"
  /\ LET vectors == EarlyPage(resTable)
         clear   == Cleared(pmd, VMALLOC_END .. VirtualPages - 1)
         mapped  == create_mapping(Tables(clear, pte, resTable \cup {vectors}),
                                   Vectors, vectors, 1)
         kmap    == early_pte_alloc(mapped, PAGE_OFFSET - PGDIR_SIZE)
         zero    == EarlyPage(kmap.reserved)
     IN /\ pmd' = kmap.pmd /\ pte' = kmap.pte
        /\ resTable' = kmap.reserved \cup {zero}
        /\ early' = [early EXCEPT !.vectors = vectors, !.zero = zero]
  /\ bootAt' = "bootmem"
  /\ UNCHANGED <<bankVars, memTable, bootmemVars, zoneVars, iomem, givenVars>>

-----------------------------------------------------------------------------
(* bootmem *)

AllBanks == {meminfo.bank[i] : i \in 0 .. meminfo.nr - 1}
EndOf(b) == b.start + b.size

find_limits ==
  [min      |-> Min({b.start : b \in AllBanks}),
   max_high |-> Max({EndOf(b) : b \in AllBanks}),
   max_low  |-> Max({0} \cup {EndOf(b) : b \in {c \in AllBanks : ~c.highmem}})]

(* The bits of the node are cleared and set; a bit that is clear already is
   reported by BUG(), one that is set already is not.                      *)
__free(free, pages)    == free \cup pages
__reserve(free, pages) == free \ pages

(* mark_bootmem: a range that does not start in the node is reported. *)
mark_bootmem(free, from, to, reserve) ==
  CASE from \notin find_limits.min .. find_limits.max_low - 1 -> free
    [] reserve -> __reserve(free, from .. to - 1)
    [] OTHER   -> __free(free, from .. to - 1)

free_bootmem(free, from, to)    == mark_bootmem(free, from, to, FALSE)
reserve_bootmem(free, from, to) == mark_bootmem(free, from, to, TRUE)

bootmem_bootmap_pages(pages) == AlignTo(pages, MapPageBits) \div MapPageBits

(* memblock_alloc_base: the highest place for n pages below the end. *)
HighestRun(pages, n) ==
  LET first == Max({p \in pages : p .. p + n - 1 \subseteq pages}) IN first .. first + n - 1

(* init_bootmem_core has every page of the node reserved. *)
init_bootmem_core == {}

(* arm_bootmem_init: the bitmap below the end of low memory; then the low memory
   is freed, and what memblock has as reserved is reserved.                *)
arm_bootmem_init ==
  /\ bootAt = "bootmem"
  /\ limits' = find_limits
  /\ LET end    == find_limits.max_low
         bitmap == HighestRun({p \in memTable \ resTable : p < end},
                              bootmem_bootmap_pages(end - find_limits.min))
         low(table) == SelectSeq(Runs(table), LAMBDA r : r.start <= end)
         freed   == FoldLeft(LAMBDA f, r : free_bootmem(f, r.start, Min({r.end, end})),
                             init_bootmem_core, low(memTable))
     IN /\ resTable' = resTable \cup bitmap
        /\ early' = [early EXCEPT !.bitmap = bitmap]
        /\ bootFree' = FoldLeft(LAMBDA f, r : reserve_bootmem(f, r.start, Min({r.end, end})),
                                freed, low(resTable'))
  /\ bootAt' = "zones"
  /\ UNCHANGED <<bankVars, memTable, pmd, pte, lastEnd, nodeZones, nodeMap, zonelist, iomem,
                 givenVars>>

(* alloc_bootmem_core: n pages from behind the last allocation on, or else from
   the start of the node.                                                  *)
Search(boot, n) ==
  LET places == {p \in boot.free : p .. p + n - 1 \subseteq boot.free}
      behind == {p \in places : p >= boot.last.page}
  IN Min(IF behind # {} THEN behind ELSE places)

(* It starts in what the last allocation has left of its page, if the search
   ends with the next page.                                                *)
TakeUnits(boot, units) ==
  LET pages(u) == AlignTo(u, PageStructs) \div PageStructs
      first == Search(boot, pages(units))
      left  == IF first = boot.last.page THEN boot.last.left ELSE 0
      n     == pages(Max({units - left, 0}))
  IN [free |-> __reserve(boot.free, first .. first + n - 1),
      last |-> [page |-> first + n, left |-> left + n * PageStructs - units]]

(* A request that is aligned to a page does not. *)
TakePages(boot, n) ==
  LET first == Search(boot, n)
  IN [free |-> __reserve(boot.free, first .. first + n - 1),
      last |-> [page |-> first + n, left |-> 0]]

Bootmem0 == [free |-> bootFree, last |-> lastEnd]
SetBootmem(boot) == bootFree' = boot.free /\ lastEnd' = boot.last

-----------------------------------------------------------------------------
(* Zones *)

(* What arm_bootmem_free says of the zones. *)
ZoneSizes ==
  [z \in NodeZones |-> CASE z = ZONE_NORMAL  -> limits.max_low - limits.min
                         [] z = ZONE_HIGHMEM -> limits.max_high - limits.max_low
                         [] OTHER            -> 0]

ZonePages ==
  [z \in NodeZones |-> CASE z = ZONE_NORMAL  -> {p \in memTable : p < limits.max_low}
                         [] z = ZONE_HIGHMEM -> {p \in memTable : p >= limits.max_low}
                         [] OTHER            -> {}]

ZoneHoles == [z \in NodeZones |-> ZoneSizes[z] - Cardinality(ZonePages[z])]

(* free_area_init_core's realsize: the pages of the zone that its struct pages
   do not take; the movable zone follows the others and has none.          *)
PresentPages(z) ==
  LET real   == ZoneSizes[z] - ZoneHoles[z]
      memmap == AlignTo(ZoneSizes[z], PageStructs) \div PageStructs
  IN IF real >= memmap THEN real - memmap ELSE real

(* alloc_node_mem_map: from and to a multiple of MAX_ORDER_NR_PAGES. *)
MapBase == FloorTo(limits.min, BlockPages)
MapSize == AlignTo(limits.max_high, BlockPages) - MapBase
alloc_node_mem_map == TakeUnits(Bootmem0, MapSize)

(* In words: PageblockBits for every pageblock of the zone. *)
usemap_size(pages) ==
  AlignTo((AlignTo(pages, BlockPages) \div BlockPages) * PageblockBits, WordBits) \div WordBits

setup_usemap(boot, z) == TakeUnits(boot, usemap_size(ZoneSizes[z]))

wait_table_hash_nr_entries(pages) ==
  LET wanted == pages \div PagesPerWaitqueue
      size   == Min({2 ^ k : k \in {j \in 0 .. wanted : 2 ^ j >= wanted}})
  IN Max({Min({size, WaitMax}), WaitMin})

zone_wait_table_init(boot, z) ==
  TakeUnits(boot, wait_table_hash_nr_entries(ZoneSizes[z]))

(* free_area_init_core goes on with the zones that span something. *)
InitZone(boot, z) ==
  IF ZoneSizes[z] = 0 THEN boot ELSE zone_wait_table_init(setup_usemap(boot, z), z)

(* arm_bootmem_free and free_area_init_node: the struct pages of the node, then
   for each zone that has pages a usemap and a wait table.                 *)
FreeAreaInitNode ==
  /\ bootAt = "zones"
  /\ nodeZones' = [z \in NodeZones |->
       [start   |-> IF ZoneSizes[z] = 0 THEN 0
                    ELSE IF z = ZONE_NORMAL THEN limits.min ELSE limits.max_low,
        spanned |-> ZoneSizes[z], present |-> PresentPages(z),
        usemap  |-> usemap_size(ZoneSizes[z])]]
  /\ nodeMap' = [first |-> Search(Bootmem0, AlignTo(MapSize, PageStructs) \div PageStructs),
                 base |-> MapBase]
  /\ SetBootmem(FoldLeft(InitZone, alloc_node_mem_map, <<ZONE_NORMAL, ZONE_HIGHMEM, ZONE_MOVABLE>>))
  /\ bootAt' = "resources"
  /\ UNCHANGED <<bankVars, tableVars, limits, zonelist, iomem, givenVars>>

-----------------------------------------------------------------------------
(* Resources *)

(* __request_resource among the children of a resource from first to last: in
   front of the first child that starts behind it, unless the one before that
   reaches into it.                                                        *)
Request(children, first, last, new) ==
  LET behind == SelectInSeq(children, LAMBDA c : c[1] > new[2])
      at     == IF behind = 0 THEN Len(children) + 1 ELSE behind
      clash  == \E i \in 1 .. at - 1 : children[i][2] >= new[1]
  IN IF new[2] < new[1] \/ new[1] < first \/ new[2] > last \/ clash
     THEN children ELSE InsertAt(children, at, new)

(* request_standard_resource: a region of memory ends with the first page behind
   it.  The kernel's data goes where its code lies.                        *)
RequestStandardResource ==
  /\ bootAt = "resources"
  /\ LET regions == Runs(memTable)
         code    == board.kernel.code
         holds(r) == code # <<>> /\ code[1] >= r.start /\ code[2] <= r.end
         inside(r) == Request(Request(<<>>, r.start, r.end, code), r.start, r.end,
                              board.kernel.data)
     IN /\ iomem' =
             [children |-> FoldLeft(LAMBDA c, r : Request(c, 0, 2 ^ 30, <<r.start, r.end>>),
                                    <<>>, regions),
              kernel   |-> FoldLeft(LAMBDA k, r : IF holds(r) THEN inside(r) ELSE k,
                                    <<>>, regions)]
        /\ SetBootmem(FoldLeft(TakeUnits, Bootmem0, [i \in 1 .. Len(regions) |-> 1]))
  /\ bootAt' = "percpu"
  /\ UNCHANGED <<bankVars, tableVars, zoneVars, givenVars>>

(* The description of the area, in whole pages; it is never given back. *)
pcpu_alloc_alloc_info(boot) == TakeUnits(boot, PageStructs)

(* pcpu_setup_first_chunk: the offsets and sizes of the groups, the units of the
   processors and their offsets, the slots and the chunk.                  *)
FirstChunk(boot) == FoldLeft(TakeUnits, boot, [i \in 1 .. 6 |-> 1])

(* setup_per_cpu_areas *)
SetupPerCpuAreas ==
  /\ bootAt = "percpu"
  /\ SetBootmem(FirstChunk(TakePages(pcpu_alloc_alloc_info(Bootmem0), PcpuPages)))
  /\ bootAt' = "zonelists"
  /\ UNCHANGED <<bankVars, tableVars, zoneVars, iomem, givenVars>>

Populated(z) == nodeZones[z].present # 0

(* nr_free_zone_pages; the high watermarks are zero. *)
nr_free_zone_pages(offset) ==
  FoldFunctionOnSet(+, 0, [z \in NodeZones |-> nodeZones[z].present],
                    {z \in NodeZones : z <= offset})

(* build_all_zonelists: the populated zones from the highest down. *)
BuildAllZonelists ==
  /\ bootAt = "zonelists"
  /\ zonelist' = SetToSortSeq({z \in NodeZones : Populated(z)}, >)
  /\ totals' = [totals EXCEPT !.grouping =
                  nr_free_zone_pages(ZONE_MOVABLE) >= BlockPages * PageTypes]
  /\ bootAt' = "trim"
  /\ UNCHANGED <<bankVars, tableVars, bootmemVars, limits, nodeZones, nodeMap, iomem, given, again>>

-----------------------------------------------------------------------------
(* The hand-over *)

(* Mutant: the part of the map is rounded outwards. *)
MemmapOutwards(from, to) ==
  nodeMap.first + (from - nodeMap.base) \div PageStructs ..
    nodeMap.first + AlignTo(to - nodeMap.base, PageStructs) \div PageStructs - 1

(* free_memmap: the whole pages of the map that hold these struct pages only. *)
MemmapOf(from, to) ==
  nodeMap.first + AlignTo(from - nodeMap.base, PageStructs) \div PageStructs ..
    nodeMap.first + (to - nodeMap.base) \div PageStructs - 1

(* free_unused_memmap: between two banks; the map of the rest of a block behind
   a bank stays.                                                           *)
FreeUnusedMemmap ==
  /\ bootAt = "trim"
  /\ LET behind(i) == AlignTo(EndOf(meminfo.bank[i]), BlockPages)
         gaps == {i \in 0 .. meminfo.nr - 2 : behind(i) < meminfo.bank[i + 1].start}
     IN bootFree' = bootFree \cup
          UNION {MemmapOf(behind(i), meminfo.bank[i + 1].start) : i \in gaps}
  /\ bootAt' = "low"
  /\ UNCHANGED <<bankVars, tableVars, lastEnd, zoneVars, iomem, givenVars>>

Give(pages) ==
  /\ again' = again \cup (given \cap pages)
  /\ given' = given \cup pages

(* free_all_bootmem: what is free, and the bitmap. *)
FreeAllBootmem ==
  /\ bootAt = "low"
  /\ Give(bootFree \cup early.bitmap)
  /\ totals' = [totals EXCEPT !.ram = Cardinality(bootFree) + Cardinality(early.bitmap)]
  /\ bootAt' = "high"
  /\ UNCHANGED <<bankVars, tableVars, bootmemVars, zoneVars, iomem>>

(* The loop of free_highpages over the reserved regions, from start on. *)
Unreserved(start, end) ==
  LET step(s, r) ==
        LET from == Min({Max({r.start, s.start}), end})
            to   == Min({r.end, end})
        IN IF r.end < s.start \/ s.start = end THEN s
           ELSE [start |-> to, free |-> s.free \cup (s.start .. from - 1)]
      done == FoldLeft(step, [start |-> start, free |-> {}], Runs(resTable))
  IN done.free \cup (done.start .. end - 1)

free_highpages ==
  /\ bootAt = "high"
  /\ LET high  == SelectSeq(Runs(memTable), LAMBDA r : r.end > limits.max_low)
         parts == {Unreserved(Max({r.start, limits.max_low}), r.end) : r \in ToSet(high)}
         n     == Cardinality(UNION parts)
     IN /\ Give(UNION parts)
        /\ totals' = [totals EXCEPT !.high = n, !.ram = totals.ram + n,
                                    !.phys = Cardinality(memTable)]
  /\ bootAt' = "pagesets"
  /\ UNCHANGED <<bankVars, tableVars, bootmemVars, zoneVars, iomem>>

(* A power of two less one, so that colours of pages do not go together; none
   for a small zone.                                                       *)
zone_batchsize(present) ==
  LET share == Max({1, Min({present \div BatchShare, BatchMax}) \div 4})
      most  == share + share \div 2
  IN Max({2 ^ k : k \in {j \in 0 .. most : 2 ^ j <= most}}) - 1

(* setup_per_cpu_pageset; percpu_pagelist_fraction is zero. *)
SetupPerCpuPageset ==
  /\ bootAt = "pagesets"
  /\ totals' = [totals EXCEPT !.pagesets =
       [z \in {y \in NodeZones : Populated(y)} |->
          LET batch == zone_batchsize(nodeZones[z].present)
          IN [high |-> 6 * batch, batch |-> Max({1, batch})]]]
  /\ bootAt' = "up"
  /\ UNCHANGED <<bankVars, tableVars, bootmemVars, zoneVars, iomem, given, again>>

BootNext ==
  \/ \E b \in Boards : SetupMachine(b)
  \/ ParseTag \/ TagsParsed \/ ParseParam
  \/ arm_memblock_init \/ sanity_check_meminfo
  \/ MapLowmem \/ MapDevices
  \/ arm_bootmem_init \/ FreeAreaInitNode
  \/ RequestStandardResource \/ SetupPerCpuAreas \/ BuildAllZonelists
  \/ FreeUnusedMemmap \/ FreeAllBootmem \/ free_highpages
  \/ SetupPerCpuPageset

-----------------------------------------------------------------------------
(* Properties *)

(* The page a virtual page leads to, NoFrame if none. *)
Translate(page) ==
  LET entry == pmd[page \div SectionPages]
  IN CASE entry.kind = "section" -> entry.at + (page % SectionPages)
       [] entry.kind = "table"   -> pte[page]
       [] OTHER                  -> NoFrame

(* Every record of the memory says the same of it: the banks, sorted although
   the command line was not, split where low memory ends and nowhere else;
   memblock's table; and the resource tree, with the kernel in its region. *)
RecordsAgree ==
  /\ bootAt \notin {"start", "tags", "params", "paging"} =>
       /\ UNION {BankPages(b) : b \in AllBanks} = memTable
       /\ \A i \in 0 .. meminfo.nr - 2 : EndOf(meminfo.bank[i]) <= meminfo.bank[i + 1].start
       /\ \A b \in AllBanks :
            /\ b.size > 0
            /\ b.highmem <=> b.start >= lowmem_limit
            /\ b.highmem \/ EndOf(b) <= lowmem_limit
  /\ bootAt = "up" =>
       /\ [i \in DOMAIN iomem.children |->
             [start |-> iomem.children[i][1], end |-> iomem.children[i][2]]] = Runs(memTable)
       /\ \A r \in ToSet(Runs(memTable)) :
            board.kernel.code # <<>> /\ board.kernel.code[1] \in r.start .. r.end - 1
              => iomem.kernel # <<>>

(* The page tables map low memory where phys_to_virt says it is, by sections and
   by pages, the vectors at their place, and nothing else: not high memory, not
   the vmalloc area, not what lies below the kernel.  No two mappings share a
   table, and the tables and pages taken for them are nobody else's.       *)
KernelMapped ==
  bootAt \notin {"start", "tags", "params", "paging", "map", "devices"} =>
    \A v \in 0 .. VirtualPages - 1 :
      Translate(v) =
        IF v = Vectors THEN early.vectors
        ELSE IF v \in PAGE_OFFSET .. VMALLOC_END - 1 /\ phys(v) \in memTable
                /\ phys(v) < lowmem_limit
        THEN phys(v) ELSE NoFrame

(* At the end the buddy allocator has been given, once, every page of memory that
   nothing holds: the tables, the early pages, what bootmem allocated, and of
   the struct pages those of existing memory stay.  A page is in the normal zone
   exactly when it is mapped, and the usemap of its zone has bits for it; the
   counts agree; and of the zones and pagesets holds what the page allocator
   relies on.                                *)
Holds(page) ==
  LET reserved == page \in resTable /\ page \notin early.bitmap
  IN reserved \/ (page < limits.max_low /\ page \notin early.bitmap /\ page \notin bootFree)
PageStructsKept ==
  \A p \in memTable :
    nodeMap.first + (p - nodeMap.base) \div PageStructs \notin given
HandedOver ==
  bootAt = "up" =>
    /\ again = {}
    /\ given = {p \in memTable : ~Holds(p)}
    /\ PageStructsKept
    /\ given \cap (SwapperPages \cup {early.vectors, early.zero}) = {}
    /\ \A p \in given :
         LET z == nodeZones[IF Translate(virt(p)) = p THEN ZONE_NORMAL ELSE ZONE_HIGHMEM]
         IN p \in z.start .. z.start + z.spanned - 1
    /\ \A p \in given, z \in NodeZones :
         p \in nodeZones[z].start .. nodeZones[z].start + nodeZones[z].spanned - 1
           => ((p - nodeZones[z].start) \div BlockPages + 1) * PageblockBits
                <= nodeZones[z].usemap * WordBits
    /\ totals.ram = Cardinality(given)
    /\ totals.phys = Cardinality(memTable)
    /\ \A i, j \in 1 .. Len(zonelist) : i < j => zonelist[i] > zonelist[j]
    /\ \A z \in DOMAIN totals.pagesets :
         \/ totals.pagesets[z].batch = 1
         \/ totals.pagesets[z].batch <= totals.pagesets[z].high
    /\ \A p \in given : \E z \in DOMAIN totals.pagesets :
         p \in nodeZones[z].start .. nodeZones[z].start + nodeZones[z].spanned - 1
=============================================================================
