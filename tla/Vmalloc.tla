------------------------------- MODULE Vmalloc -------------------------------
(***************************************************************************)
(* The kernel virtual address allocator of mm/vmalloc.c: vmap areas in a   *)
(* red-black tree and an address-sorted list, the vm_structs of vmlist,    *)
(* the pages behind them and the kernel page table, lazy freeing and its   *)
(* purge, and the areas the percpu allocator takes from the top            *)
(* (pcpu_get_vm_areas of mm/percpu.c).  Addresses and sizes are in pages.  *)
(*                                                                         *)
(* A call runs on the one CPU and may nest: the array of page pointers of  *)
(* a large block is itself vmalloc'ed.  The calls in progress are a stack. *)
(* kmalloc, the page allocator and page-table pages are external and may   *)
(* refuse.  BUG() prints and goes on; stop() is an endless loop.           *)
(***************************************************************************)
EXTENDS Integers, Sequences, FiniteSets, SequencesExt, FiniteSetsExt

CONSTANTS
  WindowStart, WindowEnd,   \* VMALLOC_START and VMALLOC_END, of a small window
  NULL,
  Frames,       \* the pages the page allocator has for vmalloc, integers
  VmallocSizes, \* the sizes callers ask for
  IoSizes,      \* the sizes of the areas asked for with VM_IOREMAP
  PcpuSizes,    \* the sizes of percpu chunks
  PcpuAlign,    \* their alignment
  PtrsPerPage,  \* page pointers in a page
  LazyMax,      \* lazy_max_pages()
  Reads         \* the lengths vread and vwrite are asked for

ASSUME VmallocAssumption ==
  /\ WindowStart \in Nat \ {0} /\ WindowEnd \in Nat /\ WindowStart < WindowEnd
  /\ Frames \subseteq Nat /\ IsFiniteSet(Frames)
  /\ NULL \notin Int
  /\ VmallocSizes \subseteq Nat \ {0} /\ IoSizes \subseteq Nat \ {0}
  /\ PcpuSizes \subseteq Nat \ {0} /\ PcpuAlign \in Nat \ {0}
  /\ PtrsPerPage \in Nat \ {0, 1} /\ LazyMax \in Nat /\ Reads \subseteq Nat \ {0}

VARIABLES
  tree,                 \* vmap_area_root
  va,                   \* the vmap_areas, NoArea where there is none
  vmap_area_list,
  vm,                   \* va->private: the vm_struct of the area, NoVm if freed
  vmlist,               \* vmlist, each vm_struct by its area
  vmap_lazy_nr,
  vmap_area_pcpu_hole,
  vmPte,                \* the page table: address -> frame or NULL
  vmHeld,               \* the areas callers hold
  stack,                \* the calls in progress, innermost first
  ret                   \* what the last nested call returned

areaVars == <<tree, va, vmap_area_list, vm, vmlist, vmap_lazy_nr, vmap_area_pcpu_hole>>
vmallocVars == <<tree, va, vmap_area_list, vm, vmlist, vmap_lazy_nr, vmap_area_pcpu_hole,
                 vmPte, vmHeld, stack, ret>>

VmallocSpace == WindowStart .. WindowEnd - 1

(* The structures of an area are named by the address it starts at. *)
VmAreas == VmallocSpace

RB == INSTANCE RbTree WITH Nodes <- VmAreas

NoArea == [start |-> 0, end |-> 0, lazy |-> FALSE]
NoVm   == [kind |-> "none", pages |-> <<>>, array |-> NULL]

InUse   == {a \in VmAreas : va[a] # NoArea}
Live    == {a \in InUse : ~va[a].lazy}
Lazy    == {a \in InUse : va[a].lazy}
SizeOf(a) == va[a].end - va[a].start

UsedFrames == UNION {ToSet(vm[a].pages) : a \in VmAreas}
FreeFrames == Frames \ UsedFrames

ALIGN(x, align) == ((x + align - 1) \div align) * align
AlignDown(x, align) == (x \div align) * align

-----------------------------------------------------------------------------
(* Init: vmalloc_init with an empty vmlist. *)
VmallocInit ==
  /\ tree = RB!RB_ROOT
  /\ va = [a \in VmAreas |-> NoArea]
  /\ vmap_area_list = <<>>
  /\ vm = [a \in VmAreas |-> NoVm]
  /\ vmlist = <<>>
  /\ vmap_lazy_nr = 0
  /\ vmap_area_pcpu_hole = WindowEnd
  /\ vmPte = [x \in VmallocSpace |-> NULL]
  /\ vmHeld = {}
  /\ stack = <<>>
  /\ ret = NULL

-----------------------------------------------------------------------------
(* Searching and inserting *)

(* The walk of alloc_vmap_area down the tree for the area to start from. *)
FirstArea(addr, size) ==
  LET Down[n \in VmAreas \cup {NULL}, first \in VmAreas \cup {NULL}] ==
        IF n = NULL THEN first
        ELSE IF va[n].end >= addr
             THEN Down[tree.child[n]["left"],
                       IF first = NULL /\ va[n].start < addr + size THEN n ELSE first]
             ELSE Down[tree.child[n]["right"], n]
  IN Down[tree.root, NULL]

NextCandidate(a, align) == ALIGN(va[a].end + 1, align)

(* The loop over the areas that follow, up to the first gap that is wide
   enough or past the end.                                                 *)
Slide(from, first, size, align) ==
  LET Go[addr \in Nat, a \in VmAreas \cup {NULL}] ==
        IF a = NULL \/ addr + size <= va[a].start \/ addr + size > WindowEnd THEN addr
        ELSE Go[NextCandidate(a, align), RB!rb_next(tree, a)]
  IN Go[from, first]

(* alloc_vmap_area between VMALLOC_START and VMALLOC_END: its address; past
   the end when there is no room.                                          *)
AllocAddress(size, align) ==
  LET addr  == ALIGN(WindowStart, align)
      f     == FirstArea(addr, size)
      first == IF f # NULL /\ va[f].end < addr THEN RB!rb_next(tree, f) ELSE f
  IN Slide(addr, first, size, align)

(* The walk of __insert_vmap_area: the node and the side to link to. *)
InsertPlace(start) ==
  LET Down[n \in VmAreas \cup {NULL}, p \in VmAreas \cup {NULL}, d \in RB!Sides] ==
        IF n = NULL THEN <<p, d>>
        ELSE LET e == IF start < va[n].end THEN "left" ELSE "right"
             IN Down[tree.child[n][e], n, e]
  IN Down[tree.root, NULL, "left"]

(* Mutant: the list entry goes to the end. *)
ListAtEnd(a, t) == Append(vmap_area_list, a)

(* list_add_rcu behind the predecessor in the tree. *)
ListAfterPrev(a, t) ==
  LET p == RB!rb_prev(t, a)
  IN IF p = NULL THEN <<a>> \o vmap_area_list
     ELSE LET i == CHOOSE j \in DOMAIN vmap_area_list : vmap_area_list[j] = p
          IN InsertAt(vmap_area_list, i + 1, a)

(* __insert_vmap_area. *)
InsertArea(a, end) ==
  LET place == InsertPlace(a)
      t     == RB!rb_insert_color(RB!rb_link_node(tree, a, place[1], place[2]), a)
  IN /\ tree' = t
     /\ vmap_area_list' = ListAfterPrev(a, t)
     /\ va' = [va EXCEPT ![a] = [start |-> a, end |-> end, lazy |-> FALSE]]

(* insert_vmalloc_vm: into vmlist before the first entry that is not below. *)
InsertVm(a, kind) ==
  LET below == {i \in DOMAIN vmlist : vmlist[i] < a}
  IN /\ vmlist' = InsertAt(vmlist, Cardinality(below) + 1, a)
     /\ vm' = [vm EXCEPT ![a] = [NoVm EXCEPT !.kind = kind]]

AddArea(a, end, kind) == InsertArea(a, end) /\ InsertVm(a, kind)

-----------------------------------------------------------------------------
(* Removing *)

LazyAfter(a) == vmap_lazy_nr + SizeOf(a)

(* vunmap_page_range: the walk over the levels of the page table clears every
   entry of the range that there is.                                       *)
Unmapped(lo, end) == [x \in VmallocSpace |-> IF x \in lo .. end - 1 THEN NULL ELSE vmPte[x]]

(* remove_vm_area: off vmlist, unmapped, and left in the tree as lazily free. *)
RemoveArea(a) ==
  /\ vmlist' = Remove(vmlist, a)
  /\ vmPte' = Unmapped(va[a].start, va[a].end)
  /\ va' = [va EXCEPT ![a].lazy = TRUE]
  /\ vmap_lazy_nr' = LazyAfter(a)
  /\ UNCHANGED <<tree, vmap_area_list, vmap_area_pcpu_hole>>

(* free_vmap_area_noflush: too many lazy pages, and it stops. *)
TooLazy(a) == LazyAfter(a) > LazyMax

(* Mutant: purging leaves the hole where it was. *)
HoleStays(freed) == vmap_area_pcpu_hole

(* __free_vmap_area: the hole moves up to the highest end freed. *)
HoleAfter(freed) == Max({vmap_area_pcpu_hole} \cup {va[a].end : a \in freed})

(* purge_vmap_area_lazy: every lazily freed area leaves the tree. *)
Purge ==
  LET Erase(t, a) == RB!rb_erase(t, a)
  IN /\ tree' = FoldSet(LAMBDA a, t : Erase(t, a), tree, Lazy)
     /\ vmap_area_list' = SelectSeq(vmap_area_list, LAMBDA a : a \notin Lazy)
     /\ va' = [a \in VmAreas |-> IF a \in Lazy THEN NoArea ELSE va[a]]
     /\ vmap_lazy_nr' = vmap_lazy_nr - FoldSet(LAMBDA a, n : n + SizeOf(a), 0, Lazy)
     /\ vmap_area_pcpu_hole' = HoleAfter(Lazy)

-----------------------------------------------------------------------------
(* Calls *)

Frame(step, size, area) == [step |-> step, size |-> size, area |-> area]

Doing(step) == stack # <<>> /\ Head(stack).step = step

Goto(step, area) == stack' = <<[Head(stack) EXCEPT !.step = step, !.area = area]>> \o Tail(stack)

(* The innermost call returns r; the caller of the outermost one keeps it. *)
Return(r) ==
  /\ stack' = Tail(stack)
  /\ ret' = IF Tail(stack) = <<>> THEN NULL ELSE r
  /\ vmHeld' = IF Tail(stack) = <<>> /\ r # NULL THEN vmHeld \cup {r} ELSE vmHeld

(* stop(). *)
Stop == Goto("stopped", Head(stack).area) /\ UNCHANGED <<vmHeld, ret>>

(* vmalloc, vzalloc, vmalloc_exec, vmalloc_32: __vmalloc_node_range refuses
   what exceeds totalram_pages at once.                                    *)
CallVmalloc(size) ==
  /\ stack = <<>>
  /\ size <= Cardinality(Frames)
  /\ stack' = <<Frame("get_area", size, NULL)>>
  /\ UNCHANGED <<areaVars, vmPte, vmHeld, ret>>

(* get_vm_area_caller with VM_IOREMAP. *)
CallGetVmArea(size) ==
  /\ stack = <<>>
  /\ stack' = <<Frame("get_io_area", size, NULL)>>
  /\ UNCHANGED <<areaVars, vmPte, vmHeld, ret>>

(* __get_vm_area_node fails: one of its two structures cannot be allocated. *)
NoStructure ==
  /\ Doing("get_area") \/ Doing("get_io_area")
  /\ Return(NULL)
  /\ UNCHANGED <<areaVars, vmPte>>

(* 1 << fls(size) for an I/O area, in pages. *)
IoAlign(size) == Min({n \in {2^i : i \in 0 .. 8} : n > size})

(* __get_vm_area_node: the size rounded up plus the guard page; a full address
   space stops the machine before the purge that follows stop().           *)
GetArea ==
  /\ Doing("get_area") \/ Doing("get_io_area")
  /\ LET io   == Doing("get_io_area")
         size == Head(stack).size + 1
         addr == AllocAddress(size, IF io THEN IoAlign(Head(stack).size) ELSE 1)
     IN IF addr + size > WindowEnd
        THEN Stop /\ UNCHANGED <<areaVars, vmPte>>
        ELSE /\ AddArea(addr, addr + size, IF io THEN "ioremap" ELSE "alloc")
             /\ IF io THEN Return(addr)
                ELSE Goto("get_array", addr) /\ UNCHANGED <<vmHeld, ret>>
             /\ UNCHANGED <<vmap_lazy_nr, vmap_area_pcpu_hole, vmPte>>

(* __vmalloc_area_node: the array of page pointers, from kmalloc, or nested
   when it is larger than a page.                                          *)
GetArray ==
  /\ Doing("get_array")
  /\ IF Head(stack).size > PtrsPerPage
     THEN stack' = <<Frame("get_area", (Head(stack).size + PtrsPerPage - 1) \div PtrsPerPage, NULL),
                     [Head(stack) EXCEPT !.step = "got_array"]>> \o Tail(stack)
     ELSE \/ Goto("get_pages", Head(stack).area)
          \/ Goto("no_array", Head(stack).area)
  /\ UNCHANGED <<areaVars, vmPte, vmHeld, ret>>

GotArray ==
  /\ Doing("got_array")
  /\ ret' = NULL
  /\ IF ret = NULL
     THEN Goto("no_array", Head(stack).area) /\ UNCHANGED vm
     ELSE /\ vm' = [vm EXCEPT ![Head(stack).area].array = ret]
          /\ Goto("get_pages", Head(stack).area)
  /\ UNCHANGED <<tree, va, vmap_area_list, vmlist, vmap_lazy_nr, vmap_area_pcpu_hole,
                 vmPte, vmHeld>>

(* No array: remove_vm_area, and the vm_struct is freed. *)
NoArray ==
  /\ Doing("no_array")
  /\ LET a == Head(stack).area
     IN /\ RemoveArea(a)
        /\ IF TooLazy(a) THEN Stop /\ UNCHANGED vm
           ELSE Return(NULL) /\ vm' = [vm EXCEPT ![a] = NoVm]

(* The lowest n free frames: the page allocator gives any. *)
Take(n) == SubSeq(SetToSortSeq(FreeFrames, <), 1, n)

(* vmap_page_range_noflush: the pages in order, up to the first page of the page
   table it cannot have; n is where that is.                               *)
PagesMapped(lo, pages, n) ==
  [x \in VmallocSpace |-> IF x \in lo .. lo + n - 1 THEN pages[x - lo + 1] ELSE vmPte[x]]

(* The loop of alloc_page, then map_vm_area.  Out of pages, or out of pages for
   the page table when j of them are mapped, and the block goes back.      *)
GetPages ==
  /\ Doing("get_pages")
  /\ LET a     == Head(stack).area
         size  == Head(stack).size
         n     == Min({size, Cardinality(FreeFrames)})
         pages == Take(n)
     IN /\ vm' = [vm EXCEPT ![a].pages = pages]
        /\ \/ n < size /\ Goto("vfree", a) /\ UNCHANGED <<vmPte, vmHeld, ret>>
           \/ n = size /\ vmPte' = PagesMapped(va[a].start, pages, size) /\ Return(a)
           \/ /\ n = size
              /\ \E j \in 0 .. size - 1 : vmPte' = PagesMapped(va[a].start, pages, j)
              /\ Goto("vfree", a) /\ UNCHANGED <<vmHeld, ret>>
  /\ UNCHANGED <<tree, va, vmap_area_list, vmlist, vmap_lazy_nr, vmap_area_pcpu_hole>>

(* vfree and free_vm_area, called with what the caller holds. *)
CallFree(a) ==
  /\ stack = <<>>
  /\ vmHeld' = vmHeld \ {a}
  /\ stack' = <<Frame("vfree", 0, a)>>
  /\ UNCHANGED <<areaVars, vmPte, ret>>

(* __vunmap and free_vm_area: the area is removed first. *)
Unmap ==
  /\ Doing("vfree")
  /\ RemoveArea(Head(stack).area)
  /\ IF TooLazy(Head(stack).area) THEN Stop
     ELSE Goto("free_pages", Head(stack).area) /\ UNCHANGED <<vmHeld, ret>>
  /\ UNCHANGED vm

(* Mutant: the array is not freed. *)
KeepArray(a) == Return(NULL)

(* kfree of the array, or a nested vfree of it. *)
FreeArray(a) ==
  IF vm[a].array = NULL THEN Return(NULL)
  ELSE stack' = <<Frame("vfree", 0, vm[a].array)>> \o Tail(stack) /\ UNCHANGED <<vmHeld, ret>>

(* The rest of __vunmap: the pages, the array, the vm_struct. *)
FreePages ==
  /\ Doing("free_pages")
  /\ vm' = [vm EXCEPT ![Head(stack).area] = NoVm]
  /\ FreeArray(Head(stack).area)
  /\ UNCHANGED <<tree, va, vmap_area_list, vmlist, vmap_lazy_nr, vmap_area_pcpu_hole, vmPte>>

-----------------------------------------------------------------------------
(* Areas for percpu chunks, from the top down *)

PrevOf(a) == IF a = NULL THEN NULL ELSE RB!rb_prev(tree, a)

(* pvm_find_next_prev: the areas around the end of a range, <<next, prev>>. *)
NextPrev(end) ==
  LET Down[n \in VmAreas] ==
        LET c == IF end < va[n].end THEN tree.child[n]["left"]
                 ELSE IF end > va[n].end THEN tree.child[n]["right"] ELSE NULL
        IN IF c = NULL THEN n ELSE Down[c]
      a == Down[tree.root]
  IN IF va[a].end > end THEN <<a, RB!rb_prev(tree, a)>> ELSE <<RB!rb_next(tree, a), a>>

(* pvm_determine_end: the highest aligned end below next; prev, and with it
   next, go down until prev ends below it.                                 *)
DetermineEnd(next, prev) ==
  LET top  == AlignDown(WindowEnd, PcpuAlign)
      addr == IF next = NULL THEN top ELSE Min({AlignDown(va[next].start, PcpuAlign), top})
      Down[n \in VmAreas \cup {NULL}, p \in VmAreas \cup {NULL}] ==
        IF p = NULL \/ va[p].end <= addr THEN <<addr, n, p>>
        ELSE Down[p, RB!rb_prev(tree, p)]
  IN Down[next, prev]

(* The scan of pcpu_get_vm_areas for one area: its base, below the start of the
   address space when there is none.                                       *)
ScanDown(size) ==
  LET Go[end \in Int, next \in VmAreas \cup {NULL}, prev \in VmAreas \cup {NULL}] ==
        LET base == end - size
            lower == DetermineEnd(next, prev)
            below == DetermineEnd(prev, PrevOf(prev))
        IN IF base < ALIGN(WindowStart, PcpuAlign) THEN base
           ELSE IF next # NULL /\ va[next].start < end THEN Go[lower[1], lower[2], lower[3]]
           ELSE IF prev # NULL /\ va[prev].end > base THEN Go[below[1], below[2], below[3]]
           ELSE base
      around == NextPrev(vmap_area_pcpu_hole)
      first  == DetermineEnd(around[1], around[2])
  IN IF tree.root = NULL THEN AlignDown(WindowEnd, PcpuAlign) - size
     ELSE Go[first[1], first[2], first[3]]

NoRoom(size) == ScanDown(size) < ALIGN(WindowStart, PcpuAlign)

(* pcpu_get_vm_areas for a chunk of one unit. *)
CallPcpuGetVmAreas(size) ==
  /\ stack = <<>>
  /\ stack' = <<Frame("pcpu", size, NULL)>>
  /\ UNCHANGED <<areaVars, vmPte, vmHeld, ret>>

(* kzalloc fails, or there is no room even after the purge. *)
PcpuRefused ==
  /\ \/ Doing("pcpu")
     \/ Doing("pcpu_purged") /\ NoRoom(Head(stack).size)
  /\ Return(NULL)
  /\ UNCHANGED <<areaVars, vmPte>>

PcpuPlaced ==
  /\ Doing("pcpu") \/ Doing("pcpu_purged")
  /\ ~NoRoom(Head(stack).size)
  /\ LET size == Head(stack).size
         base == ScanDown(size)
     IN /\ AddArea(base, base + size, "pcpu")
        /\ vmap_area_pcpu_hole' = base
        /\ Return(base)
  /\ UNCHANGED <<vmap_lazy_nr, vmPte>>

(* No room: purge, once.  purge_fragmented_blocks walks the queue behind a
   pointer nobody has set: it may find it empty, or never come back.       *)
PcpuPurges ==
  /\ Doing("pcpu")
  /\ NoRoom(Head(stack).size)
  /\ \/ Purge /\ Goto("pcpu_purged", NULL) /\ UNCHANGED <<vmHeld, ret>>
     \/ Stop /\ UNCHANGED <<tree, vmap_area_list, va, vmap_lazy_nr, vmap_area_pcpu_hole>>
  /\ UNCHANGED <<vm, vmlist, vmPte>>

-----------------------------------------------------------------------------
VmallocCall ==
  \/ \E n \in VmallocSizes : CallVmalloc(n)
  \/ \E n \in IoSizes : CallGetVmArea(n)
  \/ \E n \in PcpuSizes : CallPcpuGetVmAreas(n)
  \/ \E a \in vmHeld : CallFree(a)

VmallocWork ==
  \/ NoStructure \/ GetArea \/ GetArray \/ GotArray \/ NoArray \/ GetPages
  \/ Unmap \/ FreePages
  \/ PcpuRefused \/ PcpuPlaced \/ PcpuPurges

VmallocNext == VmallocCall \/ VmallocWork

VmallocSpec == VmallocInit /\ [][VmallocNext]_vmallocVars

-----------------------------------------------------------------------------
(* Reading and writing through vmlist *)

Addr(a) == va[a].start
Readable(a) == Addr(a) .. va[a].end - 2

(* Mutant: crossing a hole adds to what is left to read. *)
LeftGrows(left, hole) == left + hole

LeftAfterHole(left, hole) == left - hole

WrittenAfterHole(left, hole) == left + hole

(* The frames behind n addresses from x, and those of them that are written. *)
aligned_vread(x, n)  == [j \in 1 .. n |-> vmPte[x + j - 1]]
aligned_vwrite(x, n) == {y \in x .. x + n - 1 : vmPte[y] # NULL}

(* vread(buf, addr, count), a page standing for a byte: for each address in turn the frame it is copied
   from, NULL for a byte of zeros; <<>> when it returns 0.  From the first
   area that reaches beyond addr: the hole before it, then the area.       *)
vread(addr, count) ==
  LET Walk[i \in 1 .. Len(vmlist) + 1, x \in Nat, left \in Nat, buf \in Seq(Frames \cup {NULL})] ==
        IF i > Len(vmlist) \/ left = 0 THEN buf
        ELSE LET a    == vmlist[i]
                 hole == Min({left, Max({0, Addr(a) - x})})
                 n    == Min({LeftAfterHole(left, hole), va[a].end - 1 - (x + hole)})
                 copy == IF vm[a].kind = "ioremap" THEN [j \in 1 .. n |-> NULL]
                         ELSE aligned_vread(x + hole, n)
             IN IF x >= va[a].end - 1 THEN Walk[i + 1, x, left, buf]
                ELSE Walk[i + 1, x + hole + n, LeftAfterHole(left, hole) - n,
                          buf \o [j \in 1 .. hole |-> NULL] \o copy]
      buf == Walk[1, addr, count, <<>>]
  IN IF buf = <<>> THEN <<>> ELSE buf \o [j \in 1 .. count - Len(buf) |-> NULL]

(* vwrite(buf, addr, count): for each address written, the place in buf its
   content comes from, and what is returned.  Crossing a hole raises count where it
   should lower it, and no end inside a hole is noticed.                   *)
vwrite(addr, count) ==
  LET Walk[i \in 1 .. Len(vmlist) + 1, x \in Nat, left \in Nat, done \in SUBSET (Nat \X Nat),
           copied \in BOOLEAN] ==
        IF i > Len(vmlist) \/ left = 0
        THEN [done |-> done, ret |-> IF copied THEN count ELSE 0]
        ELSE LET a    == vmlist[i]
                 hole == Max({0, Addr(a) - x})
                 n    == Min({WrittenAfterHole(left, hole), va[a].end - 1 - (x + hole)})
                 rest == WrittenAfterHole(left, hole) - n
             IN IF x >= va[a].end - 1 THEN Walk[i + 1, x, left, done, copied]
                ELSE IF vm[a].kind = "ioremap" THEN Walk[i + 1, x + hole + n, rest, done, copied]
                ELSE Walk[i + 1, x + hole + n, rest,
                          done \cup {<<y, y - addr>> : y \in aligned_vwrite(x + hole, n)}, TRUE]
  IN Walk[1, addr, count, {}, FALSE]

-----------------------------------------------------------------------------
(* Properties *)

TypeOK ==
  /\ tree \in RB!Tree
  /\ \A a \in VmAreas : va[a].start \in Nat /\ va[a].end \in Nat /\ va[a].lazy \in BOOLEAN
  /\ vmap_lazy_nr \in Nat
  /\ vmap_area_pcpu_hole \in WindowStart .. WindowEnd
  /\ vmPte \in [VmallocSpace -> Frames \cup {NULL}]
  /\ vmHeld \subseteq VmAreas
  /\ ret \in VmAreas \cup {NULL}

(* The tree is a red-black tree over the areas, the list has them in the
   tree's order, and they are disjoint in address order.                   *)
TreeOrdered ==
  /\ RB!RedBlack(tree)
  /\ RB!InTree(tree) = InUse
  /\ RB!InOrder(tree) = vmap_area_list
  /\ \A i \in 1 .. Len(vmap_area_list) - 1 :
       va[vmap_area_list[i]].end <= va[vmap_area_list[i + 1]].start

(* vmlist has the areas that are not lazily free, in the same order, and
   vmap_lazy_nr counts the pages of the others.                            *)
ListsAgree ==
  /\ vmlist = SelectSeq(vmap_area_list, LAMBDA a : a \in Live)
  /\ vmap_lazy_nr = FoldSet(LAMBDA a, n : n + SizeOf(a), 0, Lazy)

(* The tree, the list, vmlist and the lazy count (alloc_vmap_area,
   insert_vmalloc_vm, remove_vm_area, __purge_vmap_area_lazy) describe one set
   of disjoint areas, at every step of every call.                         *)
AreasConsistent == TypeOK /\ TreeOrdered /\ ListsAgree

Stopped == Doing("stopped")

(* The page table maps the pages of each live block in order at its addresses
   and nothing else (guard pages, I/O areas and freed ranges are unmapped);
   no page belongs to two blocks; and once no call is in progress every
   vm_struct, page and array belongs to something a caller holds, whatever
   failed on the way.                                                      *)
MappingExact ==
  /\ \A x \in VmallocSpace : vmPte[x] # NULL =>
       \E a \in Live : LET i == x - Addr(a) + 1
                       IN i \in DOMAIN vm[a].pages /\ vm[a].pages[i] = vmPte[x]
  /\ \A a, b \in VmAreas : a # b => ToSet(vm[a].pages) \cap ToSet(vm[b].pages) = {}
  /\ stack = <<>> =>
       /\ {a \in VmAreas : vm[a] # NoVm} = vmHeld \cup ({vm[a].array : a \in vmHeld} \ {NULL})
       /\ \A a \in vmHeld : vm[a].kind = "alloc" =>
            /\ Len(vm[a].pages) = SizeOf(a) - 1
            /\ \A i \in DOMAIN vm[a].pages : vmPte[Addr(a) + i - 1] = vm[a].pages[i]

(* A place of the given size that alloc_vmap_area may give out: free, with a
   page between it and the area below.                                     *)
Fits(s, size, align) ==
  /\ s % align = 0 /\ s >= WindowStart /\ s + size <= WindowEnd
  /\ \A a \in InUse : s > va[a].end \/ s + size <= va[a].start

FitsPcpu(s, size) ==
  /\ s % PcpuAlign = 0 /\ s >= WindowStart /\ s + size <= WindowEnd
  /\ \A a \in InUse : s >= va[a].end \/ s + size <= va[a].start

(* What an area gets: the lowest place there is for vmalloc, the highest for a
   percpu chunk.                                                           *)
PlacedRight(a) ==
  LET start == va'[a].start
      size  == va'[a].end - start
      align == IF Doing("get_io_area") THEN IoAlign(size - 1) ELSE 1
  IN IF vm'[a].kind = "pcpu"
     THEN FitsPcpu(start, size) /\ \A s \in start + 1 .. WindowEnd : ~FitsPcpu(s, size)
     ELSE Fits(start, size, align) /\ \A s \in WindowStart .. start - 1 : ~Fits(s, size, align)

(* The walks down the tree that start a search in the middle (alloc_vmap_area,
   pvm_find_next_prev from the cached hole) miss no place: every area is the
   lowest, or for percpu the highest, that fits, and the machine stops for want
   of address space, or a chunk is refused after the purge, only when none fits. *)
PlacementExact ==
  [][/\ \A a \in VmAreas : va[a] = NoArea /\ va'[a] # NoArea => PlacedRight(a)
     /\ Doing("get_area") /\ Stopped' =>
          \A s \in VmallocSpace : ~Fits(s, Head(stack).size + 1, 1)
     /\ Doing("pcpu_purged") /\ stack' = <<>> /\ vmHeld' = vmHeld =>
          \A s \in VmallocSpace : ~FitsPcpu(s, Head(stack).size)]_vmallocVars

Span(x, n) == x .. x + n - 1

(* The address belongs to a live area, its guard page apart. *)
Alive(x) == \E a \in Live : x \in Readable(a)

(* What a read takes from there is memory: an I/O area counts as a hole. *)
Mem(x) == \E a \in Live : x \in Readable(a) /\ vm[a].kind # "ioremap"

(* vread and vwrite come to an area that ends beyond x. *)
AreaAhead(x) == \E a \in Live : x < va[a].end - 1

(* What is mapped at the addresses of a range, with their places in the buffer. *)
Places(addresses, x) == {<<y, y - x>> : y \in {z \in addresses \cap VmallocSpace : vmPte[z] # NULL}}

(* Where a range meets a live area, vread gives at each address what is mapped
   there, and zeros in holes, guard pages and I/O areas.  vwrite puts what belongs to
   a mapped address of the range there, and at no address what belongs to another
   one; inside one area it stops with the range.  With no area ahead both do nothing
   and return 0.  What the comments promise beyond this the code does not do:
   nothing is said of a range in the hole below an area (HolesAreEmpty), and vwrite ends
   behind its range where there is a hole in it.                           *)
ReadsExact ==
  stack = <<>> => \A x \in VmallocSpace, n \in Reads :
    LET w == vwrite(x, n)
    IN /\ (\E y \in Span(x, n) : Alive(y)) =>
            vread(x, n) = [j \in 1 .. n |-> IF Mem(x + j - 1) THEN vmPte[x + j - 1] ELSE NULL]
       /\ Places(Span(x, n), x) \subseteq w.done /\ w.done \subseteq Places(VmallocSpace, x)
       /\ (\E a \in Live : Span(x, n) \subseteq Readable(a)) => w.done = Places(Span(x, n), x)
       /\ ~AreaAhead(x) => vread(x, n) = <<>> /\ w = [done |-> {}, ret |-> 0]

(* "If [addr...addr+count]doesn't includes any intersect with valid vmalloc area,
   returns 0", say the comments of vread and vwrite: such a range is not written to
   either.  The code looks at any area that ends beyond addr: vread fills the hole below
   it with zeros and returns the length, and vwrite, which counts up in the hole, goes on
   into the area and writes there what lies behind the caller's buffer.    *)
HolesAreEmpty ==
  stack = <<>> => \A x \in VmallocSpace, n \in Reads :
    (\A y \in Span(x, n) : ~Alive(y)) =>
      vread(x, n) = <<>> /\ vwrite(x, n) = [done |-> {}, ret |-> 0]
=============================================================================
