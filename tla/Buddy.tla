------------------------------- MODULE Buddy -------------------------------
(***************************************************************************)
(* The zoned buddy allocator of mm/page_alloc.c for one zone and the one   *)
(* configured CPU: the free areas, the per-cpu page lists in front of      *)
(* them, the pageblock migrate types and the page counters.                *)
(*                                                                         *)
(* The loops of the code (coalescing, splitting, refilling and draining    *)
(* the per-cpu lists) are steps of their own, sequenced by pc, so that an  *)
(* invariant also speaks of the states inside a handler.  A page's list    *)
(* linkage is the function lru: a struct page has a single lru field and   *)
(* so is on at most one list.  The order of the pages within a list is     *)
(* abstracted: where the code takes the head or the tail, any member may   *)
(* be taken.                                                               *)
(***************************************************************************)
EXTENDS Integers, FiniteSets

CONSTANTS
  MaxOrder,          \* MAX_ORDER: free areas exist for orders 0 .. MaxOrder-1
  Size,              \* Size[o] = 1 << o
  ZonePages,         \* the valid page frames whose struct page is in this zone
  zone_start_pfn,    \* zone->zone_start_pfn
  spanned_pages,     \* zone->spanned_pages
  PcpHigh,           \* pcp->high
  PcpBatch,          \* pcp->batch
  BootOrder,         \* ilog2(BITS_PER_LONG), the order of a bulk bootmem free
  AllocTypes,        \* the migrate types callers ask for
  MobilityDisabled,  \* page_group_by_mobility_disabled
  MaxCount           \* bound: references a page may collect

MIGRATE_UNMOVABLE   == 0
MIGRATE_RECLAIMABLE == 1
MIGRATE_MOVABLE     == 2
MIGRATE_PCPTYPES    == 3
MIGRATE_RESERVE     == 3

Types    == 0 .. MIGRATE_RESERVE
PcpTypes == 0 .. MIGRATE_PCPTYPES - 1
Orders   == 0 .. MaxOrder - 1

ASSUME OrderAssumption == MaxOrder \in Nat /\ MaxOrder > 1 /\ BootOrder \in Orders

(* 1 << o, for the orders in use. *)
ASSUME SizeAssumption ==
  /\ Size \in [0 .. MaxOrder -> Nat \ {0}]
  /\ Size[0] = 1
  /\ \A o \in Orders : Size[o + 1] = 2 * Size[o]

ASSUME ZoneAssumption ==
  /\ zone_start_pfn \in Nat
  /\ spanned_pages \in Nat \ {0}
  /\ ZonePages \subseteq zone_start_pfn .. zone_start_pfn + spanned_pages - 1

(* setup_pageset makes high six batches, and batch at least one: both marks
   come from zone_batchsize, one less than a power of two and so never two.
   For a small zone, and for the boot pageset, it is zero.                 *)
ASSUME PcpAssumption ==
  /\ PcpBatch \in Nat \ {0, 2}
  /\ \/ PcpHigh = 6 * PcpBatch
     \/ PcpHigh = 0 /\ PcpBatch = 1

(* allocflags_to_migratetype: without mobility grouping every request is
   unmovable.                                                              *)
ASSUME CallerAssumption ==
  /\ AllocTypes \subseteq PcpTypes
  /\ MobilityDisabled \in BOOLEAN
  /\ MobilityDisabled => AllocTypes \subseteq {MIGRATE_UNMOVABLE}
  /\ MaxCount \in Nat \ {0}

VARIABLES
  lru,            \* the list each page is linked on
  buddy,          \* the pages with PageBuddy set (_mapcount = -2)
  private,        \* page_private: an order, or a migrate type on a pcp list
  count,          \* page->_count
  reserved,       \* the pages with PG_reserved, not yet freed by bootmem
  held,           \* head of a block its caller holds |-> its order, else NotHead
  pageblock,      \* zone->pageblock_flags: migrate type of each pageblock
  nr_free,        \* zone->free_area[order].nr_free
  nr_free_pages,  \* the zone's NR_FREE_PAGES
  pcp_count,      \* pcp->count
  pc,             \* where the CPU is
  blk,            \* the block being coalesced or split
  bulk            \* the locals of rmqueue_bulk and free_pcppages_bulk

pageVars == <<lru, buddy, private>>
callVars == <<count, reserved, held>>
vars == <<lru, buddy, private, count, reserved, held, pageblock, nr_free,
          nr_free_pages, pcp_count, pc, blk, bulk>>

-----------------------------------------------------------------------------
(* Blocks *)

NotHead == -1

(* The pages of the block of order o at p. *)
Block(p, o) == p .. p + Size[o] - 1

Aligned(p, o) == p % Size[o] = 0

(* Mutant: the buddy is always the block above. *)
BuddyAbove(p, o) == p + Size[o]

(* __find_buddy_index, page_idx ^ (1 << order), for an index aligned to its
   order: the exclusive or adds the bit where it is clear.                 *)
BuddyOf(p, o) == IF Aligned(p, o + 1) THEN p + Size[o] ELSE p - Size[o]

PageblockOrder == MaxOrder - 1
NrPageblocks   == (spanned_pages + Size[PageblockOrder] - 1) \div Size[PageblockOrder]
BitIdx(p)      == (p - zone_start_pfn) \div Size[PageblockOrder]

(* What lru[p] can be. *)
NoList         == [kind |-> "none", order |-> 0, mt |-> 0]
FreeList(o, t) == [kind |-> "free", order |-> o, mt |-> t]
PcpList(t)     == [kind |-> "pcp",  order |-> 0, mt |-> t]
Lists == [kind : {"none", "free", "pcp"}, order : Orders, mt : Types]

OnFree(o, t) == {p \in ZonePages : lru[p] = FreeList(o, t)}
OnPcp(t)     == {p \in ZonePages : lru[p] = PcpList(t)}

NoBlk  == [page |-> 0, order |-> 0, low |-> 0, mt |-> 0, from |-> "none"]
NoBulk == [todo |-> 0, done |-> 0, mt |-> 0, credit |-> 0]

PCs == {"idle", "merge", "expand", "fill", "drain"}

-----------------------------------------------------------------------------
(* set_pageblock_migratetype *)
SetPageblock(p, t) ==
  [pageblock EXCEPT ![BitIdx(p)] = IF MobilityDisabled THEN MIGRATE_UNMOVABLE ELSE t]

(* memmap_init_zone makes a pageblock movable at its first, aligned page; a
   bit no such page maps to keeps the zeroes of alloc_bootmem_node.        *)
InitialPageblock(b) ==
  IF \E p \in zone_start_pfn .. zone_start_pfn + spanned_pages - 1 :
       Aligned(p, PageblockOrder) /\ BitIdx(p) = b
  THEN MIGRATE_MOVABLE
  ELSE MIGRATE_UNMOVABLE

(* memmap_init_zone and zone_init_free_lists: every page reserved with one
   reference, every list empty.                                            *)
Init ==
  /\ lru           = [p \in ZonePages |-> NoList]
  /\ buddy         = {}
  /\ private       = [p \in ZonePages |-> 0]
  /\ count         = [p \in ZonePages |-> 1]
  /\ reserved      = ZonePages
  /\ held          = [p \in ZonePages |-> NotHead]
  /\ pageblock     = [b \in 0 .. NrPageblocks - 1 |-> InitialPageblock(b)]
  /\ nr_free       = [o \in Orders |-> 0]
  /\ nr_free_pages = 0
  /\ pcp_count     = 0
  /\ pc            = "idle"
  /\ blk           = NoBlk
  /\ bulk          = NoBulk

-----------------------------------------------------------------------------
(* Freeing *)

(* Entry of __free_one_page for the block of order o at p. *)
StartMerge(p, o, t, from) ==
  /\ pc'  = "merge"
  /\ blk' = [page |-> p, order |-> o, low |-> o, mt |-> t, from |-> from]

(* Mutant: page_is_buddy without its check of the order. *)
BuddyOfAnyOrder(p, o) ==
  BuddyOf(p, o) \in ZonePages /\ BuddyOf(p, o) \in buddy

(* page_is_buddy: in the zone, in the buddy system, and of this order. *)
BuddyIsFree(p, o) ==
  LET b == BuddyOf(p, o)
  IN b \in ZonePages /\ b \in buddy /\ private[b] = o

(* Mutant: coalescing stops one order short. *)
CanMergeOneShort == blk.order < MaxOrder - 2 /\ BuddyIsFree(blk.page, blk.order)

CanMerge == blk.order < MaxOrder - 1 /\ BuddyIsFree(blk.page, blk.order)

(* One turn of the loop of __free_one_page: unlink the free buddy and go on
   with the block the two make up.                                         *)
Merge ==
  /\ pc = "merge"
  /\ CanMerge
  /\ LET o == blk.order
         b == BuddyOf(blk.page, o)
     IN /\ lru'     = [lru EXCEPT ![b] = NoList]
        /\ buddy'   = buddy \ {b}
        /\ private' = [private EXCEPT ![b] = 0]
        /\ nr_free' = [nr_free EXCEPT ![o] = @ - 1]
        /\ blk'     = [blk EXCEPT !.page  = IF b < blk.page THEN b ELSE blk.page,
                                  !.order = o + 1]
  /\ UNCHANGED <<callVars, pageblock, nr_free_pages, pcp_count, pc, bulk>>

(* Mutant: the buddies the block coalesced with are counted again. *)
FreedPagesMerged == Size[blk.order]

(* What free_one_page adds to NR_FREE_PAGES: the order is the one on entry. *)
FreedPages == Size[blk.low]

(* The rest of __free_one_page, and its caller's part after it: free_one_page
   accounts for the block and returns, free_pcppages_bulk goes on.         *)
Place ==
  /\ pc = "merge"
  /\ ~CanMerge
  /\ lru'     = [lru EXCEPT ![blk.page] = FreeList(blk.order, blk.mt)]
  /\ buddy'   = buddy \cup {blk.page}
  /\ private' = [private EXCEPT ![blk.page] = blk.order]
  /\ nr_free' = [nr_free EXCEPT ![blk.order] = @ + 1]
  /\ \/ /\ blk.from = "drain"
        /\ pc' = "drain"
        /\ UNCHANGED nr_free_pages
     \/ /\ blk.from = "free"
        /\ pc' = "idle"
        /\ nr_free_pages' = nr_free_pages + FreedPages
  /\ blk' = NoBlk
  /\ UNCHANGED <<callVars, pageblock, pcp_count, bulk>>

(* free_pcppages_bulk takes its next page: it stays on the current list while
   it has credit and the list is not empty, else it moves round robin to the
   next list with pages, gaining one credit for every list it visits.      *)
NextPcpList(t, turns) ==
  LET at(k) == (bulk.mt + k) % MIGRATE_PCPTYPES
  IN IF bulk.credit > 0 /\ OnPcp(bulk.mt) # {}
     THEN turns = 0 /\ t = bulk.mt
     ELSE /\ turns \in 1 .. MIGRATE_PCPTYPES
          /\ t = at(turns)
          /\ OnPcp(t) # {}
          /\ \A k \in 1 .. turns - 1 : OnPcp(at(k)) = {}

DrainOne ==
  /\ pc = "drain"
  /\ bulk.todo > 0
  /\ \E turns \in 0 .. MIGRATE_PCPTYPES, t \in PcpTypes :
       /\ NextPcpList(t, turns)
       /\ \E p \in OnPcp(t) :
            /\ lru' = [lru EXCEPT ![p] = NoList]
            /\ StartMerge(p, 0, private[p], "drain")
       /\ bulk' = [bulk EXCEPT !.todo = @ - 1, !.done = @ + 1, !.mt = t,
                               !.credit = @ + turns - 1]
  /\ UNCHANGED <<buddy, private, callVars, pageblock, nr_free, nr_free_pages,
                 pcp_count>>

(* The end of free_pcppages_bulk and of free_hot_cold_page. *)
DrainEnd ==
  /\ pc = "drain"
  /\ bulk.todo = 0
  /\ nr_free_pages' = nr_free_pages + bulk.done
  /\ pcp_count' = pcp_count - PcpBatch
  /\ bulk' = NoBulk
  /\ pc' = "idle"
  /\ UNCHANGED <<pageVars, callVars, pageblock, nr_free, blk>>

(* Mutant: as many pages as the high mark are drained. *)
DrainHigh == [todo |-> PcpHigh, done |-> 0, mt |-> 0, credit |-> 0]

(* The locals of free_pcppages_bulk, asked to free a batch. *)
DrainBatch == [todo |-> PcpBatch, done |-> 0, mt |-> 0, credit |-> 0]

AtHighMark(n) == n >= PcpHigh

(* free_hot_cold_page: the page goes on the pcp list of its pageblock's type,
   RESERVE counting as MOVABLE; at the high mark a batch is drained.       *)
FreeHotColdPage(p) ==
  LET mt == pageblock[BitIdx(p)]
      t  == IF mt >= MIGRATE_PCPTYPES THEN MIGRATE_MOVABLE ELSE mt
  IN /\ private'   = [private EXCEPT ![p] = mt]
     /\ lru'       = [lru EXCEPT ![p] = PcpList(t)]
     /\ pcp_count' = pcp_count + 1
     /\ IF AtHighMark(pcp_count + 1)
        THEN /\ pc'   = "drain"
             /\ bulk' = DrainBatch
        ELSE UNCHANGED <<pc, bulk>>
     /\ UNCHANGED <<buddy, blk>>

(* What __free_pages does once the last reference is gone. *)
Release(p, o) ==
  IF o = 0
  THEN FreeHotColdPage(p)
  ELSE /\ StartMerge(p, o, pageblock[BitIdx(p)], "free")
       /\ UNCHANGED <<pageVars, pcp_count, bulk>>

(* __free_pages_bootmem, for one page or for a whole word of the bitmap. *)
FreePagesBootmem(p, o) ==
  /\ pc = "idle"
  /\ Aligned(p, o)
  /\ Block(p, o) \subseteq reserved
  /\ reserved' = reserved \ Block(p, o)
  /\ count' = [q \in ZonePages |-> IF q \in Block(p, o) THEN 0 ELSE count[q]]
  /\ Release(p, o)
  /\ UNCHANGED <<held, pageblock, nr_free, nr_free_pages>>

(* put_page_testzero: this was the last reference. *)
LastReference(p) == count[p] = 1

(* __free_pages by the holder of one of the references to a block. *)
FreePages(p) ==
  /\ pc = "idle"
  /\ held[p] # NotHead
  /\ count' = [count EXCEPT ![p] = @ - 1]
  /\ IF LastReference(p)
     THEN held' = [held EXCEPT ![p] = NotHead] /\ Release(p, held[p])
     ELSE UNCHANGED <<held, pageVars, pcp_count, pc, blk, bulk>>
  /\ UNCHANGED <<reserved, pageblock, nr_free, nr_free_pages>>

(* get_page by a second user of a block. *)
GetPage(p) ==
  /\ pc = "idle"
  /\ held[p] # NotHead
  /\ count[p] < MaxCount
  /\ count' = [count EXCEPT ![p] = @ + 1]
  /\ UNCHANGED <<pageVars, reserved, held, pageblock, nr_free, nr_free_pages,
                 pcp_count, pc, blk, bulk>>

-----------------------------------------------------------------------------
(* Allocating *)

(* The fallback table.  MIGRATE_TYPES is 5, so each row of four has a fourth
   entry that its initialiser leaves zero: MIGRATE_UNMOVABLE.              *)
fallbacks ==
  [t \in Types |->
     CASE t = MIGRATE_UNMOVABLE ->
            <<MIGRATE_RECLAIMABLE, MIGRATE_MOVABLE, MIGRATE_RESERVE, MIGRATE_UNMOVABLE>>
       [] t = MIGRATE_RECLAIMABLE ->
            <<MIGRATE_UNMOVABLE, MIGRATE_MOVABLE, MIGRATE_RESERVE, MIGRATE_UNMOVABLE>>
       [] t = MIGRATE_MOVABLE ->
            <<MIGRATE_RECLAIMABLE, MIGRATE_UNMOVABLE, MIGRATE_RESERVE, MIGRATE_UNMOVABLE>>
       [] OTHER ->
            <<MIGRATE_RESERVE, MIGRATE_RESERVE, MIGRATE_RESERVE, MIGRATE_UNMOVABLE>>]

(* __rmqueue_smallest finds p, of order c, on the lists of type t. *)
SmallestFinds(o, t, c, p) ==
  /\ p \in OnFree(c, t)
  /\ \A d \in o .. c - 1 : OnFree(d, t) = {}

SmallestFails(o, t) == \A d \in o .. MaxOrder - 1 : OnFree(d, t) = {}

(* Mutant: only the first fallback is tried. *)
FallbackTypesFirst(t) == {fallbacks[t][1]}

FallbackTypes(t) == {fallbacks[t][i] : i \in 1 .. 4} \ {MIGRATE_RESERVE}

(* __rmqueue_fallback finds p, of order c, on the lists of type ft: the
   largest order first, and within it the first type of the fallback row.  *)
FallbackFinds(o, t, c, ft, p) ==
  /\ p \in OnFree(c, ft)
  /\ \A d \in c + 1 .. MaxOrder - 1, u \in FallbackTypes(t) : OnFree(d, u) = {}
  /\ \E i \in 1 .. 4 :
       /\ fallbacks[t][i] = ft
       /\ ft # MIGRATE_RESERVE
       /\ \A j \in 1 .. i - 1 :
            fallbacks[t][j] # MIGRATE_RESERVE => OnFree(c, fallbacks[t][j]) = {}

FallbackFails(o, t) ==
  \A d \in o .. MaxOrder - 1, u \in FallbackTypes(t) : OnFree(d, u) = {}

(* The free blocks move_freepages_block relinks for a page of a pageblock:
   those that start in the pageblock, none when it passes the zone's end.  *)
MovedBlocks(p) ==
  LET first == p - (p % Size[PageblockOrder])
      last  == first + Size[PageblockOrder] - 1
      start == IF first < zone_start_pfn THEN p ELSE first
  IN IF last >= zone_start_pfn + spanned_pages
     THEN {}
     ELSE {q \in ZonePages : start <= q /\ q <= last /\ q \in buddy}

PagesMoved(p) ==
  Cardinality({q \in ZonePages : \E h \in MovedBlocks(p) : q \in Block(h, private[h])})

(* A fallback takes over the pageblock's free blocks when the block it breaks
   is large, for reclaimable allocations, or without mobility grouping.    *)
TakesOver(c, t) ==
  \/ c >= PageblockOrder \div 2
  \/ t = MIGRATE_RECLAIMABLE
  \/ MobilityDisabled

FallbackPageblock(p, c, t) ==
  IF \/ c >= PageblockOrder
     \/ TakesOver(c, t) /\ (\/ 2 * PagesMoved(p) >= Size[PageblockOrder]
                            \/ MobilityDisabled)
  THEN SetPageblock(p, t)
  ELSE pageblock

FallbackLru(p, c, t) ==
  [q \in ZonePages |->
     IF q = p THEN NoList
     ELSE IF TakesOver(c, t) /\ q \in MovedBlocks(p) THEN FreeList(private[q], t)
     ELSE lru[q]]

(* list_del, rmv_page_order and nr_free-- for the block __rmqueue takes, and
   the start of expand, which splits the block down to order o.            *)
TakeOff(o, c, t, p, from) ==
  /\ buddy'   = buddy \ {p}
  /\ private' = [private EXCEPT ![p] = 0]
  /\ nr_free' = [nr_free EXCEPT ![c] = @ - 1]
  /\ pc'      = "expand"
  /\ blk'     = [page |-> p, order |-> c, low |-> o, mt |-> t, from |-> from]

(* __rmqueue: the smallest block of the wanted type, else a fallback, else the
   smallest block of the reserve.                                          *)
Rmqueue(o, t, from) ==
  \/ \E c \in o .. MaxOrder - 1, u \in {t, MIGRATE_RESERVE}, p \in ZonePages :
       /\ SmallestFinds(o, u, c, p)
       /\ u # t => SmallestFails(o, t) /\ FallbackFails(o, t)
       /\ lru' = [lru EXCEPT ![p] = NoList]
       /\ TakeOff(o, c, u, p, from)
       /\ UNCHANGED pageblock
  \/ \E c \in o .. MaxOrder - 1, ft \in Types, p \in ZonePages :
       /\ SmallestFails(o, t)
       /\ t # MIGRATE_RESERVE
       /\ FallbackFinds(o, t, c, ft, p)
       /\ lru' = FallbackLru(p, c, t)
       /\ pageblock' = FallbackPageblock(p, c, t)
       /\ TakeOff(o, c, IF TakesOver(c, t) THEN t ELSE ft, p, from)

RmqueueFails(o, t) ==
  /\ SmallestFails(o, t)
  /\ t # MIGRATE_RESERVE => FallbackFails(o, t) /\ SmallestFails(o, MIGRATE_RESERVE)

(* alloc_pages of one page, buffered_rmqueue taking it off the pcp list. *)
Hand(p, o) ==
  /\ held'  = [held EXCEPT ![p] = o]
  /\ count' = [count EXCEPT ![p] = 1]

AllocPcp(t) ==
  /\ pc = "idle"
  /\ \E p \in OnPcp(t) :
       /\ lru' = [lru EXCEPT ![p] = NoList]
       /\ private' = [private EXCEPT ![p] = 0]
       /\ Hand(p, 0)
  /\ pcp_count' = pcp_count - 1
  /\ UNCHANGED <<buddy, reserved, pageblock, nr_free, nr_free_pages, pc, blk, bulk>>

(* buffered_rmqueue on an empty pcp list: entry of rmqueue_bulk. *)
StartFill(t) ==
  /\ pc = "idle"
  /\ OnPcp(t) = {}
  /\ pc' = "fill"
  /\ bulk' = [todo |-> PcpBatch, done |-> 0, mt |-> t, credit |-> 0]
  /\ UNCHANGED <<pageVars, callVars, pageblock, nr_free, nr_free_pages,
                 pcp_count, blk>>

(* Mutant: the loop does not break off when no page is found. *)
FillRetries ==
  /\ pc = "fill"
  /\ bulk.todo > 0
  /\ \/ Rmqueue(0, bulk.mt, "fill") /\ UNCHANGED bulk
     \/ RmqueueFails(0, bulk.mt) /\ UNCHANGED <<pageVars, pageblock, nr_free, pc, blk, bulk>>
  /\ UNCHANGED <<callVars, nr_free_pages, pcp_count>>

(* One turn of the loop of rmqueue_bulk: take a page, or stop short. *)
Fill ==
  /\ pc = "fill"
  /\ bulk.todo > 0
  /\ \/ Rmqueue(0, bulk.mt, "fill") /\ UNCHANGED bulk
     \/ /\ RmqueueFails(0, bulk.mt)
        /\ bulk' = [bulk EXCEPT !.todo = 0]
        /\ UNCHANGED <<pageVars, pageblock, nr_free, pc, blk>>
  /\ UNCHANGED <<callVars, nr_free_pages, pcp_count>>

(* The end of rmqueue_bulk, and of buffered_rmqueue: no page at all is a
   failed allocation, otherwise one of the new pages is handed out.        *)
FillEnd ==
  /\ pc = "fill"
  /\ bulk.todo = 0
  /\ nr_free_pages' = nr_free_pages - bulk.done
  /\ \/ /\ OnPcp(bulk.mt) = {}
        /\ pcp_count' = pcp_count + bulk.done
        /\ UNCHANGED <<lru, private, held, count>>
     \/ \E p \in OnPcp(bulk.mt) :
        /\ lru' = [lru EXCEPT ![p] = NoList]
        /\ private' = [private EXCEPT ![p] = 0]
        /\ Hand(p, 0)
        /\ pcp_count' = pcp_count + bulk.done - 1
  /\ pc' = "idle"
  /\ bulk' = NoBulk
  /\ UNCHANGED <<buddy, reserved, pageblock, nr_free, blk>>

(* alloc_pages of a larger block.  When __rmqueue fails it returns NULL and
   changes nothing.                                                        *)
AllocBlock(o, t) ==
  /\ pc = "idle"
  /\ o > 0
  /\ Rmqueue(o, t, "alloc")
  /\ UNCHANGED <<callVars, nr_free_pages, pcp_count, bulk>>

(* One turn of the loop of expand: the upper half goes on a free list. *)
Expand ==
  /\ pc = "expand"
  /\ blk.order > blk.low
  /\ LET high  == blk.order - 1
         upper == blk.page + Size[high]
     IN /\ lru'     = [lru EXCEPT ![upper] = FreeList(high, blk.mt)]
        /\ buddy'   = buddy \cup {upper}
        /\ private' = [private EXCEPT ![upper] = high]
        /\ nr_free' = [nr_free EXCEPT ![high] = @ + 1]
        /\ blk'     = [blk EXCEPT !.order = high]
  /\ UNCHANGED <<callVars, pageblock, nr_free_pages, pcp_count, pc, bulk>>

(* expand is done: the block is linked on the pcp list being filled, or it is
   accounted for, prepared and handed to the caller.                       *)
Taken ==
  /\ pc = "expand"
  /\ blk.order = blk.low
  /\ \/ /\ blk.from = "fill"
        /\ lru' = [lru EXCEPT ![blk.page] = PcpList(bulk.mt)]
        /\ private' = [private EXCEPT ![blk.page] = bulk.mt]
        /\ bulk' = [bulk EXCEPT !.todo = @ - 1, !.done = @ + 1]
        /\ pc' = "fill"
        /\ UNCHANGED <<held, count, nr_free_pages>>
     \/ /\ blk.from = "alloc"
        /\ Hand(blk.page, blk.low)
        /\ nr_free_pages' = nr_free_pages - Size[blk.low]
        /\ pc' = "idle"
        /\ UNCHANGED <<lru, private, bulk>>
  /\ blk' = NoBlk
  /\ UNCHANGED <<buddy, reserved, pageblock, nr_free, pcp_count>>

-----------------------------------------------------------------------------
(* What callers do, and what the CPU then does until the call returns. *)
Call ==
  \/ \E p \in ZonePages, o \in {0, BootOrder} : FreePagesBootmem(p, o)
  \/ \E p \in ZonePages : FreePages(p) \/ GetPage(p)
  \/ \E t \in AllocTypes : AllocPcp(t) \/ StartFill(t)
  \/ \E o \in Orders, t \in AllocTypes : AllocBlock(o, t)

Step == Merge \/ Place \/ DrainOne \/ DrainEnd \/ Fill \/ FillEnd \/ Expand \/ Taken

Next == Call \/ Step

Spec == Init /\ [][Next]_vars

(* A call in progress runs on: interrupts are off and there is one CPU. *)
FairSpec == Spec /\ WF_vars(Step)

-----------------------------------------------------------------------------
(* Invariants *)

(* Every variable has its type. *)
TypeOK ==
  /\ lru \in [ZonePages -> Lists]
  /\ buddy \subseteq ZonePages
  /\ private \in [ZonePages -> Orders \cup Types]
  /\ count \in [ZonePages -> 0 .. MaxCount]
  /\ reserved \subseteq ZonePages
  /\ held \in [ZonePages -> Orders \cup {NotHead}]
  /\ pageblock \in [0 .. NrPageblocks - 1 -> Types]
  /\ nr_free \in [Orders -> Int]
  /\ nr_free_pages \in Int
  /\ pcp_count \in Int
  /\ pc \in PCs
  /\ blk \in [page : ZonePages \cup {0}, order : Orders, low : Orders, mt : Types,
              from : {"none", "free", "drain", "fill", "alloc"}]
  /\ bulk \in [todo : 0 .. PcpBatch, done : 0 .. PcpBatch, mt : PcpTypes, credit : Nat]

(* PageBuddy and page_private, which page_is_buddy and move_freepages trust,
   say of every page what the free lists say (set_page_order after list_add,
   rmv_page_order after list_del, on every path).                          *)
FlagsMatchLists ==
  \A p \in ZonePages :
    /\ p \in buddy <=> lru[p].kind = "free"
    /\ p \in buddy => private[p] = lru[p].order

(* The locals of the call in progress fit the place it has reached, and what
   free_pcppages_bulk will read from a pcp page's private is a migrate type. *)
LocalsFit ==
  /\ bulk.todo + bulk.done <= PcpBatch
  /\ pc \in {"merge", "expand"} => blk.page \in ZonePages /\ blk.low <= blk.order
  /\ pc = "merge" => blk.from \in {"free", "drain"}
  /\ pc = "expand" => \/ blk.from = "fill" /\ blk.low = 0 /\ bulk.todo > 0
                      \/ blk.from = "alloc"
  /\ \A p \in ZonePages : lru[p].kind = "pcp" => private[p] \in Types

(* The blocks the allocator or a caller owns.  The tag says who. *)
FreeExtents     == {<<"free", p, private[p]>> : p \in {q \in ZonePages : lru[q].kind = "free"}}
PcpExtents      == {<<"pcp", p, 0>> : p \in {q \in ZonePages : lru[q].kind = "pcp"}}
ReservedExtents == {<<"reserved", p, 0>> : p \in reserved}
HeldExtents     == {<<"held", p, held[p]>> : p \in {q \in ZonePages : held[q] # NotHead}}
InFlight        == IF pc \in {"merge", "expand"} THEN {<<"cpu", blk.page, blk.order>>} ELSE {}
Extents == FreeExtents \cup PcpExtents \cup ReservedExtents \cup HeldExtents \cup InFlight

Extent(e) == Block(e[2], e[3])

Disjoint(E) == \A e, f \in E : e # f => Extent(e) \cap Extent(f) = {}

(* No page is handed out twice, free twice, or free while in use: the free
   blocks, the pcp pages, the callers' blocks, the reserved pages and the
   block in the hands of __free_one_page or expand do not overlap.         *)
NoOverlap == Disjoint(Extents)

(* No page is lost: each belongs to one of those blocks. *)
NoLeak == \A p \in ZonePages : \E e \in Extents : p \in Extent(e)

(* Every block stays inside the zone's valid pages, at its alignment, so that
   coalescing never runs into a hole or over the end of the zone.          *)
InZone == \A e \in Extents : Extent(e) \subseteq ZonePages /\ Aligned(e[2], e[3])

(* Coalescing is complete: two buddies of the same order are never both free
   (__free_one_page goes on until the buddy is not free; expand never frees
   both halves).                                                           *)
Coalesced ==
  \A p \in buddy : private[p] < MaxOrder - 1 => ~BuddyIsFree(p, private[p])

(* No pageblock, and so no list a block or a page is ever put on, has the type
   RESERVE: every page that is free is where some request looks for it.    *)
KnownLists ==
  {NoList} \cup {FreeList(o, t) : o \in Orders, t \in PcpTypes} \cup {PcpList(t) : t \in PcpTypes}

KnownTypes ==
  /\ \A b \in DOMAIN pageblock : pageblock[b] \in PcpTypes
  /\ \A p \in ZonePages :
       /\ lru[p] \in KnownLists
       /\ lru[p].kind = "pcp" => private[p] \in PcpTypes
  /\ pc \in {"merge", "expand"} => blk.mt \in PcpTypes

(* nr_free of an area is the number of blocks on its lists, also in the middle
   of coalescing and splitting.                                            *)
NrFreeExact ==
  \A o \in Orders :
    nr_free[o] = Cardinality({p \in ZonePages : lru[p].kind = "free" /\ lru[p].order = o})

(* free_pcppages_bulk and rmqueue_bulk are at work; both account for their
   pages, bulk.done of them so far, only at their end.                     *)
Draining == pc = "drain" \/ (pc = "merge" /\ blk.from = "drain")
Filling  == pc = "fill" \/ (pc = "expand" /\ blk.from = "fill")

DrainedSoFar == IF Draining THEN bulk.done ELSE 0
FilledSoFar  == IF Filling THEN bulk.done ELSE 0

(* What __free_one_page will still add to NR_FREE_PAGES, and the pages of the
   block that it or expand has in hand, which is on no list.               *)
NotYetFreed == IF pc = "merge" /\ blk.from = "free" THEN Size[blk.low] ELSE 0
InHand      == IF pc \in {"merge", "expand"} THEN Size[blk.order] ELSE 0

(* Every counter is exact: nr_free at every step; NR_FREE_PAGES, the number of
   pages on the free lists, and pcp->count, the number of pages on the pcp
   lists, up to what the call in progress has yet to account for, and so
   exactly between calls.                                                  *)
CountersExact ==
  /\ NrFreeExact
  /\ nr_free_pages + DrainedSoFar + NotYetFreed =
       Cardinality(UNION {Extent(e) : e \in FreeExtents}) + InHand + FilledSoFar
  /\ pcp_count + FilledSoFar = Cardinality(PcpExtents) + DrainedSoFar
  /\ Draining => bulk.todo + bulk.done = PcpBatch

(* The round robin of free_pcppages_bulk, which spins over empty lists, always
   finds another page while it still has some to free.                     *)
DrainFindsPages == Draining => bulk.todo <= Cardinality(PcpExtents)

(* The most the pcp lists keep: below the high mark after a free, and then
   what a refill of each of the two other types adds before anything is freed
   again (with a high mark of 0 they keep nothing).                        *)
PcpMost == IF PcpHigh = 0 THEN 0 ELSE PcpHigh - 1 + 2 * (PcpBatch - 1)

PcpBounded == pc = "idle" => pcp_count <= PcpMost

(* A list weighs what it holds, or what its next refill would leave on it: no
   refill makes the lists heavier.  A free at the high mark can, by the page
   freed, until the round robin reaches a list that holds more than a refill
   leaves: it does so within one round, and a round is not longer than a batch. *)
NrOnPcp(t) == Cardinality(OnPcp(t))
Weight(n)  == IF n < PcpBatch - 1 THEN PcpBatch - 1 ELSE n
PcpWeight  == Weight(NrOnPcp(0)) + Weight(NrOnPcp(1)) + Weight(NrOnPcp(2))

PcpWeighed ==
  /\ ~Draining /\ ~Filling => PcpWeight <= PcpMost
  /\ Filling =>
       /\ NrOnPcp(bulk.mt) = bulk.done
       /\ PcpWeight <= PcpMost + (IF bulk.done = PcpBatch THEN 1 ELSE 0)
  /\ Draining =>
       /\ Cardinality(PcpExtents) + bulk.done <= PcpMost + 1
       /\ \/ PcpWeight <= PcpMost
          \/ /\ PcpWeight = PcpMost + 1
             /\ bulk.done + bulk.credit = bulk.mt
             /\ \A t \in 1 .. bulk.mt : NrOnPcp(t) < PcpBatch

(* The pcp lists are drained enough and not too far: free_pcppages_bulk is
   never told to free more than they have, and however frees and refills of
   all types alternate they do not grow without bound.  (That they stay below
   the high mark itself holds for a batch of one only.)                    *)
PcpFits == DrainFindsPages /\ PcpBounded /\ PcpWeighed

(* __rmqueue refuses a request only when every free area that could serve it
   is empty, whatever the migrate types of the blocks.                     *)
RefusesOnlyWhenEmpty ==
  /\ KnownTypes
  /\ \A o \in Orders, t \in AllocTypes :
       RmqueueFails(o, t) => \A c \in o .. MaxOrder - 1 : nr_free[c] = 0

(* A block with references left is held, and a held block has references: it
   cannot be freed under its second user, nor kept with none.              *)
HeldIffReferenced ==
  \A p \in ZonePages \ reserved : (held[p] # NotHead) <=> (count[p] > 0)

(* The allocator implements the abstract store of blocks: whatever splitting,
   coalescing, refilling and draining go on inside, its callers see blocks
   that are aligned, disjoint and theirs until the last reference is put.  *)
Ownership == INSTANCE PageOwnership WITH
  Pages    <- ZonePages,
  withheld <- reserved,
  holder   <- held,
  refs     <- [p \in ZonePages |-> IF held[p] = NotHead THEN 0 ELSE count[p]]

ImplementsOwnership == Ownership!Spec

(* The inductive invariant behind NoOverlap, NoLeak, InZone, Coalesced and the
   refinement.                                                             *)
IInv ==
  /\ TypeOK
  /\ LocalsFit
  /\ FlagsMatchLists
  /\ NoOverlap
  /\ NoLeak
  /\ InZone
  /\ Coalesced
  /\ HeldIffReferenced

(* Every call of the allocator returns. *)
CallsReturn == (pc # "idle") ~> (pc = "idle")

=============================================================================
