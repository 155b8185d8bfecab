----------------------------- MODULE PageAlloc -----------------------------
(***************************************************************************)
(* alloc_pages over the zones of the one node (mm/page_alloc.c): the walk  *)
(* along the zonelist, the watermark test, and the slow path.              *)
(*                                                                         *)
(* Below it a zone is a set of free blocks and one of pages on its per-cpu *)
(* lists, changed in one step; Buddy has those steps in detail, and the    *)
(* migrate types that decide which block or page is taken.                 *)
(* zone->watermark and zone->lowmem_reserve are never written, so every    *)
(* mark is 0 and ALLOC_HIGH and ALLOC_HARDER change nothing; reclaim,      *)
(* compaction and the OOM killer are compiled out.  zone_page_state has no *)
(* return statement, but in this build, which does not optimise, what it   *)
(* has read is still in the register its caller looks at.                  *)
(***************************************************************************)
EXTENDS Integers, FiniteSets, FiniteSetsExt

CONSTANTS
  MaxOrder,                 \* MAX_ORDER
  PAGE_ALLOC_COSTLY_ORDER,  \* orders above it are not retried
  ZonePages,                \* the page frames of each zone, by zone index
  PcpBatch, PcpHigh,        \* batch and high of the per-cpu lists
  Word                      \* ULONG_MAX + 1

Zones  == DOMAIN ZonePages
Orders == 0 .. MaxOrder - 1
Pages  == UNION {ZonePages[z] : z \in Zones}

ASSUME ZonesAssumption ==
  /\ MaxOrder \in Nat \ {0}
  /\ PAGE_ALLOC_COSTLY_ORDER \in Nat /\ PAGE_ALLOC_COSTLY_ORDER < MaxOrder
  /\ Zones \subseteq Nat /\ IsFiniteSet(Zones)
  /\ \A z \in Zones : ZonePages[z] \subseteq Nat /\ IsFiniteSet(ZonePages[z])
  /\ \A y, z \in Zones : y # z => ZonePages[y] \cap ZonePages[z] = {}
  /\ PcpBatch \in Nat \ {0} /\ PcpHigh \in Nat
  /\ PcpBatch = 1 \/ PcpBatch <= PcpHigh
  /\ Word \in Nat /\ Word > Cardinality(Pages) + 2 ^ MaxOrder + 1

VARIABLES
  free,   \* free[z]: the free blocks of zone z, as first page and order
  pcp,    \* pcp[z]: the pages on the per-cpu lists of zone z
  out,    \* the blocks callers hold
  req,    \* the request being served
  zone,   \* the zone the walk has reached, NoZone at its end
  pc      \* where __alloc_pages_nodemask is

vars == <<free, pcp, out, req, zone, pc>>

NoZone == -1

(* The flags callers combine: GFP_ATOMIC has none of these, GFP_KERNEL waits,
   slub and mempool add NORETRY.                                           *)
Gfp == {{}, {"WAIT"}, {"WAIT", "NORETRY"}}

NoRequest == [order |-> 0, high |-> 0, gfp |-> {}]

Block(b) == b[1] .. b[1] + 2 ^ b[2] - 1

-----------------------------------------------------------------------------
(* Zones *)

(* NR_FREE_PAGES *)
FreePages(F) == MapThenSumSet(LAMBDA b : 2 ^ b[2], F)

(* The first page of the block of order j that page p is in. *)
HeadOf(p, j) == p - (p % 2 ^ j)

(* Mutant: the buddy is always the block above. *)
BuddyAbove(p, j) == HeadOf(p, j) + 2 ^ j

(* The buddy of the block of order j that page p is in. *)
BuddyAt(p, j) ==
  IF HeadOf(p, j) = HeadOf(p, j + 1) THEN HeadOf(p, j) + 2 ^ j ELSE HeadOf(p, j) - 2 ^ j

(* The orders a freed block of order o can coalesce to. *)
Tops(o) == o .. MaxOrder - 1

(* __free_one_page: the block coalesces with its free buddies. *)
GiveBack(F, p, o) ==
  LET buddies(k) == {<<BuddyAt(p, j), j>> : j \in o .. k - 1}
      top == Max({k \in Tops(o) : buddies(k) \subseteq F})
  IN (F \ buddies(top)) \cup {<<HeadOf(p, top), top>>}

(* __rmqueue and expand: a block that is large enough, less its upper halves.
   Which one depends on migrate types, and is open here.                   *)
Takes(F, o) ==
  {<<b[1], (F \ {b}) \cup {<<b[1] + 2 ^ j, j>> : j \in o .. b[2] - 1}>> :
     b \in {c \in F : c[2] >= o}}

(* free_pcppages_bulk, and free_all_bootmem: pages given back one by one. *)
GiveBackAll(F, P) ==
  LET give[S \in SUBSET P] ==
        IF S = {} THEN F
        ELSE LET p == Max(S) IN GiveBack(give[S \ {p}], p, 0)
  IN give[P]

(* rmqueue_bulk: up to a batch of pages, fewer when there are no more. *)
BulkTakes(F) ==
  LET bulk[n \in 0 .. PcpBatch] ==
        IF n = 0 THEN {<<{}, F>>}
        ELSE UNION {IF r[2] = {} THEN {r}
                    ELSE {<<r[1] \cup {t[1]}, t[2]>> : t \in Takes(r[2], 0)} : r \in bulk[n - 1]}
  IN bulk[PcpBatch]

Init ==
  /\ free = [z \in Zones |-> GiveBackAll({}, ZonePages[z])]
  /\ pcp  = [z \in Zones |-> {}]
  /\ out  = {}
  /\ req  = NoRequest
  /\ zone = NoZone
  /\ pc   = "idle"

-----------------------------------------------------------------------------
(* The walk *)

(* Mutant: the zonelist is built from the lowest zone upwards. *)
FirstOfUpwards(S) == IF S = {} THEN NoZone ELSE Min(S)

(* build_zonelists_node puts the populated zones in falling order. *)
FirstOf(S) == IF S = {} THEN NoZone ELSE Max(S)

(* next_zones_zonelist passes over zones above high_zoneidx. *)
Allowed(z, high) == ZonePages[z] # {} /\ z <= high

FirstZone(high)   == FirstOf({z \in Zones : Allowed(z, high)})
NextZone(y, high) == FirstOf({z \in Zones : Allowed(z, high) /\ z < y})

(* Mutant: the request's own order counts as unavailable. *)
SmallerWithOwn(z, o) == FreePages({b \in free[z] : b[2] <= o})

(* The pages that become unavailable at order o. *)
Smaller(z, o) == FreePages({b \in free[z] : b[2] < o})

(* __zone_watermark_ok for a mark of 0.  The first comparison is with the
   unsigned lowmem_reserve, and so unsigned; the others are signed.        *)
zone_watermark_ok(z, order) ==
  LET free_pages == FreePages(free[z]) - (2 ^ order + 1)
  IN /\ free_pages % Word > 0
     /\ \A o \in 1 .. order : free_pages - Smaller(z, o) > 0

Walking == pc \in {"first", "min"}

(* __alloc_pages_nodemask: the first walk starts. *)
StartAlloc(order, high, gfp) ==
  /\ pc = "idle"
  /\ req'  = [order |-> order, high |-> high, gfp |-> gfp]
  /\ zone' = FirstZone(high)
  /\ pc'   = IF zone' = NoZone THEN "idle" ELSE "first"
  /\ UNCHANGED <<free, pcp, out>>

(* get_page_from_freelist tries a zone that passes the test. *)
TryThisZone ==
  /\ Walking
  /\ zone # NoZone
  /\ zone_watermark_ok(zone, req.order)
  /\ pc' = "idle"
  /\ UNCHANGED <<req, zone>>

(* buffered_rmqueue: a single page that is on the list of its type. *)
TakeListed ==
  /\ TryThisZone
  /\ req.order = 0
  /\ \E p \in pcp[zone] :
       /\ pcp' = [pcp EXCEPT ![zone] = @ \ {p}]
       /\ out' = out \cup {<<p, 0>>}
  /\ UNCHANGED free

(* buffered_rmqueue: the list of its type is empty, and is filled first. *)
TakeRefilled ==
  /\ TryThisZone
  /\ req.order = 0
  /\ \E r \in BulkTakes(free[zone]), p \in Pages :
       /\ p \in r[1]
       /\ free' = [free EXCEPT ![zone] = r[2]]
       /\ pcp'  = [pcp EXCEPT ![zone] = @ \cup (r[1] \ {p})]
       /\ out'  = out \cup {<<p, 0>>}

(* buffered_rmqueue: a block. *)
TakeBlock ==
  /\ TryThisZone
  /\ req.order > 0
  /\ \E t \in Takes(free[zone], req.order) :
       /\ free' = [free EXCEPT ![zone] = t[2]]
       /\ out'  = out \cup {<<t[1], req.order>>}
  /\ UNCHANGED pcp

TryZone == TakeListed \/ TakeRefilled \/ TakeBlock

(* this_zone_full: the zone fails the test, or has no block after all, and
   for a single page nothing on the list of its type.                      *)
SkipZone ==
  /\ Walking
  /\ zone # NoZone
  /\ ~zone_watermark_ok(zone, req.order) \/ Takes(free[zone], req.order) = {}
  /\ zone' = NextZone(zone, req.high)
  /\ UNCHANGED <<free, pcp, out, req, pc>>

-----------------------------------------------------------------------------
(* The slow path *)

(* __alloc_pages_slowpath: a second walk, with the lower mark, unless the
   order is beyond all free areas.                                         *)
SlowPath ==
  /\ pc = "first"
  /\ zone = NoZone
  /\ IF req.order >= MaxOrder
     THEN pc' = "idle" /\ UNCHANGED zone
     ELSE pc' = "min" /\ zone' = FirstZone(req.high)
  /\ UNCHANGED <<free, pcp, out, req>>

WalkFails ==
  /\ pc = "min"
  /\ zone = NoZone
  /\ pc' = "rebalance"
  /\ UNCHANGED <<free, pcp, out, req, zone>>

(* Mutant: __GFP_NORETRY is not looked at. *)
RetriesAll == req.order <= PAGE_ALLOC_COSTLY_ORDER

should_alloc_retry ==
  /\ "NORETRY" \notin req.gfp
  /\ req.order <= PAGE_ALLOC_COSTLY_ORDER

(* rebalance: nothing can be done for a request that may not wait, and there
   is no reclaim for one that may; it is given up or retried.              *)
Rebalance ==
  /\ pc = "rebalance"
  /\ pc' = IF "WAIT" \in req.gfp /\ should_alloc_retry THEN "retry" ELSE "idle"
  /\ UNCHANGED <<free, pcp, out, req, zone>>

(* goto rebalance, which is behind the walk. *)
Retry ==
  /\ pc = "retry"
  /\ pc' = "rebalance"
  /\ UNCHANGED <<free, pcp, out, req, zone>>

(* __free_pages of the last reference to a block: __free_pages_ok. *)
FreeBlock(b) ==
  /\ pc = "idle"
  /\ b \in out /\ b[2] > 0
  /\ out' = out \ {b}
  /\ \E z \in Zones :
       /\ b[1] \in ZonePages[z]
       /\ free' = [free EXCEPT ![z] = GiveBack(@, b[1], b[2])]
  /\ UNCHANGED <<pcp, req, zone, pc>>

(* free_hot_cold_page: a single page goes on a list, and at the high mark a
   batch of pages goes back.                                               *)
FreePage(p) ==
  /\ pc = "idle"
  /\ <<p, 0>> \in out
  /\ out' = out \ {<<p, 0>>}
  /\ \E z \in Zones :
       LET listed == pcp[z] \cup {p}
       IN /\ p \in ZonePages[z]
          /\ \E back \in SUBSET listed :
               /\ Cardinality(back) = IF Cardinality(listed) >= PcpHigh THEN PcpBatch ELSE 0
               /\ free' = [free EXCEPT ![z] = GiveBackAll(@, back)]
               /\ pcp'  = [pcp EXCEPT ![z] = listed \ back]
  /\ UNCHANGED <<req, zone, pc>>

-----------------------------------------------------------------------------
Call ==
  \/ \E order \in 0 .. MaxOrder, high \in Zones, gfp \in Gfp : StartAlloc(order, high, gfp)
  \/ \E b \in out : FreeBlock(b)
  \/ \E p \in Pages : FreePage(p)

Step == TryZone \/ SkipZone \/ SlowPath \/ WalkFails \/ Rebalance \/ Retry

Next == Call \/ Step

Spec == Init /\ [][Next]_vars

(* A call in progress runs on: there is one CPU and schedule() is empty. *)
FairSpec == Spec /\ WF_vars(Step)

-----------------------------------------------------------------------------
(* Properties *)

TypeOK ==
  /\ free \in [Zones -> SUBSET (Pages \X Orders)]
  /\ pcp \in [Zones -> SUBSET Pages]
  /\ out \subseteq Pages \X Orders
  /\ req \in [order : 0 .. MaxOrder, high : Zones \cup {0}, gfp : Gfp]
  /\ zone \in Zones \cup {NoZone}
  /\ pc \in {"idle", "first", "min", "rebalance", "retry"}

(* The blocks of a zone, free, listed or handed out, cover it without overlap,
   and no block goes back to another zone than it came from.               *)
ZonesTiled ==
  \A z \in Zones :
    LET taken  == {b \in out : b[1] \in ZonePages[z]}
        blocks == free[z] \cup taken \cup {<<p, 0>> : p \in pcp[z]}
    IN /\ UNION {Block(b) : b \in blocks} = ZonePages[z]
       /\ FreePages(free[z]) + FreePages(taken) + Cardinality(pcp[z]) = Cardinality(ZonePages[z])

(* The state of the walk has its types, and no step of it loses or doubles a page. *)
ZonesSound == TypeOK /\ ZonesTiled

(* A zone has room for an order if its blocks of at least that order hold
   more than one such block and a page.                                    *)
HasRoom(z, o) == FreePages({b \in free[z] : b[2] >= o}) > 2 ^ o + 1

(* A request gets its block from a zone it allows, and from a lower one only
   when the higher ones have no room: low memory is kept for those who need
   it, and __get_free_pages never gets a page without an address.          *)
ZonesInOrder ==
  [][\A b \in out' \ out :
       \E z \in Zones :
         /\ Block(b) \subseteq ZonePages[z]
         /\ z <= req.high
         /\ \A y \in Zones : z < y /\ y <= req.high => ~HasRoom(y, req.order)]_vars

(* A request is refused only when no zone it allows has room, and only if it
   may not be retried.                                                     *)
RefusesOnlyWhenShort ==
  [][pc # "idle" /\ pc' = "idle" /\ out' = out =>
       /\ \A z \in Zones : z <= req.high => ~HasRoom(z, req.order)
       /\ \/ "WAIT" \notin req.gfp
          \/ "NORETRY" \in req.gfp
          \/ req.order > PAGE_ALLOC_COSTLY_ORDER]_vars

(* A request that may not wait, or is not to be retried, is answered. *)
Retried == {"WAIT"} = req.gfp /\ req.order <= PAGE_ALLOC_COSTLY_ORDER

CallsReturn == (pc # "idle" /\ ~Retried) ~> (pc = "idle")

(* The watermark test answers yes only for a zone with free pages above the
   mark: never for one that has none.                                      *)
WatermarkMeansAbove ==
  Walking /\ zone # NoZone /\ zone_watermark_ok(zone, req.order) => FreePages(free[zone]) > 0

(* A request that should_alloc_retry lets retry tries the zones again. *)
RetryTries == (pc = "retry") ~> Walking

=============================================================================
