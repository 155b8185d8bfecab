--------------------------- MODULE BuddyCounters ---------------------------
(***************************************************************************)
(* Proofs about the counters of the buddy allocator: nr_free of every      *)
(* area, NR_FREE_PAGES and pcp->count are exact, the pcp lists are drained *)
(* neither too far nor too little, and a request is refused only when no   *)
(* area that could serve it has a block.                                   *)
(***************************************************************************)
EXTENDS BuddyProofs, FiniteSetTheorems, FunctionTheorems

-----------------------------------------------------------------------------
(* Counting pages and blocks *)

LEMMA ZoneFinite == IsFiniteSet(ZonePages)
<1>1. IsFiniteSet(zone_start_pfn .. zone_start_pfn + spanned_pages - 1)
  BY ZoneAssumption, FS_Interval
<1> QED
  BY <1>1, ZoneAssumption, FS_Subset

LEMMA PartsFinite ==
  ASSUME NEW S, S \subseteq ZonePages
  PROVE  IsFiniteSet(S) /\ Cardinality(S) \in Nat
BY ZoneFinite, FS_Subset, FS_CardinalityType

(* A block of order o has Size[o] pages. *)
LEMMA BlockPages ==
  ASSUME NEW p \in Nat, NEW o \in Orders
  PROVE  IsFiniteSet(Block(p, o)) /\ Cardinality(Block(p, o)) = Size[o]
<1>1. Size[o] \in Nat \ {0}
  BY OrdersBounded
<1>2. p + Size[o] - 1 \in Int
  BY <1>1
<1>3. /\ IsFiniteSet(p .. p + Size[o] - 1)
      /\ Cardinality(p .. p + Size[o] - 1) =
           IF p > p + Size[o] - 1 THEN 0 ELSE (p + Size[o] - 1) - p + 1
  BY <1>2, FS_Interval
<1> QED
  BY <1>1, <1>3 DEF Block

(* The pages of the blocks that start at the pages B and have the orders f. *)
PagesOf(B, f) == UNION {Block(q, f[q]) : q \in B}

(* The blocks among them of order o. *)
Area(B, f, o) == {q \in B : f[q] = o}

(* A block more, on none of those pages. *)
LEMMA PagesWithOneMore ==
  ASSUME NEW B, NEW f, NEW g, NEW p \in Nat, NEW o \in Orders,
         IsFiniteSet(PagesOf(B, f)),
         \A q \in B : g[q] = f[q],
         g[p] = o,
         Block(p, o) \cap PagesOf(B, f) = {}
  PROVE  /\ IsFiniteSet(PagesOf(B \cup {p}, g))
         /\ Cardinality(PagesOf(B \cup {p}, g)) = Cardinality(PagesOf(B, f)) + Size[o]
<1> DEFINE S == PagesOf(B, f)
           T == Block(p, o)
<1>1. PagesOf(B \cup {p}, g) = S \cup T
  BY DEF PagesOf
<1>2. IsFiniteSet(T) /\ Cardinality(T) = Size[o] /\ Size[o] \in Nat
  BY BlockPages, OrdersBounded
<1>3. S \cap T = {} /\ IsFiniteSet(S)
  OBVIOUS
<1> HIDE DEF S, T
<1>4. /\ IsFiniteSet(S \cup T)
      /\ Cardinality(S \cup T) = Cardinality(S) + Cardinality(T) - Cardinality(S \cap T)
  BY <1>2, <1>3, FS_Union
<1>5. Cardinality(S \cap T) = 0 /\ Cardinality(S) \in Nat
  BY <1>3, FS_EmptySet, FS_CardinalityType
<1>6. Cardinality(S \cup T) = Cardinality(S) + Size[o]
  BY <1>2, <1>4, <1>5
<1> QED
  BY <1>1, <1>4, <1>6 DEF S

(* A block less, which overlapped no other. *)
LEMMA PagesWithOneLess ==
  ASSUME NEW B, NEW C, NEW f, NEW g, NEW p \in Nat, NEW o \in Orders,
         p \in B, p \notin C, C \cup {p} = B, f[p] = o,
         IsFiniteSet(PagesOf(B, f)),
         \A q \in C : g[q] = f[q],
         \A q \in C : Block(q, f[q]) \cap Block(p, o) = {}
  PROVE  /\ IsFiniteSet(PagesOf(C, g))
         /\ Cardinality(PagesOf(C, g)) = Cardinality(PagesOf(B, f)) - Size[o]
<1>1. PagesOf(C, g) \subseteq PagesOf(B, f)
  BY DEF PagesOf
<1>2. IsFiniteSet(PagesOf(C, g)) /\ Cardinality(PagesOf(C, g)) \in Nat
  BY <1>1, FS_Subset, FS_CardinalityType
<1>3. Block(p, o) \cap PagesOf(C, g) = {}
  <2>1. \A q \in C : Block(q, g[q]) \cap Block(p, o) = {}
    OBVIOUS
  <2> QED
    BY <2>1 DEF PagesOf
<1>4. \A q \in C : f[q] = g[q]
  OBVIOUS
<1>5. Cardinality(PagesOf(C \cup {p}, f)) = Cardinality(PagesOf(C, g)) + Size[o]
  BY <1>2, <1>3, <1>4, PagesWithOneMore
<1>6. Cardinality(PagesOf(B, f)) = Cardinality(PagesOf(C, g)) + Size[o]
  BY <1>5
<1>7. Size[o] \in Nat
  BY OrdersBounded
<1> QED
  BY <1>2, <1>6, <1>7

(* nr_free of every area counts its blocks, one more and one less. *)
Counts(n, B, f) == \A o \in Orders : n[o] = Cardinality(Area(B, f, o))

LEMMA CountsOneMore ==
  ASSUME NEW B, NEW f, NEW g, NEW p, NEW o \in Orders, NEW n \in [Orders -> Int],
         B \subseteq ZonePages, p \notin B,
         Counts(n, B, f),
         \A q \in B : g[q] = f[q],
         g[p] = o
  PROVE  Counts([n EXCEPT ![o] = @ + 1], B \cup {p}, g)
<1> DEFINE m == [n EXCEPT ![o] = @ + 1]
<1>1. ASSUME NEW d \in Orders, d # o PROVE m[d] = Cardinality(Area(B \cup {p}, g, d))
  <2>1. Area(B \cup {p}, g, d) = Area(B, f, d)
    BY <1>1 DEF Area
  <2> QED
    BY <1>1, <2>1 DEF Counts
<1>2. m[o] = Cardinality(Area(B \cup {p}, g, o))
  <2> DEFINE A == Area(B, f, o)
  <2>1. Area(B \cup {p}, g, o) = A \cup {p} /\ p \notin A
    BY DEF Area
  <2>2. IsFiniteSet(A) /\ Cardinality(A) \in Nat
    BY PartsFinite DEF Area
  <2>3. n[o] = Cardinality(A)
    BY DEF Counts
  <2> HIDE DEF A
  <2>4. Cardinality(A \cup {p}) = Cardinality(A) + 1
    BY <2>1, <2>2, FS_AddElement
  <2> QED
    BY <2>1, <2>3, <2>4
<1> QED
  <2>1. \A d \in Orders : m[d] = Cardinality(Area(B \cup {p}, g, d))
    BY <1>1, <1>2
  <2> QED
    BY <2>1 DEF Counts

LEMMA CountsOneLess ==
  ASSUME NEW B, NEW f, NEW g, NEW p \in B, NEW o \in Orders, NEW n \in [Orders -> Int],
         B \subseteq ZonePages,
         Counts(n, B, f),
         \A q \in B : q # p => g[q] = f[q],
         f[p] = o
  PROVE  Counts([n EXCEPT ![o] = @ - 1], B \ {p}, g)
<1> DEFINE m == [n EXCEPT ![o] = @ - 1]
<1>1. ASSUME NEW d \in Orders, d # o PROVE m[d] = Cardinality(Area(B \ {p}, g, d))
  <2>1. Area(B \ {p}, g, d) = Area(B, f, d)
    BY <1>1 DEF Area
  <2> QED
    BY <1>1, <2>1 DEF Counts
<1>2. m[o] = Cardinality(Area(B \ {p}, g, o))
  <2> DEFINE A == Area(B, f, o)
  <2>1. Area(B \ {p}, g, o) = A \ {p} /\ p \in A
    BY DEF Area
  <2>2. IsFiniteSet(A) /\ Cardinality(A) \in Nat
    BY PartsFinite DEF Area
  <2>3. n[o] = Cardinality(A)
    BY DEF Counts
  <2> HIDE DEF A
  <2>4. Cardinality(A \ {p}) = Cardinality(A) - 1
    BY <2>1, <2>2, FS_RemoveElement
  <2> QED
    BY <2>1, <2>3, <2>4
<1> QED
  <2>1. \A d \in Orders : m[d] = Cardinality(Area(B \ {p}, g, d))
    BY <1>1, <1>2
  <2> QED
    BY <2>1 DEF Counts

LEMMA CountsSame ==
  ASSUME NEW B, NEW f, NEW g, NEW n, Counts(n, B, f), \A q \in B : g[q] = f[q]
  PROVE  Counts(n, B, g)
<1>1. \A o \in Orders : Area(B, g, o) = Area(B, f, o)
  BY DEF Area
<1> QED
  BY <1>1 DEF Counts

LEMMA PagesSame ==
  ASSUME NEW B, NEW f, NEW g, \A q \in B : g[q] = f[q]
  PROVE  PagesOf(B, g) = PagesOf(B, f)
BY DEF PagesOf

(* The free blocks do not overlap each other, nor the block in hand. *)
LEMMA FreeBlocks ==
  ASSUME IInv
  PROVE  /\ PagesOf(buddy, private) = UNION {Extent(e) : e \in FreeExtents}
         /\ IsFiniteSet(PagesOf(buddy, private))
         /\ Cardinality(PagesOf(buddy, private)) \in Nat
         /\ buddy \subseteq ZonePages
         /\ \A q \in buddy : private[q] \in Orders
         /\ \A q, h \in buddy : q # h => Block(q, private[q]) \cap Block(h, private[h]) = {}
         /\ pc \in {"merge", "expand"} =>
              /\ Block(blk.page, blk.order) \cap PagesOf(buddy, private) = {}
              /\ blk.page \in Nat /\ blk.page \notin buddy
<1>1. buddy = {q \in ZonePages : lru[q].kind = "free"}
  BY DEF IInv, TypeOK, FlagsMatchLists
<1>2. FreeExtents = {<<"free", q, private[q]>> : q \in buddy}
  BY <1>1 DEF FreeExtents
<1>3. \A q \in buddy : Extent(<<"free", q, private[q]>>) = Block(q, private[q])
  BY DEF Extent
<1>4. PagesOf(buddy, private) = UNION {Extent(e) : e \in FreeExtents}
  BY <1>2, <1>3 DEF PagesOf
<1>5. FreeExtents \subseteq Extents
  BY DEF Extents
<1>6. \A e \in FreeExtents : Extent(e) \subseteq ZonePages
  BY <1>5 DEF IInv, InZone
<1>7. PagesOf(buddy, private) \subseteq ZonePages
  BY <1>4, <1>6
<1>8. \A q \in buddy : private[q] \in Orders
  BY <1>1 DEF IInv, TypeOK, FlagsMatchLists, Lists
<1>9. ASSUME NEW q \in buddy, NEW h \in buddy, q # h
      PROVE  Block(q, private[q]) \cap Block(h, private[h]) = {}
  <2>1. <<"free", q, private[q]>> \in Extents /\ <<"free", h, private[h]>> \in Extents
    BY <1>2, <1>5
  <2> QED
    BY <1>3, <1>9, <2>1 DEF IInv, NoOverlap, Disjoint
<1>10. ASSUME pc \in {"merge", "expand"}
       PROVE  /\ Block(blk.page, blk.order) \cap PagesOf(buddy, private) = {}
              /\ blk.page \in Nat /\ blk.page \notin buddy
  <2> DEFINE e == <<"cpu", blk.page, blk.order>>
  <2>1. e \in Extents /\ Extent(e) = Block(blk.page, blk.order)
    BY <1>10 DEF Extents, InFlight, Extent
  <2>2. \A f \in FreeExtents : f \in Extents /\ f # e
    BY <1>2, <1>5
  <2>3. \A f \in FreeExtents : Extent(f) \cap Extent(e) = {}
    BY <2>1, <2>2 DEF IInv, NoOverlap, Disjoint
  <2>4. blk.page \in ZonePages /\ blk.order \in Orders
    BY <1>10 DEF IInv, LocalsFit, TypeOK
  <2>5. blk.page \in Extent(e)
    BY <2>1, <2>4, ZoneInNat, HeadInBlock
  <2>6. blk.page \notin buddy
    <3>1. ASSUME blk.page \in buddy PROVE FALSE
      <4>1. e = <<"free", blk.page, private[blk.page]>>
        BY <2>1, <2>4, <2>5, <3>1, Owners DEF IInv
      <4> QED
        BY <4>1
    <3> QED
      BY <3>1
  <2> QED
    BY <1>4, <2>1, <2>3, <2>4, <2>6, ZoneInNat
<1> QED
  BY <1>1, <1>4, <1>7, <1>8, <1>9, <1>10, PartsFinite

-----------------------------------------------------------------------------
(* Migrate types *)

LEMMA SmallTypes ==
  /\ PcpTypes = {0, 1, 2} /\ Types = {0, 1, 2, 3}
  /\ MIGRATE_UNMOVABLE = 0 /\ MIGRATE_RECLAIMABLE = 1 /\ MIGRATE_MOVABLE = 2
  /\ MIGRATE_RESERVE = 3 /\ MIGRATE_PCPTYPES = 3
BY DEF PcpTypes, Types, MIGRATE_PCPTYPES, MIGRATE_RESERVE, MIGRATE_UNMOVABLE,
       MIGRATE_RECLAIMABLE, MIGRATE_MOVABLE

(* The kinds of lists, taken apart. *)
LEMMA ListKinds ==
  /\ NoList \in KnownLists /\ NoList.kind = "none"
  /\ \A o \in Orders, t \in PcpTypes :
       /\ FreeList(o, t) \in KnownLists
       /\ FreeList(o, t).kind = "free" /\ FreeList(o, t).order = o /\ FreeList(o, t).mt = t
  /\ \A t \in PcpTypes : PcpList(t) \in KnownLists /\ PcpList(t).kind = "pcp"
  /\ \A l \in KnownLists :
       /\ l.kind = "free" => \E o \in Orders, t \in PcpTypes : l = FreeList(o, t)
       /\ l.kind = "pcp" => \E t \in PcpTypes : l = PcpList(t)
<1>1. NoList \in KnownLists /\ NoList.kind = "none"
  BY DEF KnownLists, NoList
<1>2. ASSUME NEW o \in Orders, NEW t \in PcpTypes
      PROVE  /\ FreeList(o, t) \in KnownLists
             /\ FreeList(o, t).kind = "free" /\ FreeList(o, t).order = o /\ FreeList(o, t).mt = t
  <2>1. FreeList(o, t) \in KnownLists
    BY DEF KnownLists
  <2> QED
    BY <2>1 DEF FreeList
<1>3. ASSUME NEW t \in PcpTypes
      PROVE  PcpList(t) \in KnownLists /\ PcpList(t).kind = "pcp"
  <2>1. PcpList(t) \in KnownLists
    BY DEF KnownLists
  <2> QED
    BY <2>1 DEF PcpList
<1>4. ASSUME NEW l \in KnownLists
      PROVE  \/ l.kind = "none"
             \/ l.kind = "free" /\ \E o \in Orders, t \in PcpTypes : l = FreeList(o, t)
             \/ l.kind = "pcp" /\ \E t \in PcpTypes : l = PcpList(t)
  <2>1. CASE l = NoList
    BY <1>1, <2>1
  <2>2. CASE \E o \in Orders, t \in PcpTypes : l = FreeList(o, t)
    BY <1>2, <2>2
  <2>3. CASE \E t \in PcpTypes : l = PcpList(t)
    BY <1>3, <2>3
  <2> QED
    BY <2>1, <2>2, <2>3 DEF KnownLists
<1>5. ASSUME NEW l \in KnownLists
      PROVE  /\ l.kind = "free" => \E o \in Orders, t \in PcpTypes : l = FreeList(o, t)
             /\ l.kind = "pcp" => \E t \in PcpTypes : l = PcpList(t)
  BY <1>4
<1> QED
  BY <1>1, <1>2, <1>3, <1>5

(* A block on the list of a type, and of a known type only. *)
LEMMA OnFreeKnown ==
  ASSUME KnownTypes, NEW c, NEW u \in Types, NEW p \in OnFree(c, u), c \in Orders
  PROVE  u \in PcpTypes /\ p \in ZonePages /\ lru[p].kind = "free" /\ lru[p].order = c
<1>1. p \in ZonePages /\ lru[p] = FreeList(c, u) /\ lru[p] \in KnownLists
  BY DEF OnFree, KnownTypes
<1>2. lru[p].kind = "free" /\ lru[p].order = c /\ lru[p].mt = u
  BY <1>1 DEF FreeList
<1>3. PICK o \in Orders, t \in PcpTypes : lru[p] = FreeList(o, t)
  BY <1>1, <1>2, ListKinds
<1>4. u = t
  BY <1>2, <1>3 DEF FreeList
<1> QED
  BY <1>1, <1>2, <1>4

(* What __rmqueue does when it finds a block: it takes one of order c off the
   free lists, whose type u the rest of it keeps.  Lists change their type
   only among the free lists.                                              *)
Takes(o, u, c, p, from) ==
  /\ c \in Orders /\ o <= c /\ u \in PcpTypes
  /\ p \in buddy /\ private[p] = c
  /\ TakeOff(o, c, u, p, from)
  /\ lru'[p] = NoList
  /\ \A q \in ZonePages : q # p =>
       lru'[q] = lru[q] \/ (lru[q].kind = "free" /\ lru'[q].kind = "free" /\ lru'[q] \in KnownLists)
  /\ \A b \in DOMAIN pageblock' : pageblock'[b] \in PcpTypes

(* The reserve has no block to offer, and a fallback is never of its type. *)
LEMMA RmqueueTakes ==
  ASSUME IInv, KnownTypes, NEW o \in Orders, NEW t \in PcpTypes, NEW from, Rmqueue(o, t, from)
  PROVE  \E u, c, p : Takes(o, u, c, p, from)
<1>1. \A c \in o .. MaxOrder - 1 : c \in Orders /\ o <= c
  BY OrderAssumption DEF Orders
<1>2. ASSUME NEW p \in ZonePages, lru[p].kind = "free" PROVE p \in buddy /\ private[p] = lru[p].order
  BY <1>2 DEF IInv, FlagsMatchLists
<1>3. t \in Types
  BY SmallTypes
<1>4. ASSUME NEW c \in o .. MaxOrder - 1, NEW u \in {t, MIGRATE_RESERVE}, NEW p \in ZonePages,
             SmallestFinds(o, u, c, p),
             lru' = [lru EXCEPT ![p] = NoList],
             TakeOff(o, c, u, p, from),
             UNCHANGED pageblock
      PROVE  Takes(o, u, c, p, from)
  <2>1. p \in OnFree(c, u) /\ u \in Types
    BY <1>3, <1>4, SmallTypes DEF SmallestFinds
  <2>2. u \in PcpTypes /\ lru[p].kind = "free" /\ lru[p].order = c
    BY <1>1, <2>1, OnFreeKnown
  <2>3. lru'[p] = NoList /\ \A q \in ZonePages : q # p => lru'[q] = lru[q]
    BY <1>4 DEF IInv, TypeOK
  <2> QED
    BY <1>1, <1>2, <1>4, <2>2, <2>3 DEF Takes, KnownTypes
<1>5. ASSUME NEW c \in o .. MaxOrder - 1, NEW ft \in Types, NEW p \in ZonePages,
             FallbackFinds(o, t, c, ft, p),
             lru' = FallbackLru(p, c, t),
             pageblock' = FallbackPageblock(p, c, t),
             TakeOff(o, c, IF TakesOver(c, t) THEN t ELSE ft, p, from)
      PROVE  Takes(o, IF TakesOver(c, t) THEN t ELSE ft, c, p, from)
  <2> DEFINE u == IF TakesOver(c, t) THEN t ELSE ft
  <2>1. p \in OnFree(c, ft)
    BY <1>5 DEF FallbackFinds
  <2>2. ft \in PcpTypes /\ lru[p].kind = "free" /\ lru[p].order = c
    BY <1>1, <2>1, OnFreeKnown
  <2>3. u \in PcpTypes
    BY <2>2
  <2>4. ASSUME NEW q \in ZonePages, q # p
        PROVE  \/ lru'[q] = lru[q]
               \/ lru[q].kind = "free" /\ lru'[q].kind = "free" /\ lru'[q] \in KnownLists
    <3>1. CASE TakesOver(c, t) /\ q \in MovedBlocks(p)
      <4>1. lru'[q] = FreeList(private[q], t)
        BY <1>5, <2>4, <3>1 DEF FallbackLru
      <4>2. q \in buddy
        BY <3>1 DEF MovedBlocks
      <4>3. lru[q].kind = "free" /\ private[q] \in Orders
        BY <4>2 DEF IInv, TypeOK, FlagsMatchLists, Lists
      <4>4. FreeList(private[q], t) \in KnownLists /\ FreeList(private[q], t).kind = "free"
        BY <4>3, ListKinds
      <4> QED
        BY <4>1, <4>3, <4>4
    <3>2. CASE ~(TakesOver(c, t) /\ q \in MovedBlocks(p))
      BY <1>5, <2>4, <3>2 DEF FallbackLru
    <3> QED
      BY <3>1, <3>2
  <2>5. lru'[p] = NoList
    BY <1>5 DEF FallbackLru
  <2>6. \A b \in DOMAIN pageblock' : pageblock'[b] \in PcpTypes
    <3>1. pageblock \in [0 .. NrPageblocks - 1 -> PcpTypes]
      BY DEF IInv, TypeOK, KnownTypes
    <3>2. (IF MobilityDisabled THEN MIGRATE_UNMOVABLE ELSE t) \in PcpTypes
      BY SmallTypes
    <3>3. SetPageblock(p, t) \in [0 .. NrPageblocks - 1 -> PcpTypes]
      BY <3>1, <3>2 DEF SetPageblock
    <3>4. pageblock' \in [0 .. NrPageblocks - 1 -> PcpTypes]
      BY <1>5, <3>1, <3>3 DEF FallbackPageblock
    <3> QED
      BY <3>4
  <2> HIDE DEF u
  <2>7. TakeOff(o, c, u, p, from)
    BY <1>5 DEF u
  <2>8. Takes(o, u, c, p, from)
    BY <1>1, <1>2, <2>2, <2>3, <2>4, <2>5, <2>6, <2>7 DEF Takes
  <2> QED
    BY <2>8 DEF u
<1> QED
  BY <1>4, <1>5 DEF Rmqueue

(* A block is taken off: types stay known. *)
LEMMA TakesKnown ==
  ASSUME IInv, KnownTypes, NEW o, NEW u, NEW c, NEW p, NEW from, Takes(o, u, c, p, from)
  PROVE  KnownTypes'
<1>1. ASSUME NEW q \in ZonePages
      PROVE  lru'[q] \in KnownLists /\ (lru'[q].kind = "pcp" => private'[q] \in PcpTypes)
  <2>1. CASE q = p
    BY <2>1, ListKinds DEF Takes
  <2>2. CASE q # p
    <3>1. private'[q] = private[q]
      BY <2>2 DEF Takes, TakeOff, IInv, TypeOK
    <3>2. lru'[q] \in KnownLists /\ (lru'[q].kind = "pcp" => lru[q].kind = "pcp")
      BY <2>2 DEF Takes, KnownTypes
    <3> QED
      BY <3>1, <3>2 DEF KnownTypes
  <2> QED
    BY <2>1, <2>2
<1>2. blk'.mt = u /\ u \in PcpTypes
  BY DEF Takes, TakeOff
<1> QED
  BY <1>1, <1>2 DEF KnownTypes, Takes

(* One page's list and private change. *)
LEMMA KnownWithOneChange ==
  ASSUME IInv, KnownTypes, NEW p \in ZonePages, NEW l, l \in KnownLists, NEW x,
         x \in PcpTypes \/ l.kind # "pcp",
         lru' = [lru EXCEPT ![p] = l],
         private' = [private EXCEPT ![p] = x],
         UNCHANGED pageblock,
         pc' \in {"merge", "expand"} => blk'.mt \in PcpTypes
  PROVE  KnownTypes'
<1>1. ASSUME NEW q \in ZonePages
      PROVE  lru'[q] \in KnownLists /\ (lru'[q].kind = "pcp" => private'[q] \in PcpTypes)
  <2>1. CASE q = p
    BY <2>1 DEF IInv, TypeOK
  <2>2. CASE q # p
    BY <2>2 DEF IInv, TypeOK, KnownTypes
  <2> QED
    BY <2>1, <2>2
<1> QED
  BY <1>1 DEF KnownTypes

LEMMA KnownSame ==
  ASSUME KnownTypes, UNCHANGED <<lru, private, pageblock>>,
         pc' \in {"merge", "expand"} => blk'.mt \in PcpTypes
  PROVE  KnownTypes'
BY DEF KnownTypes

LEMMA ReleaseKnown ==
  ASSUME IInv, KnownTypes, NEW p \in ZonePages, NEW o \in Orders, pc = "idle",
         Release(p, o), UNCHANGED pageblock
  PROVE  KnownTypes'
<1> DEFINE mt == pageblock[BitIdx(p)]
<1>1. mt \in PcpTypes
  BY PageHasPageblock DEF IInv, TypeOK, KnownTypes
<1>2. CASE o = 0
  <2>1. /\ lru' = [lru EXCEPT ![p] = PcpList(mt)]
        /\ private' = [private EXCEPT ![p] = mt]
    BY <1>1, <1>2, SmallTypes DEF Release, FreeHotColdPage
  <2>2. pc' \notin {"merge", "expand"}
    BY <1>2 DEF Release, FreeHotColdPage
  <2>3. PcpList(mt) \in KnownLists
    BY <1>1, ListKinds
  <2> HIDE DEF mt
  <2> QED
    BY <1>1, <2>1, <2>2, <2>3, KnownWithOneChange
<1>3. CASE o # 0
  BY <1>1, <1>3, KnownSame DEF Release, StartMerge, pageVars
<1> QED
  BY <1>2, <1>3

(* No type but UNMOVABLE, RECLAIMABLE and MOVABLE ever comes up. *)
LEMMA KnownTypesInit == Init => KnownTypes
<1> SUFFICES ASSUME Init PROVE KnownTypes
  OBVIOUS
<1>1. \A b \in DOMAIN pageblock : pageblock[b] \in PcpTypes
  BY SmallTypes DEF Init, InitialPageblock
<1>2. \A p \in ZonePages : lru[p] \in KnownLists /\ lru[p].kind = "none"
  BY ListKinds DEF Init
<1> QED
  BY <1>1, <1>2 DEF KnownTypes, Init

LEMMA KnownTypesNext == IInv /\ KnownTypes /\ [Next]_vars => KnownTypes'
<1> SUFFICES ASSUME IInv, KnownTypes, [Next]_vars PROVE KnownTypes'
  OBVIOUS
<1>1. AllocTypes \subseteq PcpTypes /\ bulk.mt \in PcpTypes
  BY CallerAssumption DEF IInv, TypeOK
<1>2. ASSUME NEW p \in ZonePages, NEW o \in {0, BootOrder}, FreePagesBootmem(p, o) PROVE KnownTypes'
  BY <1>2, ReleaseKnown, OrdersBounded, OrderAssumption DEF FreePagesBootmem
<1>3. ASSUME NEW p \in ZonePages, FreePages(p) PROVE KnownTypes'
  <2>1. held[p] \in Orders /\ pc = "idle" /\ UNCHANGED pageblock
    BY <1>3 DEF FreePages, IInv, TypeOK
  <2>2. CASE LastReference(p)
    BY <1>3, <2>1, <2>2, ReleaseKnown DEF FreePages
  <2>3. CASE ~LastReference(p)
    BY <1>3, <2>1, <2>3, KnownSame DEF FreePages, pageVars
  <2> QED
    BY <2>2, <2>3
<1>4. ASSUME NEW p \in ZonePages, GetPage(p) PROVE KnownTypes'
  BY <1>4, KnownSame DEF GetPage, pageVars
<1>5. ASSUME NEW t \in AllocTypes, AllocPcp(t) PROVE KnownTypes'
  <2>1. PICK p \in OnPcp(t) : lru' = [lru EXCEPT ![p] = NoList] /\ private' = [private EXCEPT ![p] = 0]
    BY <1>5 DEF AllocPcp
  <2>2. p \in ZonePages
    BY DEF OnPcp
  <2> QED
    BY <1>5, <2>1, <2>2, ListKinds, KnownWithOneChange DEF AllocPcp
<1>6. ASSUME NEW t \in AllocTypes, StartFill(t) PROVE KnownTypes'
  BY <1>6, KnownSame DEF StartFill, pageVars
<1>7. ASSUME NEW o \in Orders, NEW t \in AllocTypes, AllocBlock(o, t) PROVE KnownTypes'
  <2>1. Rmqueue(o, t, "alloc") /\ t \in PcpTypes
    BY <1>1, <1>7 DEF AllocBlock
  <2> QED
    BY <2>1, RmqueueTakes, TakesKnown
<1>8. CASE Merge
  <2>1. BuddyOf(blk.page, blk.order) \in ZonePages
    BY <1>8 DEF Merge, CanMerge, BuddyIsFree
  <2>2. pc = "merge" /\ blk'.mt = blk.mt
    BY <1>8 DEF Merge, IInv, TypeOK
  <2> QED
    BY <1>8, <2>1, <2>2, ListKinds, KnownWithOneChange DEF Merge, KnownTypes
<1>9. CASE Place
  <2>1. blk.page \in ZonePages /\ blk.order \in Orders /\ blk.mt \in PcpTypes
    BY <1>9 DEF Place, IInv, TypeOK, LocalsFit, KnownTypes
  <2>2. pc' \notin {"merge", "expand"}
    BY <1>9 DEF Place
  <2>3. /\ FreeList(blk.order, blk.mt) \in KnownLists
        /\ FreeList(blk.order, blk.mt).kind # "pcp"
    BY <2>1, ListKinds
  <2>4. /\ lru' = [lru EXCEPT ![blk.page] = FreeList(blk.order, blk.mt)]
        /\ private' = [private EXCEPT ![blk.page] = blk.order]
        /\ UNCHANGED pageblock
    BY <1>9 DEF Place
  <2> QED
    BY <2>1, <2>2, <2>3, <2>4, KnownWithOneChange
<1>10. CASE DrainOne
  <2>1. PICK t \in PcpTypes, p \in ZonePages :
          /\ lru[p] = PcpList(t)
          /\ lru' = [lru EXCEPT ![p] = NoList]
          /\ StartMerge(p, 0, private[p], "drain")
    BY <1>10 DEF DrainOne, OnPcp
  <2>2. private[p] \in PcpTypes
    BY <2>1, ListKinds DEF KnownTypes
  <2>3. blk'.mt \in PcpTypes
    BY <2>1, <2>2 DEF StartMerge
  <2>4. private' = [private EXCEPT ![p] = private[p]]
    BY <1>10 DEF DrainOne, IInv, TypeOK
  <2>5. UNCHANGED pageblock
    BY <1>10 DEF DrainOne
  <2>6. NoList \in KnownLists /\ NoList.kind # "pcp"
    BY ListKinds
  <2> QED
    BY <2>1, <2>3, <2>4, <2>5, <2>6, KnownWithOneChange
<1>11. CASE DrainEnd
  BY <1>11, KnownSame DEF DrainEnd, pageVars
<1>12. CASE Fill
  <2>1. CASE Rmqueue(0, bulk.mt, "fill")
    BY <1>1, <2>1, OrdersBounded, RmqueueTakes, TakesKnown
  <2>2. CASE ~Rmqueue(0, bulk.mt, "fill")
    BY <1>12, <2>2, KnownSame DEF Fill, pageVars, KnownTypes
  <2> QED
    BY <2>1, <2>2
<1>13. CASE FillEnd
  <2>1. pc' \notin {"merge", "expand"} /\ UNCHANGED pageblock
    BY <1>13 DEF FillEnd
  <2>2. CASE UNCHANGED <<lru, private>>
    BY <2>1, <2>2, KnownSame
  <2>3. CASE \E p \in OnPcp(bulk.mt) : /\ lru' = [lru EXCEPT ![p] = NoList]
                                       /\ private' = [private EXCEPT ![p] = 0]
    <3>1. PICK p \in ZonePages : /\ lru' = [lru EXCEPT ![p] = NoList]
                                 /\ private' = [private EXCEPT ![p] = 0]
      BY <2>3 DEF OnPcp
    <3>2. NoList \in KnownLists /\ NoList.kind # "pcp"
      BY ListKinds
    <3> QED
      BY <2>1, <3>1, <3>2, KnownWithOneChange
  <2> QED
    BY <1>13, <2>2, <2>3 DEF FillEnd
<1>14. CASE Expand
  <2> DEFINE upper == blk.page + Size[blk.order - 1]
  <2>1. upper \in ZonePages /\ blk.order - 1 \in Orders /\ blk.mt \in PcpTypes
    <3>1. /\ pc = "expand" /\ blk.order > blk.low /\ blk.order \in Orders /\ blk.low \in Orders
          /\ blk.page \in ZonePages
      BY <1>14 DEF Expand, IInv, TypeOK, LocalsFit
    <3>2. blk.order - 1 \in Orders
      BY <3>1, OrderAssumption DEF Orders
    <3>3. /\ Size[blk.order] = 2 * Size[blk.order - 1] /\ Size[blk.order - 1] \in Nat \ {0}
      <4> DEFINE h == blk.order - 1
      <4>1. h \in Orders /\ h + 1 = blk.order
        <5>1. blk.order \in Nat
          BY <3>1, OrdersBounded
        <5> QED
          BY <3>2, <5>1
      <4> HIDE DEF h
      <4>2. Size[h + 1] = 2 * Size[h] /\ Size[h] \in Nat \ {0}
        BY <4>1, OrdersBounded
      <4>3. Size[blk.order] = 2 * Size[h]
        BY <4>1, <4>2
      <4> QED
        BY <4>2, <4>3 DEF h
    <3>4. upper \in Block(blk.page, blk.order)
      <4> DEFINE S == Size[blk.order - 1]
      <4>1. blk.page \in Nat /\ S \in Nat \ {0} /\ Size[blk.order] = 2 * S
        BY <3>1, <3>3, ZoneInNat
      <4> HIDE DEF S
      <4>2. blk.page + S \in blk.page .. blk.page + Size[blk.order] - 1
        BY <4>1
      <4> QED
        BY <4>2 DEF Block, S
    <3>5. Block(blk.page, blk.order) \subseteq ZonePages
      <4>1. <<"cpu", blk.page, blk.order>> \in Extents
        BY <3>1 DEF Extents, InFlight
      <4> QED
        BY <4>1 DEF IInv, InZone, Extent
    <3> QED
      BY <3>1, <3>2, <3>4, <3>5 DEF KnownTypes
  <2>2. blk'.mt = blk.mt
    BY <1>14 DEF Expand, IInv, TypeOK
  <2>3. /\ FreeList(blk.order - 1, blk.mt) \in KnownLists
        /\ FreeList(blk.order - 1, blk.mt).kind # "pcp"
    BY <2>1, ListKinds
  <2>4. /\ lru' = [lru EXCEPT ![upper] = FreeList(blk.order - 1, blk.mt)]
        /\ private' = [private EXCEPT ![upper] = blk.order - 1]
        /\ UNCHANGED pageblock
    BY <1>14 DEF Expand
  <2> HIDE DEF upper
  <2> QED
    BY <2>1, <2>2, <2>3, <2>4, KnownWithOneChange
<1>15. CASE Taken
  <2>1. pc' \notin {"merge", "expand"} /\ UNCHANGED pageblock
    BY <1>15 DEF Taken
  <2>2. CASE UNCHANGED <<lru, private>>
    BY <2>1, <2>2, KnownSame
  <2>3. CASE /\ lru' = [lru EXCEPT ![blk.page] = PcpList(bulk.mt)]
             /\ private' = [private EXCEPT ![blk.page] = bulk.mt]
    <3>1. blk.page \in ZonePages
      BY <1>15 DEF Taken, IInv, LocalsFit
    <3>2. PcpList(bulk.mt) \in KnownLists
      BY <1>1, ListKinds
    <3> QED
      BY <1>1, <2>1, <2>3, <3>1, <3>2, KnownWithOneChange
  <2> QED
    BY <1>15, <2>2, <2>3 DEF Taken
<1>16. CASE UNCHANGED vars
  BY <1>16, KnownSame DEF vars, KnownTypes
<1> QED
  BY <1>2, <1>3, <1>4, <1>5, <1>6, <1>7, <1>8, <1>9, <1>10, <1>11, <1>12, <1>13, <1>14,
     <1>15, <1>16
  DEF Next, Call, Step

-----------------------------------------------------------------------------
(* nr_free and NR_FREE_PAGES *)

(* What the call in progress has yet to add to NR_FREE_PAGES for pages it has
   put on the free lists, less what it took off and has yet to subtract.   *)
Owed == DrainedSoFar + NotYetFreed - InHand - FilledSoFar

FreeAccounts ==
  /\ Counts(nr_free, buddy, private)
  /\ nr_free_pages + Owed = Cardinality(PagesOf(buddy, private))

LEMMA LocalTypes ==
  ASSUME IInv
  PROVE  /\ bulk.done \in Nat /\ bulk.todo \in Nat /\ bulk.credit \in Nat /\ bulk.mt \in PcpTypes
         /\ bulk.todo + bulk.done <= PcpBatch
         /\ blk.order \in Orders /\ blk.low \in Orders
         /\ Size[blk.order] \in Nat /\ Size[blk.low] \in Nat
         /\ nr_free_pages \in Int /\ pcp_count \in Int
<1>1. blk.order \in Orders /\ blk.low \in Orders
  BY DEF IInv, TypeOK
<1>2. Size[blk.order] \in Nat /\ Size[blk.low] \in Nat
  BY <1>1, OrdersBounded
<1>3. /\ bulk.done \in 0 .. PcpBatch /\ bulk.todo \in 0 .. PcpBatch
      /\ bulk.credit \in Nat /\ bulk.mt \in PcpTypes
  BY DEF IInv, TypeOK
<1> QED
  BY <1>1, <1>2, <1>3, PcpAssumption DEF IInv, TypeOK, LocalsFit

LEMMA OwedType == IInv => Owed \in Int
BY LocalTypes DEF Owed, DrainedSoFar, NotYetFreed, InHand, FilledSoFar

(* No free block changes: only the counter may. *)
LEMMA FreeUntouched ==
  ASSUME IInv, FreeAccounts, buddy' = buddy, \A q \in buddy : private'[q] = private[q],
         nr_free' = nr_free,
         nr_free_pages' + Owed' = nr_free_pages + Owed
  PROVE  FreeAccounts'
<1>1. Counts(nr_free', buddy', private')
  BY CountsSame DEF FreeAccounts
<1>2. PagesOf(buddy', private') = PagesOf(buddy, private)
  BY PagesSame
<1>3. nr_free_pages' + Owed' = Cardinality(PagesOf(buddy', private'))
  BY <1>2 DEF FreeAccounts
<1> QED
  BY <1>1, <1>3 DEF FreeAccounts, Counts, Area, PagesOf, Block

(* A block of order o is linked on a free list. *)
LEMMA FreeLinked ==
  ASSUME IInv, FreeAccounts, NEW p \in Nat, NEW o \in Orders, p \notin buddy,
         Block(p, o) \cap PagesOf(buddy, private) = {},
         buddy' = buddy \cup {p},
         private' = [private EXCEPT ![p] = o], p \in ZonePages,
         nr_free' = [nr_free EXCEPT ![o] = @ + 1],
         nr_free_pages' + Owed' = nr_free_pages + Owed + Size[o]
  PROVE  FreeAccounts'
<1>1. /\ private'[p] = o
      /\ \A q \in buddy : private'[q] = private[q]
  BY FreeBlocks DEF IInv, TypeOK
<1>2. IsFiniteSet(PagesOf(buddy, private)) /\ buddy \subseteq ZonePages
  BY FreeBlocks
<1>3. nr_free \in [Orders -> Int]
  BY DEF IInv, TypeOK
<1>4. Counts(nr_free, buddy, private)
  BY DEF FreeAccounts
<1>5. Counts(nr_free', buddy', private')
  BY <1>1, <1>2, <1>3, <1>4, CountsOneMore
<1>6. Cardinality(PagesOf(buddy', private')) = Cardinality(PagesOf(buddy, private)) + Size[o]
  <2> DEFINE B == buddy
             f == private
             g == private'
  <2>1. /\ g[p] = o /\ \A q \in B : g[q] = f[q]
        /\ IsFiniteSet(PagesOf(B, f)) /\ Block(p, o) \cap PagesOf(B, f) = {}
    BY <1>1, <1>2
  <2>2. buddy' = B \cup {p}
    OBVIOUS
  <2> HIDE DEF B, f, g
  <2>3. Cardinality(PagesOf(B \cup {p}, g)) = Cardinality(PagesOf(B, f)) + Size[o]
    BY <2>1, PagesWithOneMore
  <2> QED
    BY <2>2, <2>3 DEF B, f, g
<1>7. nr_free_pages' + Owed' = Cardinality(PagesOf(buddy', private'))
  BY <1>6 DEF FreeAccounts
<1> QED
  BY <1>5, <1>7 DEF FreeAccounts, Counts, Area, PagesOf, Block

(* A block of order o is taken off its free list. *)
LEMMA FreeUnlinked ==
  ASSUME IInv, FreeAccounts, NEW p \in buddy, NEW o \in Orders, private[p] = o,
         buddy' = buddy \ {p},
         private' = [private EXCEPT ![p] = 0],
         nr_free' = [nr_free EXCEPT ![o] = @ - 1],
         nr_free_pages' + Owed' = nr_free_pages + Owed - Size[o]
  PROVE  FreeAccounts'
<1>1. buddy \subseteq ZonePages /\ p \in Nat
  BY FreeBlocks, ZoneInNat
<1>2. \A q \in buddy : q # p => private'[q] = private[q]
  BY <1>1 DEF IInv, TypeOK
<1>3. \A q \in buddy : q # p => Block(q, private[q]) \cap Block(p, o) = {}
  BY FreeBlocks
<1>4. IsFiniteSet(PagesOf(buddy, private)) /\ nr_free \in [Orders -> Int]
  BY FreeBlocks DEF IInv, TypeOK
<1>5. Counts(nr_free, buddy, private)
  BY DEF FreeAccounts
<1>6. Counts(nr_free', buddy', private')
  <2>1. Counts([nr_free EXCEPT ![o] = @ - 1], buddy \ {p}, private')
    BY <1>1, <1>2, <1>4, <1>5, CountsOneLess
  <2> QED
    BY <2>1
<1>7. Cardinality(PagesOf(buddy', private')) = Cardinality(PagesOf(buddy, private)) - Size[o]
  <2> DEFINE B == buddy
             f == private
             g == private'
             C == buddy'
  <2>1. /\ \A q \in C : g[q] = f[q]
        /\ \A q \in C : Block(q, f[q]) \cap Block(p, o) = {}
        /\ C \cup {p} = B /\ p \notin C
        /\ p \in B /\ p \in Nat /\ f[p] = o /\ IsFiniteSet(PagesOf(B, f))
    BY <1>1, <1>2, <1>3, <1>4
  <2> HIDE DEF B, C, f, g
  <2>2. Cardinality(PagesOf(C, g)) = Cardinality(PagesOf(B, f)) - Size[o]
    BY <2>1, PagesWithOneLess
  <2> QED
    BY <2>2 DEF B, C, f, g
<1>8. nr_free_pages' + Owed' = Cardinality(PagesOf(buddy', private'))
  BY <1>7, OwedType, LocalTypes, OrdersBounded DEF FreeAccounts
<1> QED
  BY <1>6, <1>8 DEF FreeAccounts, Counts, Area, PagesOf, Block

(* A page of a pcp list, of bootmem or of a caller heads no free block. *)
LEMMA NotFree ==
  ASSUME IInv, NEW p \in ZonePages,
         p \in reserved \/ held[p] # NotHead \/ lru[p].kind = "pcp"
  PROVE  p \notin buddy
<1>1. CASE p \in reserved
  <2>1. <<"reserved", p, 0>> \in Extents /\ p \in Extent(<<"reserved", p, 0>>)
    BY <1>1, ZoneInNat, OnePage DEF Extents, ReservedExtents, Extent
  <2> QED
    BY <2>1, Owners DEF IInv
<1>2. CASE held[p] # NotHead
  <2>1. <<"held", p, held[p]>> \in Extents /\ held[p] \in Orders
    BY <1>2 DEF Extents, HeldExtents, IInv, TypeOK
  <2>2. p \in Extent(<<"held", p, held[p]>>)
    BY <2>1, ZoneInNat, HeadInBlock DEF Extent
  <2> QED
    BY <2>1, <2>2, Owners DEF IInv
<1>3. CASE lru[p].kind = "pcp"
  BY <1>3 DEF IInv, FlagsMatchLists
<1> QED
  BY <1>1, <1>2, <1>3

LEMMA ReleaseAccounts ==
  ASSUME IInv, FreeAccounts, NEW p \in ZonePages, NEW o \in Orders, pc = "idle",
         p \notin buddy,
         Release(p, o), UNCHANGED <<nr_free, nr_free_pages>>
  PROVE  FreeAccounts'
<1>1. Owed = 0
  BY DEF Owed, DrainedSoFar, NotYetFreed, InHand, FilledSoFar, Draining, Filling
<1>2. CASE o = 0
  <2>1. buddy' = buddy /\ (pc' = "idle" \/ (pc' = "drain" /\ bulk'.done = 0))
    BY <1>2 DEF Release, FreeHotColdPage, DrainBatch
  <2>2. \A q \in buddy : private'[q] = private[q]
    BY <1>2, FreeBlocks DEF Release, FreeHotColdPage, IInv, TypeOK
  <2>3. Owed' = 0
    BY <2>1 DEF Owed, DrainedSoFar, NotYetFreed, InHand, FilledSoFar, Draining, Filling
  <2> QED
    BY <1>1, <2>1, <2>2, <2>3, FreeUntouched
<1>3. CASE o # 0
  <2>1. /\ pc' = "merge" /\ blk'.order = o /\ blk'.low = o /\ blk'.from = "free"
        /\ UNCHANGED <<buddy, private>>
    BY <1>3 DEF Release, StartMerge, pageVars
  <2>2. Size[o] \in Nat
    BY OrdersBounded
  <2>3. Owed' = 0
    BY <2>1, <2>2 DEF Owed, DrainedSoFar, NotYetFreed, InHand, FilledSoFar, Draining, Filling
  <2> QED
    BY <1>1, <2>1, <2>3, FreeUntouched
<1> QED
  BY <1>2, <1>3

LEMMA TakesAccounts ==
  ASSUME IInv, FreeAccounts, NEW o, NEW u, NEW c, NEW p, NEW from, Takes(o, u, c, p, from),
         \/ pc = "fill" /\ from = "fill" /\ bulk' = bulk
         \/ pc = "idle" /\ from = "alloc",
         UNCHANGED nr_free_pages
  PROVE  FreeAccounts'
<1>1. /\ c \in Orders /\ p \in buddy /\ private[p] = c
      /\ buddy' = buddy \ {p}
      /\ private' = [private EXCEPT ![p] = 0]
      /\ nr_free' = [nr_free EXCEPT ![c] = @ - 1]
      /\ pc' = "expand" /\ blk'.order = c /\ blk'.from = from
  BY DEF Takes, TakeOff
<1>2. Size[c] \in Nat /\ bulk.done \in Nat
  BY <1>1, OrdersBounded, LocalTypes
<1>3. Owed' = Owed - Size[c]
  BY <1>1, <1>2 DEF Owed, DrainedSoFar, NotYetFreed, InHand, FilledSoFar, Draining, Filling
<1>4. nr_free_pages' + Owed' = nr_free_pages + Owed - Size[c]
  BY <1>2, <1>3, LocalTypes, OwedType
<1> QED
  BY <1>1, <1>4, FreeUnlinked

LEMMA FreeAccountsInit == Init => FreeAccounts
<1> SUFFICES ASSUME Init PROVE FreeAccounts
  OBVIOUS
<1>1. buddy = {} /\ nr_free_pages = 0 /\ pc = "idle" /\ nr_free = [o \in Orders |-> 0]
  BY DEF Init
<1>2. Cardinality({}) = 0
  BY FS_EmptySet
<1>3. PagesOf(buddy, private) = {} /\ \A o \in Orders : Area(buddy, private, o) = {}
  BY <1>1 DEF PagesOf, Area
<1>4. Owed = 0
  BY <1>1 DEF Owed, DrainedSoFar, NotYetFreed, InHand, FilledSoFar, Draining, Filling
<1> QED
  BY <1>1, <1>2, <1>3, <1>4 DEF FreeAccounts, Counts

(* __free_one_page takes a buddy off its list. *)
LEMMA MergeAccounts == IInv /\ FreeAccounts /\ Merge => FreeAccounts'
<1> SUFFICES ASSUME IInv, FreeAccounts, Merge PROVE FreeAccounts'
  OBVIOUS
<1> DEFINE o == blk.order
           b == BuddyOf(blk.page, o)
<1>1. /\ pc = "merge" /\ CanMerge
      /\ buddy' = buddy \ {b}
      /\ private' = [private EXCEPT ![b] = 0]
      /\ nr_free' = [nr_free EXCEPT ![o] = @ - 1]
      /\ blk'.order = o + 1 /\ blk'.low = blk.low /\ blk'.from = blk.from
      /\ UNCHANGED <<nr_free_pages, pc, bulk>>
  BY DEF Merge, IInv, TypeOK
<1>2. b \in buddy /\ private[b] = o /\ o \in Orders
  BY <1>1, LocalTypes DEF CanMerge, BuddyIsFree
<1>3. Size[o + 1] = 2 * Size[o] /\ Size[o] \in Nat
  BY <1>2, OrdersBounded
<1>4. Owed' = Owed - Size[o]
  <2>1. DrainedSoFar' = DrainedSoFar /\ NotYetFreed' = NotYetFreed /\ FilledSoFar' = FilledSoFar
    BY <1>1 DEF DrainedSoFar, NotYetFreed, FilledSoFar, Draining, Filling
  <2>2. InHand = Size[o] /\ InHand' = 2 * Size[o]
    BY <1>1, <1>3 DEF InHand
  <2>3. DrainedSoFar \in Int /\ NotYetFreed \in Int /\ FilledSoFar \in Int
    BY LocalTypes DEF DrainedSoFar, NotYetFreed, FilledSoFar
  <2> QED
    BY <1>3, <2>1, <2>2, <2>3 DEF Owed
<1>5. nr_free_pages' + Owed' = nr_free_pages + Owed - Size[o]
  BY <1>1, <1>3, <1>4, LocalTypes, OwedType
<1> HIDE DEF o, b
<1> QED
  BY <1>1, <1>2, <1>5, FreeUnlinked

(* __free_one_page links the block, and its caller accounts for it or will. *)
LEMMA PlaceAccounts == IInv /\ FreeAccounts /\ Place => FreeAccounts'
<1> SUFFICES ASSUME IInv, FreeAccounts, Place PROVE FreeAccounts'
  OBVIOUS
<1> DEFINE o == blk.order
           p == blk.page
<1>1. /\ pc = "merge"
      /\ buddy' = buddy \cup {p}
      /\ private' = [private EXCEPT ![p] = o]
      /\ nr_free' = [nr_free EXCEPT ![o] = @ + 1]
      /\ blk' = NoBlk /\ UNCHANGED bulk
  BY DEF Place
<1>2. \/ blk.from = "drain" /\ pc' = "drain" /\ nr_free_pages' = nr_free_pages
      \/ blk.from = "free" /\ pc' = "idle" /\ nr_free_pages' = nr_free_pages + Size[blk.low]
  BY DEF Place, FreedPages
<1>3. /\ p \in ZonePages /\ p \in Nat /\ p \notin buddy /\ o \in Orders
      /\ Block(p, o) \cap PagesOf(buddy, private) = {}
  BY <1>1, FreeBlocks, LocalTypes DEF IInv, LocalsFit
<1>4. Size[o] \in Nat /\ Size[blk.low] \in Nat /\ bulk.done \in Nat /\ nr_free_pages \in Int
  BY LocalTypes
<1>5. CASE blk.from = "drain"
  <2>1. Owed = bulk.done - Size[o] /\ Owed' = bulk.done
    BY <1>1, <1>2, <1>4, <1>5
    DEF Owed, DrainedSoFar, NotYetFreed, InHand, FilledSoFar, Draining, Filling
  <2>2. nr_free_pages' + Owed' = nr_free_pages + Owed + Size[o]
    BY <1>2, <1>4, <1>5, <2>1
  <2> HIDE DEF o, p
  <2> QED
    BY <1>1, <1>3, <2>2, FreeLinked
<1>6. CASE blk.from = "free"
  <2>1. Owed = Size[blk.low] - Size[o] /\ Owed' = 0
    BY <1>1, <1>2, <1>4, <1>6
    DEF Owed, DrainedSoFar, NotYetFreed, InHand, FilledSoFar, Draining, Filling
  <2>2. nr_free_pages' + Owed' = nr_free_pages + Owed + Size[o]
    BY <1>2, <1>4, <1>6, <2>1
  <2> HIDE DEF o, p
  <2> QED
    BY <1>1, <1>3, <2>2, FreeLinked
<1> QED
  BY <1>2, <1>5, <1>6

(* expand links the upper half of its block. *)
LEMMA ExpandAccounts == IInv /\ FreeAccounts /\ Expand => FreeAccounts'
<1> SUFFICES ASSUME IInv, FreeAccounts, Expand PROVE FreeAccounts'
  OBVIOUS
<1> DEFINE h == blk.order - 1
           p == blk.page + Size[h]
<1>1. /\ pc = "expand" /\ blk.order > blk.low
      /\ buddy' = buddy \cup {p}
      /\ private' = [private EXCEPT ![p] = h]
      /\ nr_free' = [nr_free EXCEPT ![h] = @ + 1]
      /\ blk'.order = h /\ blk'.low = blk.low /\ blk'.from = blk.from
      /\ UNCHANGED <<nr_free_pages, pc, bulk>>
  BY DEF Expand, IInv, TypeOK
<1>2. h \in Orders /\ h + 1 = blk.order
  <2>1. blk.order \in Orders /\ blk.low \in Orders /\ blk.order > blk.low
    BY <1>1, LocalTypes
  <2> QED
    BY <2>1, OrderAssumption DEF Orders
<1>3. Size[h] \in Nat \ {0} /\ Size[h + 1] = 2 * Size[h]
  BY <1>2, OrdersBounded
<1>4. Size[blk.order] = 2 * Size[h]
  BY <1>2, <1>3
<1>5. Block(p, h) \subseteq Block(blk.page, blk.order)
  <2>1. blk.page \in Nat
    BY <1>1, FreeBlocks
  <2> DEFINE S == Size[h]
  <2>2. S \in Nat \ {0} /\ Size[blk.order] = 2 * S
    BY <1>3, <1>4
  <2> HIDE DEF S
  <2>3. (blk.page + S) .. (blk.page + S + S - 1) \subseteq blk.page .. blk.page + 2 * S - 1
    BY <2>1, <2>2
  <2> QED
    BY <2>2, <2>3 DEF Block, S
<1>6. Block(blk.page, blk.order) \subseteq ZonePages
  <2>1. <<"cpu", blk.page, blk.order>> \in Extents
    BY <1>1 DEF Extents, InFlight
  <2> QED
    BY <2>1 DEF IInv, InZone, Extent
<1>7. p \in Nat /\ p \in Block(p, h)
  <2>1. blk.page \in Nat
    BY <1>1, FreeBlocks
  <2>2. p \in Nat
    BY <1>3, <2>1
  <2> QED
    BY <1>2, <2>2, HeadInBlock
<1>8. Block(p, h) \cap PagesOf(buddy, private) = {}
  BY <1>1, <1>5, FreeBlocks
<1>9. p \in ZonePages /\ p \notin buddy
  <2>1. p \in ZonePages
    BY <1>5, <1>6, <1>7
  <2>2. ASSUME p \in buddy PROVE FALSE
    <3>1. p \in Block(p, private[p])
      BY <1>7, <2>2, FreeBlocks, HeadInBlock
    <3>2. p \in PagesOf(buddy, private)
      BY <2>2, <3>1 DEF PagesOf
    <3> QED
      BY <1>7, <1>8, <3>2
  <2> QED
    BY <2>1, <2>2
<1>10. Owed' = Owed + Size[h]
  <2>1. DrainedSoFar' = DrainedSoFar /\ NotYetFreed' = NotYetFreed /\ FilledSoFar' = FilledSoFar
    BY <1>1 DEF DrainedSoFar, NotYetFreed, FilledSoFar, Draining, Filling
  <2>2. InHand = 2 * Size[h] /\ InHand' = Size[h]
    BY <1>1, <1>4 DEF InHand
  <2>3. DrainedSoFar \in Int /\ NotYetFreed \in Int /\ FilledSoFar \in Int
    BY LocalTypes DEF DrainedSoFar, NotYetFreed, FilledSoFar
  <2> QED
    BY <1>3, <2>1, <2>2, <2>3 DEF Owed
<1>11. nr_free_pages' + Owed' = nr_free_pages + Owed + Size[h]
  BY <1>1, <1>3, <1>10, LocalTypes, OwedType
<1> HIDE DEF h, p
<1> QED
  BY <1>1, <1>2, <1>7, <1>8, <1>9, <1>11, FreeLinked

(* The steps that touch no free block. *)
LEMMA DrainOneAccounts == IInv /\ FreeAccounts /\ DrainOne => FreeAccounts'
<1> SUFFICES ASSUME IInv, FreeAccounts, DrainOne PROVE FreeAccounts'
  OBVIOUS
<1>1. /\ pc = "drain" /\ pc' = "merge" /\ blk'.order = 0 /\ blk'.from = "drain"
      /\ bulk'.done = bulk.done + 1
      /\ UNCHANGED <<buddy, private, nr_free, nr_free_pages>>
  BY DEF DrainOne, StartMerge, IInv, TypeOK
<1>2. bulk.done \in Nat /\ Size[0] = 1
  BY LocalTypes, OrdersBounded
<1>3. Owed = bulk.done /\ Owed' = bulk.done
  BY <1>1, <1>2 DEF Owed, DrainedSoFar, NotYetFreed, InHand, FilledSoFar, Draining, Filling
<1> QED
  BY <1>1, <1>3, FreeUntouched

LEMMA TakenAccounts == IInv /\ FreeAccounts /\ Taken => FreeAccounts'
<1> SUFFICES ASSUME IInv, FreeAccounts, Taken PROVE FreeAccounts'
  OBVIOUS
<1>1. pc = "expand" /\ blk.order = blk.low /\ UNCHANGED <<buddy, nr_free>>
  BY DEF Taken
<1>2. bulk.done \in Nat /\ Size[blk.low] \in Nat /\ Size[0] = 1 /\ nr_free_pages \in Int
  BY LocalTypes, OrdersBounded
<1>3. CASE blk.from = "fill"
  <2>1. /\ pc' = "fill" /\ bulk'.done = bulk.done + 1 /\ UNCHANGED nr_free_pages
        /\ private' = [private EXCEPT ![blk.page] = bulk.mt]
    BY <1>3 DEF Taken, IInv, TypeOK
  <2>2. blk.low = 0
    BY <1>1, <1>3 DEF IInv, LocalsFit
  <2>3. \A q \in buddy : private'[q] = private[q]
    BY <1>1, <2>1, FreeBlocks DEF IInv, TypeOK
  <2>4. Owed = 0 - 1 - bulk.done /\ Owed' = 0 - (bulk.done + 1)
    BY <1>1, <1>2, <1>3, <2>1, <2>2
    DEF Owed, DrainedSoFar, NotYetFreed, InHand, FilledSoFar, Draining, Filling
  <2>5. nr_free_pages' + Owed' = nr_free_pages + Owed
    BY <1>2, <2>1, <2>4
  <2> QED
    BY <1>1, <2>3, <2>5, FreeUntouched
<1>4. CASE blk.from = "alloc"
  <2>1. /\ pc' = "idle" /\ nr_free_pages' = nr_free_pages - Size[blk.low]
        /\ UNCHANGED private
    BY <1>4 DEF Taken
  <2>2. Owed = 0 - Size[blk.low] /\ Owed' = 0
    BY <1>1, <1>2, <1>4, <2>1
    DEF Owed, DrainedSoFar, NotYetFreed, InHand, FilledSoFar, Draining, Filling
  <2>3. nr_free_pages' + Owed' = nr_free_pages + Owed
    BY <1>2, <2>1, <2>2
  <2> QED
    BY <1>1, <2>1, <2>3, FreeUntouched
<1> QED
  BY <1>3, <1>4 DEF Taken

LEMMA FillEndAccounts == IInv /\ FreeAccounts /\ FillEnd => FreeAccounts'
<1> SUFFICES ASSUME IInv, FreeAccounts, FillEnd PROVE FreeAccounts'
  OBVIOUS
<1>1. /\ pc = "fill" /\ pc' = "idle" /\ nr_free_pages' = nr_free_pages - bulk.done
      /\ UNCHANGED <<buddy, nr_free>>
  BY DEF FillEnd
<1>2. \A q \in buddy : private'[q] = private[q]
  <2>1. CASE UNCHANGED private
    BY <2>1
  <2>2. CASE \E p \in OnPcp(bulk.mt) : private' = [private EXCEPT ![p] = 0]
    <3>1. PICK p \in OnPcp(bulk.mt) : private' = [private EXCEPT ![p] = 0]
      BY <2>2
    <3>2. p \notin buddy
      BY NotFree DEF OnPcp, PcpList
    <3> QED
      BY <3>1, <3>2, FreeBlocks DEF IInv, TypeOK
  <2> QED
    BY <2>1, <2>2 DEF FillEnd
<1>3. bulk.done \in Nat /\ nr_free_pages \in Int
  BY LocalTypes
<1>4. Owed = 0 - bulk.done /\ Owed' = 0
  BY <1>1, <1>3 DEF Owed, DrainedSoFar, NotYetFreed, InHand, FilledSoFar, Draining, Filling
<1>5. nr_free_pages' + Owed' = nr_free_pages + Owed
  BY <1>1, <1>3, <1>4
<1> QED
  BY <1>1, <1>2, <1>5, FreeUntouched

LEMMA AllocPcpAccounts ==
  ASSUME NEW t \in AllocTypes PROVE IInv /\ FreeAccounts /\ AllocPcp(t) => FreeAccounts'
<1> SUFFICES ASSUME IInv, FreeAccounts, AllocPcp(t) PROVE FreeAccounts'
  OBVIOUS
<1>1. /\ UNCHANGED <<buddy, nr_free, nr_free_pages, pc, blk, bulk>>
  BY DEF AllocPcp
<1>2. PICK p \in OnPcp(t) : private' = [private EXCEPT ![p] = 0]
  BY DEF AllocPcp
<1>3. p \notin buddy
  BY NotFree DEF OnPcp, PcpList
<1>4. \A q \in buddy : private'[q] = private[q]
  BY <1>2, <1>3, FreeBlocks DEF IInv, TypeOK
<1>5. Owed' = Owed
  BY <1>1 DEF Owed, DrainedSoFar, NotYetFreed, InHand, FilledSoFar, Draining, Filling
<1> QED
  BY <1>1, <1>4, <1>5, FreeUntouched

LEMMA FreeAccountsNext == IInv /\ KnownTypes /\ FreeAccounts /\ [Next]_vars => FreeAccounts'
<1> SUFFICES ASSUME IInv, KnownTypes, FreeAccounts, [Next]_vars PROVE FreeAccounts'
  OBVIOUS
<1>1. AllocTypes \subseteq PcpTypes /\ bulk.mt \in PcpTypes /\ bulk.done \in Nat
  BY CallerAssumption, LocalTypes
<1>2. ASSUME NEW p \in ZonePages, NEW o \in {0, BootOrder}, FreePagesBootmem(p, o)
      PROVE  FreeAccounts'
  <2>1. o \in Orders
    BY OrdersBounded, OrderAssumption
  <2>2. p \in reserved
    BY <1>2, <2>1, ZoneInNat, HeadInBlock DEF FreePagesBootmem
  <2>3. p \notin buddy
    BY <2>2, NotFree
  <2> QED
    BY <1>2, <2>1, <2>3, ReleaseAccounts DEF FreePagesBootmem
<1>3. ASSUME NEW p \in ZonePages, FreePages(p) PROVE FreeAccounts'
  <2>1. /\ held[p] \in Orders /\ held[p] # NotHead /\ pc = "idle"
        /\ UNCHANGED <<nr_free, nr_free_pages>>
    BY <1>3 DEF FreePages, IInv, TypeOK
  <2>2. p \notin buddy
    BY <2>1, NotFree
  <2>3. CASE LastReference(p)
    BY <1>3, <2>1, <2>2, <2>3, ReleaseAccounts DEF FreePages
  <2>4. CASE ~LastReference(p)
    <3>1. UNCHANGED <<buddy, private, nr_free, nr_free_pages, pc, blk, bulk>>
      BY <1>3, <2>1, <2>4 DEF FreePages, pageVars
    <3>2. Owed' = Owed
      BY <3>1 DEF Owed, DrainedSoFar, NotYetFreed, InHand, FilledSoFar, Draining, Filling
    <3> QED
      BY <3>1, <3>2, FreeUntouched
  <2> QED
    BY <2>3, <2>4
<1>4. ASSUME NEW p \in ZonePages, GetPage(p) PROVE FreeAccounts'
  <2>1. UNCHANGED <<buddy, private, nr_free, nr_free_pages, pc, blk, bulk>>
    BY <1>4 DEF GetPage, pageVars
  <2>2. Owed' = Owed
    BY <2>1 DEF Owed, DrainedSoFar, NotYetFreed, InHand, FilledSoFar, Draining, Filling
  <2> QED
    BY <2>1, <2>2, FreeUntouched
<1>5. ASSUME NEW t \in AllocTypes, StartFill(t) PROVE FreeAccounts'
  <2>1. /\ UNCHANGED <<buddy, private, nr_free, nr_free_pages>>
        /\ pc = "idle" /\ pc' = "fill" /\ bulk'.done = 0
    BY <1>5 DEF StartFill, pageVars
  <2>2. Owed' = Owed
    BY <2>1 DEF Owed, DrainedSoFar, NotYetFreed, InHand, FilledSoFar, Draining, Filling
  <2> QED
    BY <2>1, <2>2, FreeUntouched
<1>6. ASSUME NEW o \in Orders, NEW t \in AllocTypes, AllocBlock(o, t) PROVE FreeAccounts'
  <2>1. Rmqueue(o, t, "alloc") /\ t \in PcpTypes /\ pc = "idle" /\ UNCHANGED nr_free_pages
    BY <1>1, <1>6 DEF AllocBlock
  <2> QED
    BY <2>1, RmqueueTakes, TakesAccounts
<1>7. CASE Fill
  <2>1. pc = "fill" /\ UNCHANGED nr_free_pages
    BY <1>7 DEF Fill
  <2>2. CASE Rmqueue(0, bulk.mt, "fill") /\ UNCHANGED bulk
    BY <1>1, <2>1, <2>2, OrdersBounded, RmqueueTakes, TakesAccounts
  <2>3. CASE /\ bulk' = [bulk EXCEPT !.todo = 0]
             /\ UNCHANGED <<pageVars, pageblock, nr_free, pc, blk>>
    <3>1. UNCHANGED <<buddy, private, nr_free, pc, blk>> /\ bulk'.done = bulk.done
      BY <2>3 DEF pageVars, IInv, TypeOK
    <3>2. Owed' = Owed
      BY <3>1 DEF Owed, DrainedSoFar, NotYetFreed, InHand, FilledSoFar, Draining, Filling
    <3> QED
      BY <2>1, <3>1, <3>2, FreeUntouched
  <2> QED
    BY <1>7, <2>2, <2>3 DEF Fill
<1>8. CASE DrainEnd
  <2>1. /\ pc = "drain" /\ pc' = "idle" /\ nr_free_pages' = nr_free_pages + bulk.done
        /\ UNCHANGED <<buddy, private, nr_free>>
    BY <1>8 DEF DrainEnd, pageVars
  <2>2. Owed = bulk.done /\ Owed' = 0
    BY <1>1, <2>1 DEF Owed, DrainedSoFar, NotYetFreed, InHand, FilledSoFar, Draining, Filling
  <2>3. nr_free_pages' + Owed' = nr_free_pages + Owed
    BY <1>1, <2>1, <2>2, LocalTypes
  <2> QED
    BY <2>1, <2>3, FreeUntouched
<1>9. CASE UNCHANGED vars
  <2>1. UNCHANGED <<buddy, private, nr_free, nr_free_pages, pc, blk, bulk>>
    BY <1>9 DEF vars
  <2>2. Owed' = Owed
    BY <2>1 DEF Owed, DrainedSoFar, NotYetFreed, InHand, FilledSoFar, Draining, Filling
  <2> QED
    BY <2>1, <2>2, FreeUntouched
<1> QED
  BY <1>2, <1>3, <1>4, <1>5, <1>6, <1>7, <1>8, <1>9, AllocPcpAccounts, MergeAccounts,
     PlaceAccounts, DrainOneAccounts, FillEndAccounts, ExpandAccounts, TakenAccounts
  DEF Next, Call, Step

-----------------------------------------------------------------------------
(* The pcp lists: what they hold and what they weigh *)

Held == [t \in PcpTypes |-> NrOnPcp(t)]

Total(c) == c[0] + c[1] + c[2]
Heavy(c) == Weight(c[0]) + Weight(c[1]) + Weight(c[2])

LEMMA HeldType == Held \in [PcpTypes -> Nat]
<1>1. \A t \in PcpTypes : NrOnPcp(t) \in Nat
  BY PartsFinite DEF NrOnPcp, OnPcp
<1> QED
  BY <1>1 DEF Held

LEMMA TypeIndices == 0 \in PcpTypes /\ 1 \in PcpTypes /\ 2 \in PcpTypes
BY SmallTypes

(* A page more on the list of type t. *)
LEMMA OneMoreHeld ==
  ASSUME NEW c \in [PcpTypes -> Nat], NEW t \in PcpTypes
  PROVE  LET d == [c EXCEPT ![t] = @ + 1]
         IN /\ Total(d) = Total(c) + 1
            /\ Heavy(d) = Heavy(c) + (IF c[t] < PcpBatch - 1 THEN 0 ELSE 1)
<1> DEFINE d == [c EXCEPT ![t] = @ + 1]
<1>1. t = 0 \/ t = 1 \/ t = 2
  BY SmallTypes
<1>2. c[0] \in Nat /\ c[1] \in Nat /\ c[2] \in Nat /\ PcpBatch \in Nat \ {0}
  BY TypeIndices, PcpAssumption
<1>3. /\ d[0] = IF t = 0 THEN c[0] + 1 ELSE c[0]
      /\ d[1] = IF t = 1 THEN c[1] + 1 ELSE c[1]
      /\ d[2] = IF t = 2 THEN c[2] + 1 ELSE c[2]
  BY TypeIndices
<1> HIDE DEF d
<1>4. Total(d) = Total(c) + 1
  BY <1>1, <1>2, <1>3 DEF Total
<1>5. Heavy(d) = Heavy(c) + (IF c[t] < PcpBatch - 1 THEN 0 ELSE 1)
  BY <1>1, <1>2, <1>3 DEF Heavy, Weight
<1> QED
  BY <1>4, <1>5 DEF d

(* A page less. *)
LEMMA OneLessHeld ==
  ASSUME NEW c \in [PcpTypes -> Nat], NEW t \in PcpTypes, c[t] > 0
  PROVE  LET d == [c EXCEPT ![t] = @ - 1]
         IN /\ d \in [PcpTypes -> Nat]
            /\ Total(d) = Total(c) - 1 /\ Total(c) > 0
            /\ Heavy(d) = Heavy(c) - (IF c[t] <= PcpBatch - 1 THEN 0 ELSE 1)
<1> DEFINE d == [c EXCEPT ![t] = @ - 1]
<1>1. t = 0 \/ t = 1 \/ t = 2
  BY SmallTypes
<1>2. c[0] \in Nat /\ c[1] \in Nat /\ c[2] \in Nat /\ PcpBatch \in Nat \ {0}
  BY TypeIndices, PcpAssumption
<1>3. /\ d[0] = IF t = 0 THEN c[0] - 1 ELSE c[0]
      /\ d[1] = IF t = 1 THEN c[1] - 1 ELSE c[1]
      /\ d[2] = IF t = 2 THEN c[2] - 1 ELSE c[2]
  BY TypeIndices
<1>4. d \in [PcpTypes -> Nat]
  <2>1. c[t] - 1 \in Nat
    OBVIOUS
  <2> QED
    BY <2>1
<1> HIDE DEF d
<1>5. Total(d) = Total(c) - 1 /\ Total(c) > 0
  BY <1>1, <1>2, <1>3 DEF Total
<1>6. Heavy(d) = Heavy(c) - (IF c[t] <= PcpBatch - 1 THEN 0 ELSE 1)
  BY <1>1, <1>2, <1>3 DEF Heavy, Weight
<1> QED
  BY <1>4, <1>5, <1>6 DEF d

LEMMA TotalAndWeight ==
  ASSUME NEW c \in [PcpTypes -> Nat]
  PROVE  /\ Total(c) \in Nat /\ Heavy(c) \in Nat /\ Total(c) <= Heavy(c)
         /\ PcpBatch = 1 => Heavy(c) = Total(c)
         /\ PcpMost \in Nat
         /\ Total(c) < PcpHigh => Heavy(c) <= PcpMost
<1>1. c[0] \in Nat /\ c[1] \in Nat /\ c[2] \in Nat /\ PcpBatch \in Nat \ {0}
  BY TypeIndices, PcpAssumption
<1>2. PcpHigh = 6 * PcpBatch \/ (PcpHigh = 0 /\ PcpBatch = 1)
  BY PcpAssumption
<1>3. Total(c) \in Nat /\ Heavy(c) \in Nat /\ Total(c) <= Heavy(c)
  BY <1>1 DEF Total, Heavy, Weight
<1>4. PcpBatch = 1 => Heavy(c) = Total(c)
  BY <1>1 DEF Total, Heavy, Weight
<1>5. PcpMost \in Nat
  BY <1>1, <1>2 DEF PcpMost
<1>6. Total(c) < PcpHigh => Heavy(c) <= PcpMost
  BY <1>1, <1>2 DEF Total, Heavy, Weight, PcpMost
<1> QED
  BY <1>3, <1>4, <1>5, <1>6

(* While free_pcppages_bulk is at work: d pages are freed, with credit cr left
   on the list m.  Either the lists weigh no more than they may, or no list
   visited so far held more than a refill leaves.                          *)
DrainWeighed(c, d, cr, m) ==
  /\ Total(c) + d <= PcpMost + 1
  /\ \/ Heavy(c) <= PcpMost
     \/ /\ Heavy(c) = PcpMost + 1
        /\ d + cr = m
        /\ \A u \in 1 .. m : c[u] < PcpBatch

(* The round robin comes to the list that is too heavy before it has freed
   three pages.                                                            *)
LEMMA DrainStepWeighed ==
  ASSUME NEW c \in [PcpTypes -> Nat], NEW d \in Nat, NEW cr \in Nat,
         NEW m \in PcpTypes, NEW turns \in 0 .. 3, NEW t \in PcpTypes,
         c[t] > 0,
         \/ cr > 0 /\ turns = 0 /\ t = m
         \/ /\ turns > 0
            /\ t = (m + turns) % 3
            /\ \A k \in 1 .. turns - 1 : c[(m + k) % 3] = 0,
         DrainWeighed(c, d, cr, m)
  PROVE  DrainWeighed([c EXCEPT ![t] = @ - 1], d + 1, cr + turns - 1, t)
<1> DEFINE e == [c EXCEPT ![t] = @ - 1]
<1>1. /\ Total(e) = Total(c) - 1
      /\ Heavy(e) = Heavy(c) - (IF c[t] <= PcpBatch - 1 THEN 0 ELSE 1)
  BY OneLessHeld
<1>2. /\ Total(c) \in Nat /\ Heavy(c) \in Nat /\ PcpMost \in Nat /\ PcpBatch \in Nat \ {0}
      /\ c[t] \in Nat
  BY TotalAndWeight, PcpAssumption
<1>3. Total(e) + (d + 1) <= PcpMost + 1
  BY <1>1, <1>2 DEF DrainWeighed
<1>4. CASE Heavy(c) <= PcpMost \/ c[t] > PcpBatch - 1
  <2>1. Heavy(e) <= PcpMost
    BY <1>1, <1>2, <1>4 DEF DrainWeighed
  <2> HIDE DEF e
  <2>2. DrainWeighed(e, d + 1, cr + turns - 1, t)
    BY <1>3, <2>1 DEF DrainWeighed
  <2> QED
    BY <2>2 DEF e
<1>5. CASE ~(Heavy(c) <= PcpMost) /\ ~(c[t] > PcpBatch - 1)
  <2>1. /\ Heavy(c) = PcpMost + 1 /\ d + cr = m /\ \A u \in 1 .. m : c[u] < PcpBatch
        /\ c[t] < PcpBatch
    BY <1>2, <1>5 DEF DrainWeighed
  <2>2. Heavy(e) = PcpMost + 1
    BY <1>1, <1>2, <2>1
  <2>3. c[0] \in Nat /\ c[1] \in Nat /\ c[2] \in Nat /\ m \in {0, 1, 2} /\ t \in {0, 1, 2}
    BY SmallTypes
  <2>4. PcpHigh = 6 * PcpBatch \/ (PcpHigh = 0 /\ PcpBatch = 1)
    BY PcpAssumption
  <2>5. c[0] >= PcpBatch \/ c[1] >= PcpBatch \/ c[2] >= PcpBatch
    BY <1>2, <2>1, <2>3, <2>4 DEF Heavy, Weight, PcpMost
  <2>6. m + turns <= 2 /\ t = m + turns
    <3>1. CASE turns = 0
      BY <2>3, <3>1
    <3>2. CASE turns > 0
      <4>1. t = (m + turns) % 3 /\ \A k \in 1 .. turns - 1 : c[(m + k) % 3] = 0
        BY <3>2
      <4>2. CASE m = 0
        <5>1. turns # 3 /\ turns \in 1 .. 3
          <6>1. ASSUME turns = 3 PROVE FALSE
            <7>1. c[1 % 3] = 0 /\ c[2 % 3] = 0 /\ t = 3 % 3
              BY <4>1, <4>2, <6>1
            <7> QED
              BY <1>2, <2>1, <2>3, <2>5, <7>1
          <6> QED
            BY <3>2, <6>1
        <5> QED
          BY <4>1, <4>2, <5>1
      <4>3. CASE m = 1
        <5>1. c[1] < PcpBatch
          BY <2>1, <4>3
        <5>2. turns # 2
          <6>1. ASSUME turns = 2 PROVE FALSE
            <7>1. c[2 % 3] = 0 /\ t = 3 % 3
              BY <4>1, <4>3, <6>1
            <7> QED
              BY <1>2, <2>1, <2>3, <2>5, <5>1, <7>1
          <6> QED
            BY <6>1
        <5>3. turns # 3
          <6>1. ASSUME turns = 3 PROVE FALSE
            <7>1. c[2 % 3] = 0 /\ c[3 % 3] = 0
              BY <4>1, <4>3, <6>1
            <7> QED
              BY <1>2, <2>3, <2>5, <5>1, <7>1
          <6> QED
            BY <6>1
        <5>4. turns = 1
          BY <3>2, <5>2, <5>3
        <5> QED
          BY <4>1, <4>3, <5>4
      <4>4. CASE m = 2
        <5>1. c[1] < PcpBatch /\ c[2] < PcpBatch
          BY <2>1, <4>4
        <5>2. turns # 1
          BY <1>2, <2>1, <2>3, <2>5, <4>1, <4>4, <5>1
        <5>3. c[3 % 3] = 0
          <6>1. 1 \in 1 .. turns - 1
            BY <3>2, <5>2
          <6> QED
            BY <4>1, <4>4, <6>1
        <5> QED
          BY <1>2, <2>3, <2>5, <5>1, <5>3
      <4> QED
        BY <2>3, <4>2, <4>3, <4>4
    <3> QED
      BY <3>1, <3>2
  <2>7. ASSUME NEW u \in 1 .. t PROVE e[u] < PcpBatch
    <3>1. u \in {1, 2} /\ u \in PcpTypes /\ c[u] \in Nat
      BY <2>3, SmallTypes
    <3>2. CASE u = t
      BY <1>2, <2>1, <3>1, <3>2
    <3>3. CASE u # t /\ u <= m
      <4>1. c[u] < PcpBatch
        BY <2>1, <2>3, <3>1, <3>3
      <4> QED
        BY <3>1, <3>3, <4>1
    <3>4. CASE u # t /\ ~(u <= m)
      <4>1. turns > 1 /\ u - m \in 1 .. turns - 1 /\ (m + (u - m)) % 3 = u
        BY <2>3, <2>6, <3>1, <3>4
      <4>2. c[(m + (u - m)) % 3] = 0
        BY <4>1
      <4> QED
        BY <1>2, <3>1, <3>4, <4>1, <4>2
    <3> QED
      BY <3>2, <3>3, <3>4
  <2>8. (d + 1) + (cr + turns - 1) = t
    BY <2>1, <2>3, <2>6
  <2> HIDE DEF e
  <2>9. DrainWeighed(e, d + 1, cr + turns - 1, t)
    BY <1>3, <2>2, <2>7, <2>8 DEF DrainWeighed
  <2> QED
    BY <2>9 DEF e
<1> QED
  BY <1>4, <1>5

(* How the lists change with lru: a page is linked, unlinked, or stays. *)
LEMMA PcpLinked ==
  ASSUME IInv, NEW p \in ZonePages, NEW t \in PcpTypes, lru[p].kind # "pcp",
         lru' = [lru EXCEPT ![p] = PcpList(t)]
  PROVE  Held' = [Held EXCEPT ![t] = @ + 1]
<1>1. \A u \in PcpTypes : PcpList(u).kind = "pcp" /\ PcpList(u).mt = u
  BY DEF PcpList
<1>2. lru'[p] = PcpList(t) /\ \A q \in ZonePages : q # p => lru'[q] = lru[q]
  BY DEF IInv, TypeOK
<1>3. ASSUME NEW u \in PcpTypes
      PROVE  NrOnPcp(u)' = IF u = t THEN NrOnPcp(u) + 1 ELSE NrOnPcp(u)
  <2> DEFINE S == OnPcp(u)
             T == {q \in ZonePages : lru'[q] = PcpList(u)}
  <2>1. IsFiniteSet(S) /\ p \notin S
    BY <1>1, PartsFinite DEF OnPcp
  <2>2. CASE u = t
    <3>1. T = S \cup {p}
      BY <1>2, <2>2 DEF OnPcp
    <3> HIDE DEF S, T
    <3>2. Cardinality(T) = Cardinality(S) + 1
      BY <2>1, <3>1, FS_AddElement
    <3> QED
      BY <2>2, <3>2 DEF NrOnPcp, OnPcp, PcpList, S, T
  <2>3. CASE u # t
    <3>1. T = S
      BY <1>1, <1>2, <2>3 DEF OnPcp
    <3> QED
      BY <2>3, <3>1 DEF NrOnPcp, OnPcp, PcpList
  <2> QED
    BY <2>2, <2>3
<1> QED
  BY <1>3 DEF Held

LEMMA PcpUnlinked ==
  ASSUME IInv, NEW t \in PcpTypes, NEW p \in OnPcp(t),
         lru' = [lru EXCEPT ![p] = NoList]
  PROVE  Held' = [Held EXCEPT ![t] = @ - 1] /\ Held[t] > 0
<1>1. \A u \in PcpTypes : PcpList(u).kind = "pcp" /\ PcpList(u).mt = u
  BY DEF PcpList
<1>2. /\ p \in ZonePages /\ lru[p] = PcpList(t) /\ lru'[p] = NoList /\ NoList.kind = "none"
      /\ \A q \in ZonePages : q # p => lru'[q] = lru[q]
  BY DEF IInv, TypeOK, OnPcp, NoList
<1>3. ASSUME NEW u \in PcpTypes
      PROVE  NrOnPcp(u)' = IF u = t THEN NrOnPcp(u) - 1 ELSE NrOnPcp(u)
  <2> DEFINE S == OnPcp(u)
             T == {q \in ZonePages : lru'[q] = PcpList(u)}
  <2>1. IsFiniteSet(S)
    BY PartsFinite DEF OnPcp
  <2>2. CASE u = t
    <3>1. T = S \ {p} /\ p \in S
      BY <1>1, <1>2, <2>2 DEF OnPcp
    <3> HIDE DEF S, T
    <3>2. Cardinality(T) = Cardinality(S) - 1
      BY <2>1, <3>1, FS_RemoveElement
    <3> QED
      BY <2>2, <3>2 DEF NrOnPcp, OnPcp, PcpList, S, T
  <2>3. CASE u # t
    <3>1. T = S
      BY <1>1, <1>2, <2>3 DEF OnPcp
    <3> QED
      BY <2>3, <3>1 DEF NrOnPcp, OnPcp, PcpList
  <2> QED
    BY <2>2, <2>3
<1>4. Held[t] > 0
  <2> DEFINE S == OnPcp(t)
  <2>1. IsFiniteSet(S) /\ S # {} /\ Cardinality(S) \in Nat
    BY PartsFinite DEF OnPcp
  <2> HIDE DEF S
  <2>2. Cardinality(S) # 0
    BY <2>1, FS_EmptySet
  <2>3. Cardinality(S) > 0
    BY <2>1, <2>2
  <2> QED
    BY <2>3 DEF S, Held, NrOnPcp
<1> QED
  BY <1>3, <1>4 DEF Held

LEMMA PcpStays ==
  ASSUME IInv,
         \A q \in ZonePages : lru[q].kind = "pcp" \/ lru'[q].kind = "pcp" => lru'[q] = lru[q]
  PROVE  Held' = Held
<1>1. \A u \in PcpTypes : PcpList(u).kind = "pcp"
  BY DEF PcpList
<1>2. ASSUME NEW u \in PcpTypes PROVE NrOnPcp(u)' = NrOnPcp(u)
  <2>1. {q \in ZonePages : lru'[q] = PcpList(u)} = OnPcp(u)
    BY <1>1 DEF OnPcp
  <2> QED
    BY <2>1 DEF NrOnPcp, OnPcp, PcpList
<1> QED
  BY <1>2 DEF Held

(* The block the CPU has in hand, and a page that is reserved or held, are on
   no list.                                                                *)
LEMMA NotOnPcp ==
  ASSUME IInv, NEW p \in ZonePages,
         \/ pc \in {"merge", "expand"} /\ p = blk.page
         \/ p \in reserved
         \/ held[p] # NotHead
  PROVE  lru[p].kind # "pcp"
<1>1. CASE pc \in {"merge", "expand"} /\ p = blk.page
  <2>1. <<"cpu", p, blk.order>> \in Extents /\ blk.order \in Orders
    BY <1>1, LocalTypes DEF Extents, InFlight
  <2>2. p \in Extent(<<"cpu", p, blk.order>>)
    BY <2>1, ZoneInNat, HeadInBlock DEF Extent
  <2> QED
    BY <2>1, <2>2, Owners DEF IInv
<1>2. CASE p \in reserved
  <2>1. <<"reserved", p, 0>> \in Extents /\ p \in Extent(<<"reserved", p, 0>>)
    BY <1>2, ZoneInNat, OnePage DEF Extents, ReservedExtents, Extent
  <2> QED
    BY <2>1, Owners DEF IInv
<1>3. CASE held[p] # NotHead
  <2>1. <<"held", p, held[p]>> \in Extents /\ held[p] \in Orders
    BY <1>3 DEF Extents, HeldExtents, IInv, TypeOK
  <2>2. p \in Extent(<<"held", p, held[p]>>)
    BY <2>1, ZoneInNat, HeadInBlock DEF Extent
  <2> QED
    BY <2>1, <2>2, Owners DEF IInv
<1> QED
  BY <1>1, <1>2, <1>3

-----------------------------------------------------------------------------
(* pcp->count *)

PcpAccounts ==
  /\ pcp_count + FilledSoFar = Total(Held) + DrainedSoFar
  /\ ~Draining /\ ~Filling => Heavy(Held) <= PcpMost
  /\ Filling => /\ Held[bulk.mt] = bulk.done
                /\ Heavy(Held) <= PcpMost + (IF bulk.done = PcpBatch THEN 1 ELSE 0)
  /\ Draining => /\ bulk.todo + bulk.done = PcpBatch
                 /\ bulk.todo <= Total(Held)
                 /\ DrainWeighed(Held, bulk.done, bulk.credit, bulk.mt)

(* A call other than a drain or a refill, which leaves the lists alone. *)
LEMMA PcpQuiet ==
  ASSUME IInv, PcpAccounts, ~Draining, ~Filling, ~Draining', ~Filling',
         pcp_count' = pcp_count, Held' = Held
  PROVE  PcpAccounts'
<1>1. FilledSoFar = 0 /\ DrainedSoFar = 0 /\ FilledSoFar' = 0 /\ DrainedSoFar' = 0
  BY DEF FilledSoFar, DrainedSoFar
<1>2. Total(Held') = Total(Held) /\ Heavy(Held') = Heavy(Held)
  OBVIOUS
<1>3. /\ pcp_count' + FilledSoFar' = Total(Held') + DrainedSoFar'
      /\ Heavy(Held') <= PcpMost
  BY <1>1, <1>2 DEF PcpAccounts
<1> QED
  BY <1>3 DEF PcpAccounts, Total, Heavy, Weight, PcpMost

(* A turn of a drain or of a refill that leaves the lists and bulk alone. *)
LEMMA PcpGoesOn ==
  ASSUME IInv, PcpAccounts, Draining' = Draining, Filling' = Filling,
         pcp_count' = pcp_count, Held' = Held,
         bulk'.done = bulk.done, bulk'.mt = bulk.mt,
         Draining => bulk' = bulk
  PROVE  PcpAccounts'
<1>1. FilledSoFar' = FilledSoFar /\ DrainedSoFar' = DrainedSoFar
  BY DEF FilledSoFar, DrainedSoFar
<1> QED
  BY <1>1 DEF PcpAccounts, Total, Heavy, Weight, PcpMost, DrainWeighed

LEMMA NothingInProgress ==
  ASSUME pc = "idle" PROVE ~Draining /\ ~Filling /\ FilledSoFar = 0 /\ DrainedSoFar = 0
BY DEF Draining, Filling, FilledSoFar, DrainedSoFar

(* The facts of PcpAccounts in the state before a call, between calls. *)
LEMMA PcpAtRest ==
  ASSUME IInv, PcpAccounts, pc = "idle"
  PROVE  /\ pcp_count = Total(Held) /\ Heavy(Held) <= PcpMost
         /\ Total(Held) \in Nat /\ Heavy(Held) \in Nat
<1>1. Total(Held) \in Nat /\ Heavy(Held) \in Nat
  BY HeldType, TotalAndWeight
<1> QED
  BY <1>1, NothingInProgress, LocalTypes DEF PcpAccounts

(* free_hot_cold_page links a page, and starts to drain at the high mark. *)
LEMMA HotColdAccounts ==
  ASSUME IInv, KnownTypes, PcpAccounts, NEW p \in ZonePages, pc = "idle", lru[p].kind # "pcp",
         FreeHotColdPage(p)
  PROVE  PcpAccounts'
<1> DEFINE mt == pageblock[BitIdx(p)]
           c == Held
           d == Held'
<1>1. mt \in PcpTypes
  BY PageHasPageblock DEF IInv, TypeOK, KnownTypes
<1>2. lru' = [lru EXCEPT ![p] = PcpList(mt)] /\ pcp_count' = pcp_count + 1
  <2>1. ~(mt >= MIGRATE_PCPTYPES)
    BY <1>1, SmallTypes
  <2>2. lru' = [lru EXCEPT ![p] = PcpList(mt)]
    BY <2>1 DEF FreeHotColdPage
  <2>3. pcp_count' = pcp_count + 1
    BY DEF FreeHotColdPage
  <2> QED
    BY <2>2, <2>3
<1>3. c \in [PcpTypes -> Nat] /\ d = [c EXCEPT ![mt] = @ + 1]
  BY <1>1, <1>2, PcpLinked, HeldType
<1>4. d \in [PcpTypes -> Nat]
  BY <1>1, <1>3
<1>5. /\ Total(d) = Total(c) + 1
      /\ Heavy(d) = Heavy(c) + (IF c[mt] < PcpBatch - 1 THEN 0 ELSE 1)
  BY <1>1, <1>3, OneMoreHeld
<1>6. pcp_count = Total(c) /\ Heavy(c) <= PcpMost /\ Total(c) \in Nat /\ Heavy(c) \in Nat
  BY PcpAtRest
<1>7. /\ Total(d) \in Nat /\ Heavy(d) \in Nat /\ Total(d) <= Heavy(d) /\ PcpMost \in Nat
      /\ Total(d) < PcpHigh => Heavy(d) <= PcpMost
  BY <1>4, TotalAndWeight
<1>8. Heavy(d) <= PcpMost + 1
  BY <1>5, <1>6, <1>7
<1>9. pcp_count' = Total(d)
  BY <1>2, <1>5, <1>6
<1>10. CASE AtHighMark(pcp_count + 1)
  <2>1. pc' = "drain" /\ bulk' = DrainBatch
    BY <1>10 DEF FreeHotColdPage
  <2>2. /\ bulk'.todo = PcpBatch /\ bulk'.done = 0 /\ bulk'.mt = 0 /\ bulk'.credit = 0
    BY <2>1 DEF DrainBatch
  <2>3. Draining' /\ ~Filling' /\ DrainedSoFar' = 0 /\ FilledSoFar' = 0
    BY <2>1, <2>2 DEF Draining, Filling, DrainedSoFar, FilledSoFar
  <2>4. PcpBatch <= Total(d) /\ PcpBatch \in Nat
    <3>1. Total(d) >= PcpHigh
      BY <1>2, <1>9, <1>10, LocalTypes DEF AtHighMark
    <3> QED
      BY <1>5, <1>6, <3>1, PcpAssumption
  <2>5. DrainWeighed(d, 0, 0, 0)
    <3>1. Heavy(d) <= PcpMost \/ Heavy(d) = PcpMost + 1
      BY <1>7, <1>8
    <3>2. Total(d) + 0 <= PcpMost + 1
      BY <1>7, <1>8
    <3>3. \A u \in 1 .. 0 : d[u] < PcpBatch
      OBVIOUS
    <3> HIDE DEF d
    <3> QED
      BY <3>1, <3>2, <3>3 DEF DrainWeighed
  <2>6. PcpBatch + 0 = PcpBatch /\ Total(d) + 0 = Total(d) /\ pcp_count' + 0 = pcp_count'
    BY <1>7, <1>9, <2>4
  <2> QED
    BY <1>9, <2>2, <2>3, <2>4, <2>5, <2>6
    DEF PcpAccounts, Total, Heavy, Weight, PcpMost, DrainWeighed
<1>11. CASE ~AtHighMark(pcp_count + 1)
  <2>1. pc' = "idle"
    BY <1>11 DEF FreeHotColdPage
  <2>2. ~Draining' /\ ~Filling' /\ DrainedSoFar' = 0 /\ FilledSoFar' = 0
    BY <2>1 DEF Draining, Filling, DrainedSoFar, FilledSoFar
  <2>3. Total(d) < PcpHigh
    BY <1>2, <1>7, <1>9, <1>11, LocalTypes, PcpAssumption DEF AtHighMark
  <2>4. Heavy(d) <= PcpMost /\ pcp_count' + 0 = Total(d) + 0
    BY <1>7, <1>9, <2>3
  <2> QED
    BY <2>2, <2>4 DEF PcpAccounts, Total, Heavy, Weight, PcpMost
<1> QED
  BY <1>10, <1>11

LEMMA ReleasePcp ==
  ASSUME IInv, KnownTypes, PcpAccounts, NEW p \in ZonePages, NEW o \in Orders, pc = "idle",
         lru[p].kind # "pcp", Release(p, o)
  PROVE  PcpAccounts'
<1>1. CASE o = 0
  BY <1>1, HotColdAccounts DEF Release
<1>2. CASE o # 0
  <2>1. UNCHANGED <<lru, pcp_count>> /\ pc' = "merge" /\ blk'.from = "free"
    BY <1>2 DEF Release, StartMerge, pageVars
  <2>2. Held' = Held
    BY <2>1, PcpStays
  <2>3. ~Draining /\ ~Filling /\ ~Draining' /\ ~Filling'
    BY <2>1 DEF Draining, Filling
  <2> QED
    BY <2>1, <2>2, <2>3, PcpQuiet
<1> QED
  BY <1>1, <1>2

(* buffered_rmqueue takes a page off a list that has one. *)
LEMMA AllocPcpPcp ==
  ASSUME NEW t \in AllocTypes
  PROVE  IInv /\ PcpAccounts /\ AllocPcp(t) => PcpAccounts'
<1> SUFFICES ASSUME IInv, PcpAccounts, AllocPcp(t) PROVE PcpAccounts'
  OBVIOUS
<1> DEFINE c == Held
           d == Held'
<1>1. t \in PcpTypes /\ pc = "idle" /\ pc' = "idle" /\ pcp_count' = pcp_count - 1
  BY CallerAssumption DEF AllocPcp
<1>2. PICK p \in OnPcp(t) : lru' = [lru EXCEPT ![p] = NoList]
  BY DEF AllocPcp
<1>3. d = [c EXCEPT ![t] = @ - 1] /\ c[t] > 0 /\ c \in [PcpTypes -> Nat]
  BY <1>1, <1>2, PcpUnlinked, HeldType
<1>4. /\ Total(d) = Total(c) - 1
      /\ Heavy(d) = Heavy(c) - (IF c[t] <= PcpBatch - 1 THEN 0 ELSE 1)
  BY <1>1, <1>3, OneLessHeld
<1>5. /\ pcp_count = Total(c) /\ Heavy(c) <= PcpMost /\ Total(c) \in Nat /\ Heavy(c) \in Nat
      /\ PcpMost \in Nat
  BY <1>1, <1>3, PcpAtRest, TotalAndWeight
<1>6. ~Draining' /\ ~Filling' /\ DrainedSoFar' = 0 /\ FilledSoFar' = 0
  BY <1>1 DEF Draining, Filling, DrainedSoFar, FilledSoFar
<1>7. pcp_count' + 0 = Total(d) + 0 /\ Heavy(d) <= PcpMost
  BY <1>1, <1>4, <1>5
<1> QED
  BY <1>6, <1>7 DEF PcpAccounts, Total, Heavy, Weight, PcpMost

(* rmqueue_bulk starts on an empty list. *)
LEMMA StartFillPcp ==
  ASSUME NEW t \in AllocTypes
  PROVE  IInv /\ PcpAccounts /\ StartFill(t) => PcpAccounts'
<1> SUFFICES ASSUME IInv, PcpAccounts, StartFill(t) PROVE PcpAccounts'
  OBVIOUS
<1>1. /\ t \in PcpTypes /\ pc = "idle" /\ pc' = "fill" /\ OnPcp(t) = {}
      /\ bulk'.done = 0 /\ bulk'.mt = t /\ UNCHANGED <<lru, pcp_count>>
  BY CallerAssumption DEF StartFill, pageVars
<1>2. Held' = Held
  BY <1>1, PcpStays
<1>3. Held[t] = 0
  BY <1>1, FS_EmptySet DEF Held, NrOnPcp
<1>4. Filling' /\ ~Draining' /\ FilledSoFar' = 0 /\ DrainedSoFar' = 0
  BY <1>1 DEF Draining, Filling, DrainedSoFar, FilledSoFar
<1>5. /\ pcp_count = Total(Held) /\ Heavy(Held) <= PcpMost
      /\ Total(Held) \in Nat /\ Heavy(Held) \in Nat /\ PcpMost \in Nat
  BY <1>1, PcpAtRest, TotalAndWeight, HeldType
<1>6. Heavy(Held') <= PcpMost + (IF bulk'.done = PcpBatch THEN 1 ELSE 0)
  BY <1>2, <1>5
<1>7. pcp_count' + FilledSoFar' = Total(Held') + DrainedSoFar'
  BY <1>1, <1>2, <1>4, <1>5
<1> QED
  BY <1>1, <1>2, <1>3, <1>4, <1>6, <1>7 DEF PcpAccounts, Total, Heavy, Weight, PcpMost

(* rmqueue_bulk links a page it got. *)
LEMMA TakenPcp == IInv /\ PcpAccounts /\ Taken => PcpAccounts'
<1> SUFFICES ASSUME IInv, PcpAccounts, Taken PROVE PcpAccounts'
  OBVIOUS
<1>1. pc = "expand" /\ blk.page \in ZonePages /\ pcp_count' = pcp_count
  BY DEF Taken, IInv, LocalsFit
<1>2. CASE blk.from = "fill"
  <2> DEFINE c == Held
             d == Held'
             t == bulk.mt
  <2>1. /\ lru' = [lru EXCEPT ![blk.page] = PcpList(t)]
        /\ bulk'.done = bulk.done + 1 /\ bulk'.mt = t /\ pc' = "fill"
    BY <1>2 DEF Taken, IInv, TypeOK
  <2>2. bulk.done \in Nat /\ t \in PcpTypes /\ bulk.done < PcpBatch /\ PcpBatch \in Nat
    BY <1>1, <1>2, LocalTypes, PcpAssumption DEF IInv, LocalsFit
  <2>3. Filling /\ ~Draining /\ Filling' /\ ~Draining'
    BY <1>1, <1>2, <2>1 DEF Draining, Filling
  <2>4. c[t] = bulk.done /\ Heavy(c) <= PcpMost /\ pcp_count + bulk.done = Total(c) + 0
    <3>1. FilledSoFar = bulk.done /\ DrainedSoFar = 0 /\ bulk.done # PcpBatch
      BY <2>2, <2>3 DEF FilledSoFar, DrainedSoFar
    <3>2. PcpMost \in Nat
      BY TotalAndWeight, HeldType
    <3> QED
      BY <2>3, <3>1, <3>2 DEF PcpAccounts
  <2>5. d = [c EXCEPT ![t] = @ + 1] /\ c \in [PcpTypes -> Nat]
    BY <1>1, <2>1, <2>2, PcpLinked, NotOnPcp, HeldType
  <2>6. /\ Total(d) = Total(c) + 1
        /\ Heavy(d) = Heavy(c) + (IF c[t] < PcpBatch - 1 THEN 0 ELSE 1)
        /\ d[t] = c[t] + 1
    BY <2>2, <2>5, OneMoreHeld
  <2>7. Total(c) \in Nat /\ Heavy(c) \in Nat /\ PcpMost \in Nat
    BY <2>5, TotalAndWeight
  <2>8. Heavy(d) <= PcpMost + (IF bulk'.done = PcpBatch THEN 1 ELSE 0)
    BY <2>1, <2>2, <2>4, <2>6, <2>7
  <2>9. pcp_count' + FilledSoFar' = Total(d) + DrainedSoFar'
    <3>1. FilledSoFar' = bulk.done + 1 /\ DrainedSoFar' = 0
      BY <2>1, <2>3 DEF FilledSoFar, DrainedSoFar
    <3> QED
      BY <1>1, <2>2, <2>4, <2>6, <2>7, <3>1, LocalTypes
  <2>10. d[bulk'.mt] = bulk'.done
    BY <2>1, <2>4, <2>6
  <2> QED
    BY <2>3, <2>8, <2>9, <2>10 DEF PcpAccounts, Total, Heavy, Weight, PcpMost
<1>3. CASE blk.from = "alloc"
  <2>1. pc' = "idle" /\ UNCHANGED lru
    BY <1>3 DEF Taken
  <2>2. ~Draining /\ ~Filling /\ ~Draining' /\ ~Filling'
    BY <1>1, <1>3, <2>1 DEF Draining, Filling
  <2>3. Held' = Held
    BY <2>1, PcpStays
  <2> QED
    BY <1>1, <2>2, <2>3, PcpQuiet
<1> QED
  BY <1>2, <1>3 DEF Taken

(* The end of a refill, and of the call that asked for it. *)
LEMMA FillEndPcp == IInv /\ PcpAccounts /\ FillEnd => PcpAccounts'
<1> SUFFICES ASSUME IInv, PcpAccounts, FillEnd PROVE PcpAccounts'
  OBVIOUS
<1> DEFINE c == Held
           d == Held'
           t == bulk.mt
<1>1. pc = "fill" /\ pc' = "idle" /\ t \in PcpTypes /\ bulk.done \in Nat /\ PcpBatch \in Nat \ {0}
  BY LocalTypes, PcpAssumption DEF FillEnd
<1>2. Filling /\ ~Draining /\ FilledSoFar = bulk.done /\ DrainedSoFar = 0
  BY <1>1 DEF Draining, Filling, FilledSoFar, DrainedSoFar
<1>3. ~Filling' /\ ~Draining' /\ FilledSoFar' = 0 /\ DrainedSoFar' = 0
  BY <1>1 DEF Draining, Filling, FilledSoFar, DrainedSoFar
<1>4. c \in [PcpTypes -> Nat] /\ Total(c) \in Nat /\ Heavy(c) \in Nat /\ PcpMost \in Nat
  BY HeldType, TotalAndWeight
<1>5. /\ pcp_count + bulk.done = Total(c)
      /\ c[t] = bulk.done
      /\ Heavy(c) <= PcpMost + (IF bulk.done = PcpBatch THEN 1 ELSE 0)
  BY <1>2, <1>4 DEF PcpAccounts
<1>6. CASE OnPcp(t) = {} /\ pcp_count' = pcp_count + bulk.done /\ UNCHANGED lru
  <2>1. c[t] = 0
    BY <1>1, <1>6, FS_EmptySet DEF Held, NrOnPcp
  <2>2. d = c
    BY <1>6, PcpStays
  <2>3. Heavy(d) <= PcpMost /\ pcp_count' + 0 = Total(d) + 0
    BY <1>1, <1>4, <1>5, <1>6, <2>1, <2>2
  <2> QED
    BY <1>3, <2>3 DEF PcpAccounts, Total, Heavy, Weight, PcpMost
<1>7. CASE \E p \in OnPcp(t) : /\ lru' = [lru EXCEPT ![p] = NoList]
                               /\ pcp_count' = pcp_count + bulk.done - 1
  <2>1. d = [c EXCEPT ![t] = @ - 1] /\ c[t] > 0
    BY <1>1, <1>7, PcpUnlinked
  <2>2. /\ Total(d) = Total(c) - 1
        /\ Heavy(d) = Heavy(c) - (IF c[t] <= PcpBatch - 1 THEN 0 ELSE 1)
    BY <1>1, <1>4, <2>1, OneLessHeld
  <2>3. Heavy(d) <= PcpMost /\ pcp_count' + 0 = Total(d) + 0
    BY <1>1, <1>4, <1>5, <1>7, <2>2, LocalTypes
  <2> QED
    BY <1>3, <2>3 DEF PcpAccounts, Total, Heavy, Weight, PcpMost
<1> QED
  BY <1>6, <1>7 DEF FillEnd

(* free_pcppages_bulk takes its next page. *)
LEMMA DrainOnePcp == IInv /\ PcpAccounts /\ DrainOne => PcpAccounts'
<1> SUFFICES ASSUME IInv, PcpAccounts, DrainOne PROVE PcpAccounts'
  OBVIOUS
<1> DEFINE c == Held
           d == Held'
           m == bulk.mt
<1>1. PICK turns \in 0 .. 3, t \in PcpTypes, p \in ZonePages :
        /\ NextPcpList(t, turns)
        /\ p \in OnPcp(t)
        /\ lru' = [lru EXCEPT ![p] = NoList]
        /\ StartMerge(p, 0, private[p], "drain")
        /\ bulk' = [bulk EXCEPT !.todo = @ - 1, !.done = @ + 1, !.mt = t,
                                !.credit = @ + turns - 1]
  BY SmallTypes DEF DrainOne, OnPcp
<1>2. /\ pc = "drain" /\ bulk.todo > 0 /\ pcp_count' = pcp_count
      /\ pc' = "merge" /\ blk'.from = "drain"
      /\ bulk'.todo = bulk.todo - 1 /\ bulk'.done = bulk.done + 1 /\ bulk'.mt = t
      /\ bulk'.credit = bulk.credit + turns - 1
  BY <1>1 DEF DrainOne, StartMerge, IInv, TypeOK
<1>3. Draining /\ ~Filling /\ Draining' /\ ~Filling'
  BY <1>2 DEF Draining, Filling
<1>4. /\ DrainedSoFar = bulk.done /\ FilledSoFar = 0
      /\ DrainedSoFar' = bulk.done + 1 /\ FilledSoFar' = 0
  BY <1>2, <1>3 DEF DrainedSoFar, FilledSoFar
<1>5. d = [c EXCEPT ![t] = @ - 1] /\ c[t] > 0 /\ c \in [PcpTypes -> Nat]
  BY <1>1, PcpUnlinked, HeldType
<1>6. Total(d) = Total(c) - 1 /\ Total(c) \in Nat
  BY <1>5, OneLessHeld, TotalAndWeight
<1>7. /\ bulk.done \in Nat /\ bulk.todo \in Nat /\ bulk.credit \in Nat /\ m \in PcpTypes
      /\ pcp_count \in Int
  BY LocalTypes
<1>8. \A u \in PcpTypes : OnPcp(u) = {} => c[u] = 0
  BY FS_EmptySet DEF Held, NrOnPcp
<1>9. \A k \in Nat : (m + k) % 3 \in PcpTypes
  <2>1. \A j \in Nat : j % 3 \in {0, 1, 2}
    OBVIOUS
  <2>2. m \in Nat
    BY <1>7, SmallTypes
  <2> QED
    BY <2>1, <2>2, SmallTypes
<1>10. \/ bulk.credit > 0 /\ turns = 0 /\ t = m
       \/ /\ turns > 0
          /\ t = (m + turns) % 3
          /\ \A k \in 1 .. turns - 1 : c[(m + k) % 3] = 0
  <2>1. CASE bulk.credit > 0 /\ OnPcp(bulk.mt) # {}
    BY <1>1, <2>1 DEF NextPcpList
  <2>2. CASE ~(bulk.credit > 0 /\ OnPcp(bulk.mt) # {})
    <3>1. /\ turns \in 1 .. 3 /\ t = (m + turns) % 3
          /\ \A k \in 1 .. turns - 1 : OnPcp((m + k) % 3) = {}
      BY <1>1, <2>2, SmallTypes DEF NextPcpList
    <3>2. ASSUME NEW k \in 1 .. turns - 1 PROVE c[(m + k) % 3] = 0
      <4>1. OnPcp((m + k) % 3) = {} /\ (m + k) % 3 \in PcpTypes
        BY <1>9, <3>1
      <4> QED
        BY <1>8, <4>1
    <3> QED
      BY <3>1, <3>2
  <2> QED
    BY <2>1, <2>2
<1>11. /\ pcp_count + 0 = Total(c) + bulk.done
       /\ bulk.todo + bulk.done = PcpBatch /\ bulk.todo <= Total(c)
       /\ DrainWeighed(c, bulk.done, bulk.credit, m)
  BY <1>3, <1>4 DEF PcpAccounts
<1>12. DrainWeighed([c EXCEPT ![t] = @ - 1], bulk.done + 1, bulk.credit + turns - 1, t)
  <2> HIDE DEF c, m
  <2> QED
    BY <1>5, <1>7, <1>10, <1>11, DrainStepWeighed
<1>13. DrainWeighed(d, bulk'.done, bulk'.credit, bulk'.mt)
  BY <1>2, <1>5, <1>12
<1>14. /\ pcp_count' + FilledSoFar' = Total(d) + DrainedSoFar'
       /\ bulk'.todo + bulk'.done = PcpBatch /\ bulk'.todo <= Total(d)
  BY <1>2, <1>4, <1>6, <1>7, <1>11
<1> QED
  BY <1>3, <1>13, <1>14 DEF PcpAccounts, Total, Heavy, Weight, PcpMost, DrainWeighed

(* The end of a drain: it has freed a batch, and the lists are light again. *)
LEMMA DrainEndPcp == IInv /\ PcpAccounts /\ DrainEnd => PcpAccounts'
<1> SUFFICES ASSUME IInv, PcpAccounts, DrainEnd PROVE PcpAccounts'
  OBVIOUS
<1> DEFINE c == Held
<1>1. /\ pc = "drain" /\ bulk.todo = 0 /\ pc' = "idle"
      /\ pcp_count' = pcp_count - PcpBatch /\ UNCHANGED lru
  BY DEF DrainEnd, pageVars
<1>2. Draining /\ ~Filling /\ ~Draining' /\ ~Filling'
  BY <1>1 DEF Draining, Filling
<1>3. /\ DrainedSoFar = bulk.done /\ FilledSoFar = 0 /\ DrainedSoFar' = 0 /\ FilledSoFar' = 0
  BY <1>2 DEF DrainedSoFar, FilledSoFar
<1>4. Held' = c
  BY <1>1, PcpStays
<1>5. /\ bulk.done \in Nat /\ bulk.credit \in Nat /\ bulk.mt \in PcpTypes
      /\ PcpBatch \in Nat \ {0, 2} /\ pcp_count \in Int
  BY LocalTypes, PcpAssumption
<1>6. /\ Total(c) \in Nat /\ Heavy(c) \in Nat /\ PcpMost \in Nat
      /\ PcpBatch = 1 => Heavy(c) = Total(c)
  BY HeldType, TotalAndWeight
<1>7. /\ pcp_count + 0 = Total(c) + bulk.done /\ bulk.todo + bulk.done = PcpBatch
      /\ DrainWeighed(c, bulk.done, bulk.credit, bulk.mt)
  BY <1>2, <1>3 DEF PcpAccounts
<1>8. bulk.done = PcpBatch
  BY <1>1, <1>5, <1>7
<1>9. Heavy(c) <= PcpMost
  <2>1. ASSUME Heavy(c) > PcpMost PROVE FALSE
    <3>1. bulk.done + bulk.credit = bulk.mt /\ Heavy(c) = PcpMost + 1 /\ Total(c) + bulk.done <= PcpMost + 1
      BY <1>6, <1>7, <2>1 DEF DrainWeighed
    <3>2. PcpBatch = 1
      BY <1>5, <1>8, <3>1, SmallTypes
    <3> QED
      BY <1>6, <1>8, <3>1, <3>2
  <2> QED
    BY <1>6, <2>1
<1>10. pcp_count' + FilledSoFar' = Total(Held') + DrainedSoFar'
  BY <1>1, <1>3, <1>4, <1>5, <1>6, <1>7, <1>8
<1>11. Heavy(Held') <= PcpMost
  BY <1>4, <1>9
<1> QED
  BY <1>2, <1>10, <1>11 DEF PcpAccounts, Total, Heavy, Weight, PcpMost

LEMMA PcpAccountsInit == Init => PcpAccounts
<1> SUFFICES ASSUME Init PROVE PcpAccounts
  OBVIOUS
<1>1. pc = "idle" /\ pcp_count = 0 /\ \A p \in ZonePages : lru[p].kind = "none"
  BY DEF Init, NoList
<1>2. \A t \in PcpTypes : OnPcp(t) = {}
  BY <1>1 DEF OnPcp, PcpList
<1>3. Held[0] = 0 /\ Held[1] = 0 /\ Held[2] = 0
  BY <1>2, TypeIndices, FS_EmptySet DEF Held, NrOnPcp
<1>4. Total(Held) = 0
  BY <1>3 DEF Total
<1>5. Heavy(Held) <= PcpMost
  <2>1. CASE PcpHigh = 6 * PcpBatch
    BY <1>4, <2>1, PcpAssumption, HeldType, TotalAndWeight
  <2>2. CASE PcpHigh = 0 /\ PcpBatch = 1
    BY <1>4, <2>2, HeldType, TotalAndWeight DEF PcpMost
  <2> QED
    BY <2>1, <2>2, PcpAssumption
<1>6. ~Draining /\ ~Filling /\ FilledSoFar = 0 /\ DrainedSoFar = 0
  BY <1>1, NothingInProgress
<1> QED
  BY <1>1, <1>4, <1>5, <1>6 DEF PcpAccounts

(* Taking a block off the free lists leaves the pcp lists as they are. *)
LEMMA TakesPcp ==
  ASSUME IInv, PcpAccounts, NEW o, NEW u, NEW c, NEW p, NEW from, Takes(o, u, c, p, from),
         \/ pc = "fill" /\ from = "fill"
         \/ pc = "idle" /\ from = "alloc",
         UNCHANGED <<pcp_count, bulk>>
  PROVE  PcpAccounts'
<1>1. pc' = "expand" /\ blk'.from = from
  BY DEF Takes, TakeOff
<1>2. Draining' = Draining /\ Filling' = Filling /\ ~Draining
  BY <1>1 DEF Draining, Filling
<1>3. lru[p].kind = "free" /\ lru'[p].kind = "none"
  BY DEF Takes, IInv, TypeOK, FlagsMatchLists, NoList
<1>4. \A q \in ZonePages : lru[q].kind = "pcp" \/ lru'[q].kind = "pcp" => lru'[q] = lru[q]
  BY <1>3 DEF Takes
<1>5. Held' = Held
  BY <1>4, PcpStays
<1> QED
  BY <1>2, <1>5, PcpGoesOn

LEMMA PcpAccountsNext == IInv /\ KnownTypes /\ PcpAccounts /\ [Next]_vars => PcpAccounts'
<1> SUFFICES ASSUME IInv, KnownTypes, PcpAccounts, [Next]_vars PROVE PcpAccounts'
  OBVIOUS
<1>1. AllocTypes \subseteq PcpTypes /\ bulk.mt \in PcpTypes
  BY CallerAssumption, LocalTypes
<1>2. ASSUME NEW p \in ZonePages, NEW o \in {0, BootOrder}, FreePagesBootmem(p, o)
      PROVE  PcpAccounts'
  <2>1. o \in Orders
    BY OrdersBounded, OrderAssumption
  <2>2. p \in reserved
    BY <1>2, <2>1, ZoneInNat, HeadInBlock DEF FreePagesBootmem
  <2>3. lru[p].kind # "pcp"
    BY <2>2, NotOnPcp
  <2> QED
    BY <1>2, <2>1, <2>3, ReleasePcp DEF FreePagesBootmem
<1>3. ASSUME NEW p \in ZonePages, FreePages(p) PROVE PcpAccounts'
  <2>1. held[p] \in Orders /\ held[p] # NotHead /\ pc = "idle"
    BY <1>3 DEF FreePages, IInv, TypeOK
  <2>2. lru[p].kind # "pcp"
    BY <2>1, NotOnPcp
  <2>3. CASE LastReference(p)
    BY <1>3, <2>1, <2>2, <2>3, ReleasePcp DEF FreePages
  <2>4. CASE ~LastReference(p)
    <3>1. UNCHANGED <<lru, pcp_count, pc, blk, bulk>>
      BY <1>3, <2>1, <2>4 DEF FreePages, pageVars
    <3>2. Held' = Held
      BY <3>1, PcpStays
    <3>3. Draining' = Draining /\ Filling' = Filling
      BY <3>1 DEF Draining, Filling
    <3> QED
      BY <3>1, <3>2, <3>3, PcpGoesOn
  <2> QED
    BY <2>3, <2>4
<1>4. ASSUME UNCHANGED <<lru, pcp_count, pc, blk, bulk>> PROVE PcpAccounts'
  <2>1. Held' = Held
    BY <1>4, PcpStays
  <2>2. Draining' = Draining /\ Filling' = Filling
    BY <1>4 DEF Draining, Filling
  <2> QED
    BY <1>4, <2>1, <2>2, PcpGoesOn
<1>5. ASSUME NEW p \in ZonePages, GetPage(p) PROVE PcpAccounts'
  BY <1>4, <1>5 DEF GetPage, pageVars
<1>6. ASSUME NEW o \in Orders, NEW t \in AllocTypes, AllocBlock(o, t) PROVE PcpAccounts'
  <2>1. Rmqueue(o, t, "alloc") /\ t \in PcpTypes /\ pc = "idle" /\ UNCHANGED <<pcp_count, bulk>>
    BY <1>1, <1>6 DEF AllocBlock
  <2> QED
    BY <2>1, RmqueueTakes, TakesPcp
<1>7. CASE Fill
  <2>1. pc = "fill" /\ UNCHANGED pcp_count
    BY <1>7 DEF Fill
  <2>2. CASE Rmqueue(0, bulk.mt, "fill") /\ UNCHANGED bulk
    BY <1>1, <2>1, <2>2, OrdersBounded, RmqueueTakes, TakesPcp
  <2>3. CASE /\ bulk' = [bulk EXCEPT !.todo = 0]
             /\ UNCHANGED <<pageVars, pageblock, nr_free, pc, blk>>
    <3>1. UNCHANGED <<lru, pc, blk>> /\ bulk'.done = bulk.done /\ bulk'.mt = bulk.mt
      BY <2>3 DEF pageVars, IInv, TypeOK
    <3>2. Held' = Held
      BY <3>1, PcpStays
    <3>3. Draining' = Draining /\ Filling' = Filling /\ ~Draining
      BY <2>1, <3>1 DEF Draining, Filling
    <3> QED
      BY <2>1, <3>1, <3>2, <3>3, PcpGoesOn
  <2> QED
    BY <1>7, <2>2, <2>3 DEF Fill
<1>8. CASE Merge
  <2> DEFINE b == BuddyOf(blk.page, blk.order)
  <2>1. /\ lru' = [lru EXCEPT ![b] = NoList] /\ b \in buddy
        /\ blk'.from = blk.from /\ UNCHANGED <<pcp_count, pc, bulk>>
    BY <1>8 DEF Merge, CanMerge, BuddyIsFree, IInv, TypeOK
  <2>2. lru[b].kind = "free" /\ NoList.kind = "none" /\ b \in ZonePages
    BY <2>1 DEF IInv, TypeOK, FlagsMatchLists, NoList
  <2> HIDE DEF b
  <2>3. Held' = Held
    BY <2>1, <2>2, PcpStays DEF IInv, TypeOK
  <2>4. Draining' = Draining /\ Filling' = Filling
    BY <2>1 DEF Draining, Filling
  <2> QED
    BY <2>1, <2>3, <2>4, PcpGoesOn
<1>9. CASE Place
  <2>1. /\ lru' = [lru EXCEPT ![blk.page] = FreeList(blk.order, blk.mt)] /\ pc = "merge"
        /\ UNCHANGED <<pcp_count, bulk>> /\ blk.page \in ZonePages
    BY <1>9 DEF Place, IInv, LocalsFit
  <2>2. lru[blk.page].kind # "pcp" /\ FreeList(blk.order, blk.mt).kind = "free"
    BY <2>1, NotOnPcp DEF FreeList
  <2>3. Held' = Held
    BY <2>1, <2>2, PcpStays DEF IInv, TypeOK
  <2>4. Draining' = Draining /\ Filling' = Filling
    BY <1>9, <2>1 DEF Place, Draining, Filling
  <2> QED
    BY <2>1, <2>3, <2>4, PcpGoesOn
<1>10. CASE Expand
  <2> DEFINE p == blk.page + Size[blk.order - 1]
             l == FreeList(blk.order - 1, blk.mt)
  <2>1. /\ lru' = [lru EXCEPT ![p] = l] /\ l.kind = "free"
        /\ pc = "expand" /\ blk'.from = blk.from /\ UNCHANGED <<pcp_count, pc, bulk>>
    BY <1>10 DEF Expand, FreeList, IInv, TypeOK
  <2>2. ASSUME p \in ZonePages, lru[p].kind = "pcp" PROVE FALSE
    <3>1. <<"cpu", blk.page, blk.order>> \in Extents
      BY <2>1 DEF Extents, InFlight
    <3>2. p \in Block(blk.page, blk.order)
      <4> DEFINE h == blk.order - 1
      <4>1. h \in Orders /\ h + 1 = blk.order
        <5>1. blk.order \in Orders /\ blk.low \in Orders /\ blk.order > blk.low
          BY <1>10, LocalTypes DEF Expand
        <5> QED
          BY <5>1, OrderAssumption DEF Orders
      <4>2. Size[h] \in Nat \ {0} /\ Size[h + 1] = 2 * Size[h]
        BY <4>1, OrdersBounded
      <4>3. blk.page \in Nat
        BY <2>1, ZoneInNat DEF IInv, LocalsFit
      <4> DEFINE S == Size[h]
      <4>4. S \in Nat \ {0} /\ Size[blk.order] = 2 * S
        BY <4>1, <4>2
      <4> HIDE DEF S
      <4>5. blk.page + S \in blk.page .. blk.page + Size[blk.order] - 1
        BY <4>3, <4>4
      <4> QED
        BY <4>5 DEF Block, S
    <3>3. p \in Extent(<<"cpu", blk.page, blk.order>>)
      BY <3>2 DEF Extent
    <3> QED
      BY <2>2, <3>1, <3>3, Owners DEF IInv
  <2> HIDE DEF p, l
  <2>3. Held' = Held
    BY <2>1, <2>2, PcpStays DEF IInv, TypeOK
  <2>4. Draining' = Draining /\ Filling' = Filling
    BY <2>1 DEF Draining, Filling
  <2> QED
    BY <2>1, <2>3, <2>4, PcpGoesOn
<1>11. CASE UNCHANGED vars
  BY <1>4, <1>11 DEF vars
<1> QED
  BY <1>2, <1>3, <1>5, <1>6, <1>7, <1>8, <1>9, <1>10, <1>11, AllocPcpPcp, StartFillPcp,
     DrainOnePcp, DrainEndPcp, FillEndPcp, TakenPcp
  DEF Next, Call, Step

-----------------------------------------------------------------------------
(* What the accounts say *)

(* Two finite sets with nothing in common count together what they count
   apart.                                                                  *)
LEMMA DisjointCount ==
  ASSUME NEW S, NEW T, IsFiniteSet(S), IsFiniteSet(T), S \cap T = {}
  PROVE  IsFiniteSet(S \cup T) /\ Cardinality(S \cup T) = Cardinality(S) + Cardinality(T)
<1>1. Cardinality(S \cap T) = 0
  BY FS_EmptySet
<1>2. IsFiniteSet(S \cup T)
      /\ Cardinality(S \cup T) = Cardinality(S) + Cardinality(T) - Cardinality(S \cap T)
  BY FS_Union
<1>3. Cardinality(S) \in Nat /\ Cardinality(T) \in Nat
  BY FS_CardinalityType
<1> QED
  BY <1>1, <1>2, <1>3

(* The pages on the pcp lists are those on the lists of the three types. *)
LEMMA PcpExtentsCounted ==
  ASSUME IInv, KnownTypes
  PROVE  Cardinality(PcpExtents) = Total(Held)
<1> DEFINE S == {p \in ZonePages : lru[p].kind = "pcp"}
           A == OnPcp(0)
           B == OnPcp(1)
           C == OnPcp(2)
<1>1. \A t \in PcpTypes : PcpList(t).kind = "pcp" /\ PcpList(t).mt = t
  BY DEF PcpList
<1>2. A \cap B = {} /\ (A \cup B) \cap C = {}
  BY <1>1, TypeIndices DEF OnPcp
<1>3. S = (A \cup B) \cup C
  <2>1. ASSUME NEW p \in S PROVE p \in (A \cup B) \cup C
    <3>1. PICK t \in PcpTypes : lru[p] = PcpList(t)
      BY <2>1, ListKinds DEF KnownTypes
    <3> QED
      BY <3>1, SmallTypes DEF OnPcp
  <2>2. ASSUME NEW p \in (A \cup B) \cup C PROVE p \in S
    BY <1>1, <2>2, TypeIndices DEF OnPcp
  <2> QED
    BY <2>1, <2>2
<1>4. /\ IsFiniteSet(A) /\ IsFiniteSet(B) /\ IsFiniteSet(C)
      /\ Cardinality(A) \in Nat /\ Cardinality(B) \in Nat /\ Cardinality(C) \in Nat
  BY PartsFinite DEF OnPcp
<1>5. IsFiniteSet(S)
  BY PartsFinite
<1>6. Cardinality(PcpExtents) = Cardinality(S)
  <2> DEFINE f == [p \in S |-> <<"pcp", p, 0>>]
             T == {<<"pcp", p, 0>> : p \in S}
  <2>1. f \in Bijection(S, T)
    <3>1. f \in [S -> T]
      OBVIOUS
    <3>2. \A p, q \in S : f[p] = f[q] => p = q
      OBVIOUS
    <3>3. \A e \in T : \E p \in S : f[p] = e
      OBVIOUS
    <3> QED
      BY <3>1, <3>2, <3>3 DEF Bijection, Injection, Surjection, IsInjective
  <2>2. T = PcpExtents
    BY DEF PcpExtents
  <2> HIDE DEF S, T, f
  <2>3. ExistsBijection(S, T)
    BY <2>1 DEF ExistsBijection
  <2> QED
    BY <1>5, <2>2, <2>3, FS_Bijection
<1> HIDE DEF S, A, B, C
<1>7. IsFiniteSet(A \cup B) /\ Cardinality(A \cup B) = Cardinality(A) + Cardinality(B)
  <2>1. A \cap B = {}
    BY <1>2
  <2> QED
    BY <1>4, <2>1, DisjointCount
<1>8. Cardinality((A \cup B) \cup C) = Cardinality(A \cup B) + Cardinality(C)
  <2>1. (A \cup B) \cap C = {}
    BY <1>2
  <2> QED
    BY <1>4, <1>7, <2>1, DisjointCount
<1>9. Total(Held) = Cardinality(A) + Cardinality(B) + Cardinality(C)
  BY TypeIndices DEF Total, Held, NrOnPcp, A, B, C
<1> QED
  BY <1>3, <1>4, <1>6, <1>7, <1>8, <1>9

(* The inductive invariant of the counters. *)
CountInv == KnownTypes /\ FreeAccounts /\ PcpAccounts

LEMMA CountInvariance == Spec => []CountInv
<1>1. Init => CountInv
  BY KnownTypesInit, FreeAccountsInit, PcpAccountsInit DEF CountInv
<1>2. IInv /\ CountInv /\ [Next]_vars => CountInv'
  BY KnownTypesNext, FreeAccountsNext, PcpAccountsNext DEF CountInv
<1> QED
  BY <1>1, <1>2, Invariance, PTL DEF Spec

LEMMA CountersFollow == IInv /\ CountInv => CountersExact
<1> SUFFICES ASSUME IInv, CountInv PROVE CountersExact
  OBVIOUS
<1>1. KnownTypes /\ FreeAccounts /\ PcpAccounts
  BY DEF CountInv
<1>2. NrFreeExact
  <2>1. ASSUME NEW o \in Orders
        PROVE  {p \in ZonePages : lru[p].kind = "free" /\ lru[p].order = o} = Area(buddy, private, o)
    BY DEF IInv, TypeOK, FlagsMatchLists, Area
  <2> QED
    BY <1>1, <2>1 DEF NrFreeExact, FreeAccounts, Counts
<1>3. nr_free_pages + DrainedSoFar + NotYetFreed =
        Cardinality(UNION {Extent(e) : e \in FreeExtents}) + InHand + FilledSoFar
  <2>1. nr_free_pages + Owed = Cardinality(PagesOf(buddy, private))
    BY <1>1 DEF FreeAccounts
  <2>2. /\ DrainedSoFar \in Int /\ NotYetFreed \in Int /\ FilledSoFar \in Int /\ InHand \in Int
        /\ nr_free_pages \in Int
    BY LocalTypes DEF DrainedSoFar, NotYetFreed, FilledSoFar, InHand
  <2>3. PagesOf(buddy, private) = UNION {Extent(e) : e \in FreeExtents}
    BY FreeBlocks
  <2> QED
    BY <2>1, <2>2, <2>3 DEF Owed
<1>4. pcp_count + FilledSoFar = Cardinality(PcpExtents) + DrainedSoFar
  BY <1>1, PcpExtentsCounted DEF PcpAccounts
<1>5. Draining => bulk.todo + bulk.done = PcpBatch
  BY <1>1 DEF PcpAccounts
<1> QED
  BY <1>2, <1>3, <1>4, <1>5 DEF CountersExact

LEMMA FitFollows == IInv /\ CountInv => PcpFits
<1> SUFFICES ASSUME IInv, CountInv PROVE PcpFits
  OBVIOUS
<1>1. KnownTypes /\ PcpAccounts
  BY DEF CountInv
<1>2. Cardinality(PcpExtents) = Total(Held) /\ PcpWeight = Heavy(Held)
  BY <1>1, PcpExtentsCounted, TypeIndices DEF PcpWeight, Heavy, Held
<1>3. \A t \in PcpTypes : Held[t] = NrOnPcp(t)
  BY DEF Held
<1>4. DrainFindsPages
  BY <1>1, <1>2 DEF DrainFindsPages, PcpAccounts
<1>5. PcpBounded
  BY <1>1, PcpAtRest, HeldType, TotalAndWeight DEF PcpBounded
<1>6. PcpWeighed
  <2>1. ~Draining /\ ~Filling => PcpWeight <= PcpMost
    BY <1>1, <1>2 DEF PcpAccounts
  <2>2. Filling => /\ NrOnPcp(bulk.mt) = bulk.done
                   /\ PcpWeight <= PcpMost + (IF bulk.done = PcpBatch THEN 1 ELSE 0)
    BY <1>1, <1>2, <1>3, LocalTypes DEF PcpAccounts
  <2>3. ASSUME Draining
        PROVE  /\ Cardinality(PcpExtents) + bulk.done <= PcpMost + 1
               /\ \/ PcpWeight <= PcpMost
                  \/ /\ PcpWeight = PcpMost + 1
                     /\ bulk.done + bulk.credit = bulk.mt
                     /\ \A t \in 1 .. bulk.mt : NrOnPcp(t) < PcpBatch
    <3>1. DrainWeighed(Held, bulk.done, bulk.credit, bulk.mt)
      BY <1>1, <2>3 DEF PcpAccounts
    <3>2. \A t \in 1 .. bulk.mt : t \in PcpTypes
      BY LocalTypes, SmallTypes
    <3> QED
      BY <1>2, <1>3, <3>1, <3>2 DEF DrainWeighed
  <2> QED
    BY <2>1, <2>2, <2>3 DEF PcpWeighed
<1> QED
  BY <1>4, <1>5, <1>6 DEF PcpFits

LEMMA RefusalFollows == IInv /\ CountInv => RefusesOnlyWhenEmpty
<1> SUFFICES ASSUME IInv, CountInv PROVE RefusesOnlyWhenEmpty
  OBVIOUS
<1>1. KnownTypes /\ NrFreeExact
  BY CountersFollow DEF CountInv, CountersExact
<1>2. ASSUME NEW o \in Orders, NEW t \in AllocTypes, RmqueueFails(o, t), NEW c \in o .. MaxOrder - 1
      PROVE  nr_free[c] = 0
  <2>1. t \in {0, 1, 2} /\ c \in Orders
    BY CallerAssumption, SmallTypes, OrderAssumption DEF Orders
  <2>2. SmallestFails(o, t) /\ FallbackFails(o, t)
    BY <1>2, <2>1, SmallTypes DEF RmqueueFails
  <2>3. \A u \in PcpTypes : u = t \/ u \in FallbackTypes(t)
    <3>1. CASE t = 0
      <4>1. fallbacks[0] = <<1, 2, 3, 0>>
        BY SmallTypes DEF fallbacks
      <4> QED
        BY <3>1, <4>1, SmallTypes DEF FallbackTypes
    <3>2. CASE t = 1
      <4>1. fallbacks[1] = <<0, 2, 3, 0>>
        BY SmallTypes DEF fallbacks
      <4> QED
        BY <3>2, <4>1, SmallTypes DEF FallbackTypes
    <3>3. CASE t = 2
      <4>1. fallbacks[2] = <<1, 0, 3, 0>>
        BY SmallTypes DEF fallbacks
      <4> QED
        BY <3>3, <4>1, SmallTypes DEF FallbackTypes
    <3> QED
      BY <2>1, <3>1, <3>2, <3>3
  <2>4. \A u \in PcpTypes : OnFree(c, u) = {}
    BY <2>2, <2>3 DEF SmallestFails, FallbackFails
  <2>5. {p \in ZonePages : lru[p].kind = "free" /\ lru[p].order = c} = {}
    <3>1. ASSUME NEW p \in ZonePages, lru[p].kind = "free", lru[p].order = c PROVE FALSE
      <4>1. PICK d \in Orders, u \in PcpTypes : lru[p] = FreeList(d, u)
        BY <1>1, <3>1, ListKinds DEF KnownTypes
      <4>2. FreeList(d, u).order = d
        BY DEF FreeList
      <4>3. d = c
        BY <3>1, <4>1, <4>2
      <4> QED
        BY <2>4, <4>1, <4>3 DEF OnFree
    <3> QED
      BY <3>1
  <2> QED
    BY <1>1, <2>1, <2>5, FS_EmptySet DEF NrFreeExact
<1> QED
  BY <1>1, <1>2 DEF RefusesOnlyWhenEmpty

(* nr_free, NR_FREE_PAGES and pcp->count are exact, in every state up to what
   the call in progress has yet to account for, whatever the zone, its holes
   and its orders, and however calls follow one another.                   *)
THEOREM CountersAreExact == Spec => []CountersExact
BY Invariance, CountInvariance, CountersFollow, PTL

(* free_pcppages_bulk always finds the pages it is told to free, and the pcp
   lists never hold more than the high mark and two refills, for every batch
   that zone_batchsize can give.                                           *)
THEOREM PcpListsFit == Spec => []PcpFits
BY Invariance, CountInvariance, FitFollows, PTL

(* __rmqueue refuses a request only when no area that could serve it has a
   block, whatever types the pageblocks have taken on.                     *)
THEOREM RefusalsAreRight == Spec => []RefusesOnlyWhenEmpty
BY Invariance, CountInvariance, RefusalFollows, PTL

=============================================================================
