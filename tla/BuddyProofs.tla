---------------------------- MODULE BuddyProofs ----------------------------
(***************************************************************************)
(* Proofs about the buddy allocator of module Buddy, for every zone, every *)
(* number of orders and every pcp high mark.                               *)
(***************************************************************************)
EXTENDS Buddy, TLAPS

-----------------------------------------------------------------------------
(* Arithmetic of blocks *)

(* An index aligned to 2S is aligned to S, and so is its upper half. *)
LEMMA HalvesAligned ==
  ASSUME NEW S \in Nat \ {0}, NEW p \in Nat, p % (2 * S) = 0
  PROVE  p % S = 0 /\ (p + S) % S = 0 /\ (p + S) % (2 * S) = S
OBVIOUS

LEMMA MultipleOf ==
  ASSUME NEW S \in Nat \ {0}, NEW p \in Nat, p % S = 0
  PROVE  \E k \in Nat : p = k * S
OBVIOUS

LEMMA MultipleIsAligned ==
  ASSUME NEW S \in Nat \ {0}, NEW k \in Nat
  PROVE  (k * S) % S = 0
OBVIOUS

(* The lower half of a pair starts S below an index aligned to S only. *)
LEMMA LowerHalf ==
  ASSUME NEW S \in Nat \ {0}, NEW p \in Nat, p % S = 0, p % (2 * S) # 0
  PROVE  p - S \in Nat /\ (p - S) % (2 * S) = 0
<1>1. PICK k \in Nat : p = k * S
  BY MultipleOf
<1>2. k % 2 # 0
  <2>1. SUFFICES ASSUME k % 2 = 0 PROVE FALSE
    OBVIOUS
  <2>2. PICK j \in Nat : k = j * 2
    BY <2>1, MultipleOf
  <2>3. p = j * (2 * S)
    BY <1>1, <2>2
  <2> QED
    BY <2>3, MultipleIsAligned, 2 * S \in Nat \ {0}
<1>3. k - 1 \in Nat /\ (k - 1) % 2 = 0
  BY <1>2
<1>4. PICK j \in Nat : k - 1 = j * 2
  BY <1>3, (k - 1) = ((k - 1) \div 2) * 2, (k - 1) \div 2 \in Nat
<1>5. p - S = j * (2 * S)
  <2>1. p - S = (k - 1) * S
    BY <1>1
  <2> QED
    BY <2>1, <1>4
<1>6. j * (2 * S) \in Nat
  OBVIOUS
<1> QED
  BY <1>5, <1>6, MultipleIsAligned, 2 * S \in Nat \ {0}

LEMMA ZoneInNat == ZonePages \subseteq Nat
BY ZoneAssumption

LEMMA OrdersBounded ==
  /\ Orders \subseteq Nat
  /\ 0 \in Orders
  /\ \A o \in Orders : Size[o] \in Nat \ {0} /\ Size[o + 1] \in Nat \ {0} /\ Size[o + 1] = 2 * Size[o]
  /\ Size[0] = 1
BY OrderAssumption, SizeAssumption DEF Orders

(* A block is never empty and contains its head. *)
LEMMA HeadInBlock ==
  ASSUME NEW p \in Nat, NEW o \in Orders
  PROVE  p \in Block(p, o)
BY OrdersBounded DEF Block

LEMMA OnePage ==
  ASSUME NEW p \in Nat
  PROVE  Block(p, 0) = {p} /\ Aligned(p, 0)
BY OrdersBounded DEF Block, Aligned

(* Splitting: a block of order h + 1 is the two buddies of order h. *)
LEMMA Split ==
  ASSUME NEW p \in Nat, NEW h \in Orders, Aligned(p, h + 1)
  PROVE  /\ Aligned(p, h) /\ Aligned(p + Size[h], h)
         /\ BuddyOf(p, h) = p + Size[h]
         /\ BuddyOf(p + Size[h], h) = p
         /\ Block(p, h + 1) = Block(p, h) \cup Block(p + Size[h], h)
         /\ Block(p, h) \cap Block(p + Size[h], h) = {}
<1> DEFINE S == Size[h]
<1>1. S \in Nat \ {0} /\ Size[h + 1] = 2 * S
  BY OrdersBounded
<1>2. p % (2 * S) = 0
  BY <1>1 DEF Aligned
<1>3. p % S = 0 /\ (p + S) % S = 0 /\ (p + S) % (2 * S) = S
  BY <1>1, <1>2, HalvesAligned
<1>4. /\ BuddyOf(p, h) = p + S
      /\ BuddyOf(p + S, h) = p
  BY <1>1, <1>2, <1>3 DEF BuddyOf, Aligned
<1>5. /\ Block(p, h + 1) = Block(p, h) \cup Block(p + S, h)
      /\ Block(p, h) \cap Block(p + S, h) = {}
  BY <1>1 DEF Block
<1> QED
  BY <1>1, <1>3, <1>4, <1>5 DEF Aligned

(* The block that two buddies of order h coalesce into. *)
LEMMA Pair ==
  ASSUME NEW p \in Nat, NEW h \in Orders, Aligned(p, h)
  PROVE  LET b == BuddyOf(p, h)
             m == IF b < p THEN b ELSE p
         IN /\ b \in Nat /\ b # p
            /\ BuddyOf(b, h) = p
            /\ Aligned(b, h)
            /\ m \in Nat
            /\ Aligned(m, h + 1)
            /\ Block(m, h + 1) = Block(p, h) \cup Block(b, h)
<1> DEFINE S == Size[h]
<1>1. S \in Nat \ {0} /\ Size[h + 1] = 2 * S
  BY OrdersBounded
<1>2. CASE Aligned(p, h + 1)
  <2>1. BuddyOf(p, h) = p + S
    BY <1>2, Split
  <2> QED
    BY <1>1, <1>2, <2>1, Split
<1>3. CASE ~Aligned(p, h + 1)
  <2>1. p % S = 0 /\ p % (2 * S) # 0
    BY <1>1, <1>3 DEF Aligned
  <2>2. p - S \in Nat /\ (p - S) % (2 * S) = 0
    BY <1>1, <2>1, LowerHalf
  <2>3. BuddyOf(p, h) = p - S
    BY <1>3 DEF BuddyOf
  <2>4. Aligned(p - S, h + 1)
    BY <1>1, <2>2 DEF Aligned
  <2>5. (p - S) + S = p /\ p - S < p
    BY <1>1
  <2>6. /\ Aligned(p - S, h)
        /\ BuddyOf(p - S, h) = p
        /\ Block(p - S, h + 1) = Block(p - S, h) \cup Block(p, h)
    BY <2>2, <2>4, <2>5, Split
  <2> QED
    BY <2>2, <2>3, <2>4, <2>5, <2>6
<1> QED
  BY <1>2, <1>3

(* Every page of the zone has a pageblock. *)
LEMMA PageHasPageblock ==
  ASSUME NEW p \in ZonePages
  PROVE  BitIdx(p) \in 0 .. NrPageblocks - 1
<1> DEFINE S == Size[PageblockOrder]
           a == p - zone_start_pfn
<1>1. S \in Nat \ {0}
  BY OrderAssumption, SizeAssumption DEF PageblockOrder
<1>2. a \in Nat /\ a <= spanned_pages - 1
  BY ZoneAssumption
<1>3. a \div S \in Nat /\ a \div S <= ((spanned_pages + S - 1) \div S) - 1
  <2> HIDE DEF S, a
  <2> QED
    BY <1>1, <1>2, ZoneAssumption
<1> QED
  BY <1>3, ZoneAssumption, <1>1 DEF BitIdx, NrPageblocks

-----------------------------------------------------------------------------
(* Replacing extents *)

(* Giving up the extents R and taking A in their place keeps the extents
   disjoint when A lies within R and is disjoint itself.                   *)
LEMMA ReplaceDisjoint ==
  ASSUME NEW E, NEW R, NEW A, NEW F,
         Disjoint(E), Disjoint(A), R \subseteq E,
         F \subseteq (E \ R) \cup A,
         \A a \in A : \A x \in Extent(a) : \E r \in R : x \in Extent(r)
  PROVE  Disjoint(F)
<1>1. SUFFICES ASSUME NEW e \in F, NEW f \in F, e # f,
                      NEW x, x \in Extent(e), x \in Extent(f)
               PROVE  FALSE
  BY DEF Disjoint
<1>2. \A a \in A, g \in E \ R : x \in Extent(a) => x \notin Extent(g)
  BY DEF Disjoint
<1> QED
  BY <1>1, <1>2 DEF Disjoint

(* Every extent has a head in the zone and an order. *)
LEMMA ExtentShape ==
  ASSUME TypeOK, LocalsFit, FlagsMatchLists, NEW e \in Extents
  PROVE  /\ e[2] \in ZonePages /\ e[2] \in Nat /\ e[3] \in Orders
         /\ e[2] \in Extent(e)
<1>1. e[2] \in ZonePages /\ e[3] \in Orders
  <2>1. CASE e \in FreeExtents
    BY <2>1 DEF FreeExtents, TypeOK, FlagsMatchLists, Lists
  <2>2. CASE e \in PcpExtents
    BY <2>2, OrdersBounded DEF PcpExtents
  <2>3. CASE e \in ReservedExtents
    BY <2>3, OrdersBounded DEF ReservedExtents, TypeOK
  <2>4. CASE e \in HeldExtents
    BY <2>4 DEF HeldExtents, TypeOK
  <2>5. CASE e \in InFlight
    BY <2>5 DEF InFlight, TypeOK, LocalsFit
  <2> QED
    BY <2>1, <2>2, <2>3, <2>4, <2>5 DEF Extents
<1> QED
  BY <1>1, ZoneInNat, HeadInBlock DEF Extent

(* The page of an extent is on no list and in no set other than its own. *)
LEMMA Owners ==
  ASSUME TypeOK, LocalsFit, FlagsMatchLists, NoOverlap,
         NEW e \in Extents, NEW x \in ZonePages, x \in Extent(e)
  PROVE  /\ x \in buddy => e = <<"free", x, private[x]>>
         /\ lru[x].kind = "free" => e = <<"free", x, private[x]>>
         /\ lru[x].kind = "pcp" => e = <<"pcp", x, 0>>
         /\ x \in reserved => e = <<"reserved", x, 0>>
         /\ held[x] # NotHead => e = <<"held", x, held[x]>>
<1>1. ASSUME NEW f \in Extents, x = f[2] PROVE e = f
  BY <1>1, ExtentShape DEF NoOverlap, Disjoint
<1>2. lru[x].kind = "free" => <<"free", x, private[x]>> \in Extents
  BY DEF Extents, FreeExtents
<1>3. lru[x].kind = "pcp" => <<"pcp", x, 0>> \in Extents
  BY DEF Extents, PcpExtents
<1>4. x \in reserved => <<"reserved", x, 0>> \in Extents
  BY DEF Extents, ReservedExtents
<1>5. held[x] # NotHead => <<"held", x, held[x]>> \in Extents
  BY DEF Extents, HeldExtents
<1>6. x \in buddy => lru[x].kind = "free"
  BY DEF FlagsMatchLists
<1> QED
  BY <1>1, <1>2, <1>3, <1>4, <1>5, <1>6

(* A step that replaces the extents R by A, which are as well aligned and
   cover the same pages, keeps the three invariants about extents.         *)
LEMMA ExtentsStep ==
  ASSUME IInv, NEW R, NEW A, R \subseteq Extents,
         Extents' = (Extents \ R) \cup A,
         Disjoint(A),
         \A a \in A : Aligned(a[2], a[3]),
         \A a \in A : \A x \in Extent(a) : \E r \in R : x \in Extent(r),
         \A r \in R : \A x \in Extent(r) : \E a \in A : x \in Extent(a)
  PROVE  NoOverlap' /\ NoLeak' /\ InZone'
<1>1. Disjoint(Extents')
  BY ReplaceDisjoint DEF IInv, NoOverlap
<1>2. NoOverlap'
  BY <1>1 DEF NoOverlap, Disjoint, Extent, Block
<1>3. ASSUME NEW p \in ZonePages PROVE \E e \in Extents' : p \in Extent(e)
  <2>1. PICK e \in Extents : p \in Extent(e)
    BY DEF IInv, NoLeak
  <2> QED
    BY <2>1
<1>4. NoLeak'
  BY <1>3 DEF NoLeak, Extent, Block
<1>5. ASSUME NEW e \in Extents' PROVE Extent(e) \subseteq ZonePages /\ Aligned(e[2], e[3])
  BY DEF IInv, InZone
<1>6. InZone'
  BY <1>5 DEF InZone, Extent, Block, Aligned
<1> QED
  BY <1>2, <1>4, <1>6

(* The same, when no extent changes. *)
LEMMA ExtentsSame ==
  ASSUME IInv, Extents' = Extents
  PROVE  NoOverlap' /\ NoLeak' /\ InZone'
BY DEF IInv, NoOverlap, NoLeak, InZone, Disjoint, Extent, Block, Aligned

(* The same, when one extent becomes another over the same pages. *)
LEMMA ExtentsPass ==
  ASSUME IInv, NEW r \in Extents, NEW a,
         Extents' = (Extents \ {r}) \cup {a},
         a[2] = r[2], a[3] = r[3]
  PROVE  NoOverlap' /\ NoLeak' /\ InZone'
<1>1. Extent(a) = Extent(r)
  BY DEF Extent
<1>2. Aligned(a[2], a[3])
  BY DEF IInv, InZone
<1> DEFINE R == {r}
           A == {a}
<1>3. Disjoint(A)
  BY DEF Disjoint
<1>4. \A c \in A : Aligned(c[2], c[3])
  BY <1>2
<1>5. \A c \in A : \A x \in Extent(c) : \E s \in R : x \in Extent(s)
  BY <1>1
<1>6. \A s \in R : \A x \in Extent(s) : \E c \in A : x \in Extent(c)
  BY <1>1
<1>7. R \subseteq Extents /\ Extents' = (Extents \ R) \cup A
  OBVIOUS
<1> QED
  <2> HIDE DEF R, A
  <2> QED
    BY <1>3, <1>4, <1>5, <1>6, <1>7, ExtentsStep

-----------------------------------------------------------------------------
(* Coalescing *)

(* Taking blocks off the free lists keeps coalescing complete. *)
LEMMA CoalescedWithFewer ==
  ASSUME Coalesced, buddy' \subseteq buddy, \A q \in buddy' : private'[q] = private[q]
  PROVE  Coalesced'
BY DEF Coalesced, BuddyIsFree, BuddyOf, Aligned

(* Putting the block of order o at p on a free list keeps it complete when the
   buddy of the block is not free.                                         *)
LEMMA CoalescedWithOneMore ==
  ASSUME IInv, NEW p \in ZonePages, NEW o \in Orders, Aligned(p, o),
         buddy' = buddy \cup {p},
         private' = [private EXCEPT ![p] = o],
         o < MaxOrder - 1 => ~BuddyIsFree(p, o),
         p \notin buddy
  PROVE  Coalesced'
<1>1. SUFFICES ASSUME NEW q \in buddy \cup {p}, private'[q] < MaxOrder - 1,
                      BuddyOf(q, private'[q]) \in ZonePages,
                      BuddyOf(q, private'[q]) \in buddy \cup {p},
                      private'[BuddyOf(q, private'[q])] = private'[q]
               PROVE  FALSE
  BY DEF Coalesced, BuddyIsFree, BuddyOf, Aligned
<1>2. private'[p] = o /\ \A x \in ZonePages : x # p => private'[x] = private[x]
  BY DEF IInv, TypeOK
<1>3. buddy \subseteq ZonePages
  BY DEF IInv, TypeOK
<1>4. CASE q = p
  <2>1. BuddyOf(p, o) # p
    BY Pair, ZoneInNat
  <2> QED
    BY <1>1, <1>2, <1>4, <2>1 DEF BuddyIsFree
<1>5. CASE q # p
  <2>1. private'[q] = private[q] /\ q \in buddy
    BY <1>1, <1>2, <1>3, <1>5
  <2>2. CASE BuddyOf(q, private[q]) # p
    BY <1>1, <1>2, <2>1, <2>2 DEF IInv, Coalesced, BuddyIsFree
  <2>3. CASE BuddyOf(q, private[q]) = p
    <3>1. private[q] = o
      BY <1>1, <1>2, <2>1, <2>3
    <3>2. <<"free", q, o>> \in Extents
      BY <3>1, <2>1, <1>3 DEF Extents, FreeExtents, IInv, FlagsMatchLists
    <3>3. Aligned(q, o)
      BY <3>2 DEF IInv, InZone
    <3>4. BuddyOf(p, o) = q
      BY <2>3, <3>1, <3>3, Pair, ZoneInNat, <1>3, <2>1
    <3> QED
      BY <3>1, <3>4, <1>1, <2>1, <1>3 DEF BuddyIsFree
  <2> QED
    BY <2>2, <2>3
<1> QED
  BY <1>4, <1>5

-----------------------------------------------------------------------------
(* The steps inside a call *)

(* One turn of the coalescing loop of __free_one_page. *)
LEMMA MergeKeeps == IInv /\ Merge => IInv'
<1> SUFFICES ASSUME IInv, Merge PROVE IInv'
  OBVIOUS
<1> DEFINE p == blk.page
           o == blk.order
           b == BuddyOf(p, o)
           m == IF b < p THEN b ELSE p
<1>1. /\ p \in ZonePages /\ p \in Nat /\ o \in Orders /\ o < MaxOrder - 1 /\ o + 1 \in Orders
      /\ b \in ZonePages /\ b \in buddy /\ private[b] = o /\ lru[b].kind = "free"
      /\ lru[b].order = o
  <2>1. p \in ZonePages /\ o \in Orders /\ o < MaxOrder - 1
    BY DEF IInv, TypeOK, LocalsFit, Merge, CanMerge
  <2>2. b \in ZonePages /\ b \in buddy /\ private[b] = o
    BY DEF Merge, CanMerge, BuddyIsFree
  <2>3. lru[b].kind = "free" /\ lru[b].order = o
    BY <2>2 DEF IInv, FlagsMatchLists
  <2>4. o + 1 \in Orders
    BY <2>1, OrderAssumption DEF Orders
  <2> QED
    BY <2>1, <2>2, <2>3, <2>4, ZoneInNat
<1>2. /\ lru' = [lru EXCEPT ![b] = NoList]
      /\ buddy' = buddy \ {b}
      /\ private' = [private EXCEPT ![b] = 0]
      /\ nr_free' = [nr_free EXCEPT ![o] = @ - 1]
      /\ blk' = [blk EXCEPT !.page = m, !.order = o + 1]
      /\ UNCHANGED <<count, reserved, held, pageblock, nr_free_pages, pcp_count, pc, bulk>>
      /\ pc = "merge"
  BY DEF Merge, callVars
<1>3. <<"cpu", p, o>> \in Extents /\ <<"free", b, o>> \in Extents
  BY <1>1, <1>2 DEF Extents, FreeExtents, InFlight
<1>4. Aligned(p, o) /\ m \in ZonePages
  BY <1>1, <1>3 DEF IInv, InZone
<1>5. /\ b # p
      /\ Aligned(m, o + 1)
      /\ Block(m, o + 1) = Block(p, o) \cup Block(b, o)
  BY <1>1, <1>4, Pair
<1>6. TypeOK'
  <2>1. blk' \in [page : ZonePages \cup {0}, order : Orders, low : Orders, mt : Types,
                 from : {"none", "free", "drain", "fill", "alloc"}]
    BY <1>1, <1>2, <1>4 DEF IInv, TypeOK
  <2>2. lru' \in [ZonePages -> Lists]
    BY <1>1, <1>2, OrdersBounded DEF IInv, TypeOK, NoList, Lists, Types, MIGRATE_RESERVE
  <2>3. private' \in [ZonePages -> Orders \cup Types]
    BY <1>2, OrdersBounded DEF IInv, TypeOK
  <2>4. nr_free' \in [Orders -> Int] /\ buddy' \subseteq ZonePages
    BY <1>1, <1>2 DEF IInv, TypeOK
  <2> QED
    BY <1>2, <2>1, <2>2, <2>3, <2>4 DEF IInv, TypeOK
<1>7. LocalsFit'
  BY <1>1, <1>2, <1>4 DEF IInv, TypeOK, LocalsFit, NoList, Orders
<1>8. FlagsMatchLists'
  BY <1>1, <1>2 DEF IInv, TypeOK, FlagsMatchLists, NoList
<1>9. Extents' = (Extents \ {<<"cpu", p, o>>, <<"free", b, o>>}) \cup {<<"cpu", m, o + 1>>}
  <2>1. FreeExtents' = FreeExtents \ {<<"free", b, o>>}
    BY <1>1, <1>2 DEF IInv, TypeOK, FreeExtents, NoList
  <2>2. PcpExtents' = PcpExtents
    BY <1>1, <1>2 DEF IInv, TypeOK, PcpExtents, NoList
  <2>3. ReservedExtents' = ReservedExtents /\ HeldExtents' = HeldExtents
    BY <1>2 DEF ReservedExtents, HeldExtents
  <2>4. InFlight = {<<"cpu", p, o>>} /\ InFlight' = {<<"cpu", m, o + 1>>}
    BY <1>1, <1>2 DEF IInv, TypeOK, InFlight
  <2> QED
    BY <2>1, <2>2, <2>3, <2>4
    DEF Extents, FreeExtents, PcpExtents, ReservedExtents, HeldExtents
<1>10. NoOverlap' /\ NoLeak' /\ InZone'
  <2> DEFINE R == {<<"cpu", p, o>>, <<"free", b, o>>}
             A == {<<"cpu", m, o + 1>>}
  <2>1. R \subseteq Extents /\ Extents' = (Extents \ R) \cup A
    BY <1>3, <1>9
  <2>2. Disjoint(A)
    BY DEF Disjoint
  <2>3. \A a \in A : Aligned(a[2], a[3])
    BY <1>5
  <2>4. \A a \in A : \A x \in Extent(a) : \E r \in R : x \in Extent(r)
    BY <1>5 DEF Extent
  <2>5. \A r \in R : \A x \in Extent(r) : \E a \in A : x \in Extent(a)
    BY <1>5 DEF Extent
  <2> HIDE DEF R, A
  <2> QED
    BY <2>1, <2>2, <2>3, <2>4, <2>5, ExtentsStep
<1>11. Coalesced'
  BY <1>1, <1>2, CoalescedWithFewer DEF IInv, TypeOK
<1>12. HeldIffReferenced'
  BY <1>2 DEF IInv, HeldIffReferenced
<1> QED
  BY <1>6, <1>7, <1>8, <1>10, <1>11, <1>12 DEF IInv

(* The end of __free_one_page. *)
LEMMA PlaceKeeps == IInv /\ Place => IInv'
<1> SUFFICES ASSUME IInv, Place PROVE IInv'
  OBVIOUS
<1> DEFINE p == blk.page
           o == blk.order
<1>1. /\ p \in ZonePages /\ p \in Nat /\ o \in Orders /\ blk.mt \in Types /\ blk.low \in Orders
      /\ pc = "merge" /\ pc' \in {"idle", "drain"}
  BY ZoneInNat DEF IInv, TypeOK, LocalsFit, Place
<1>2. /\ lru' = [lru EXCEPT ![p] = FreeList(o, blk.mt)]
      /\ buddy' = buddy \cup {p}
      /\ private' = [private EXCEPT ![p] = o]
      /\ nr_free' = [nr_free EXCEPT ![o] = @ + 1]
      /\ blk' = NoBlk
      /\ UNCHANGED <<count, reserved, held, pageblock, pcp_count, bulk>>
  BY DEF Place, callVars
<1>3. <<"cpu", p, o>> \in Extents /\ p \in Extent(<<"cpu", p, o>>)
  BY <1>1, HeadInBlock DEF Extents, InFlight, Extent
<1>4. Aligned(p, o)
  BY <1>3 DEF IInv, InZone
<1>5. p \notin buddy /\ lru[p].kind = "none"
  <2>1. lru[p].kind \in {"none", "free", "pcp"}
    BY <1>1 DEF IInv, TypeOK, Lists
  <2> QED
    BY <1>1, <1>3, <2>1, Owners DEF IInv
<1>6. TypeOK'
  <2>1. nr_free_pages' \in Int
    <3>1. \A x \in Orders : Size[x] \in Int
      BY OrdersBounded
    <3> QED
      BY <1>1, <3>1 DEF IInv, TypeOK, Place, FreedPages
  <2>2. lru' \in [ZonePages -> Lists] /\ blk' \in [page : ZonePages \cup {0}, order : Orders, low : Orders, mt : Types,
                 from : {"none", "free", "drain", "fill", "alloc"}]
    BY <1>1, <1>2, OrdersBounded DEF IInv, TypeOK, FreeList, Lists, NoBlk, Types, MIGRATE_RESERVE
  <2>3. private' \in [ZonePages -> Orders \cup Types]
    BY <1>1, <1>2 DEF IInv, TypeOK
  <2>4. nr_free' \in [Orders -> Int] /\ buddy' \subseteq ZonePages /\ pc' \in PCs
    BY <1>1, <1>2 DEF IInv, TypeOK, PCs
  <2> QED
    BY <1>2, <2>1, <2>2, <2>3, <2>4 DEF IInv, TypeOK
<1>7. LocalsFit'
  BY <1>1, <1>2 DEF IInv, TypeOK, LocalsFit, FreeList
<1>8. FlagsMatchLists'
  BY <1>1, <1>2 DEF IInv, TypeOK, FlagsMatchLists, FreeList
<1>9. Extents' = (Extents \ {<<"cpu", p, o>>}) \cup {<<"free", p, o>>}
  <2>1. FreeExtents' = FreeExtents \cup {<<"free", p, o>>}
    BY <1>1, <1>2, <1>5 DEF IInv, TypeOK, FreeExtents, FreeList
  <2>2. PcpExtents' = PcpExtents
    BY <1>1, <1>2, <1>5 DEF IInv, TypeOK, PcpExtents, FreeList
  <2>3. ReservedExtents' = ReservedExtents /\ HeldExtents' = HeldExtents
    BY <1>2 DEF ReservedExtents, HeldExtents
  <2>4. InFlight = {<<"cpu", p, o>>} /\ InFlight' = {}
    BY <1>1, <1>2 DEF InFlight
  <2> QED
    BY <2>1, <2>2, <2>3, <2>4
    DEF Extents, FreeExtents, PcpExtents, ReservedExtents, HeldExtents
<1>10. NoOverlap' /\ NoLeak' /\ InZone'
  BY <1>3, <1>9, ExtentsPass
<1>11. Coalesced'
  BY <1>1, <1>2, <1>4, <1>5, CoalescedWithOneMore DEF Place, CanMerge
<1>12. HeldIffReferenced'
  BY <1>2 DEF IInv, HeldIffReferenced
<1> QED
  BY <1>6, <1>7, <1>8, <1>10, <1>11, <1>12 DEF IInv

(* One page of free_pcppages_bulk goes from its pcp list to __free_one_page. *)
LEMMA DrainOneKeeps == IInv /\ DrainOne => IInv'
<1> SUFFICES ASSUME IInv, DrainOne PROVE IInv'
  OBVIOUS
<1>1. PICK turns \in 0 .. MIGRATE_PCPTYPES, t \in PcpTypes, p \in ZonePages :
        /\ p \in OnPcp(t)
        /\ NextPcpList(t, turns)
        /\ lru' = [lru EXCEPT ![p] = NoList]
        /\ StartMerge(p, 0, private[p], "drain")
        /\ bulk' = [bulk EXCEPT !.todo = @ - 1, !.done = @ + 1, !.mt = t,
                                !.credit = @ + turns - 1]
  BY DEF DrainOne, OnPcp
<1>2. /\ p \in ZonePages /\ lru[p].kind = "pcp" /\ private[p] \in Types
      /\ pc = "drain" /\ pc' = "merge" /\ bulk.todo > 0
      /\ blk' = [page |-> p, order |-> 0, low |-> 0, mt |-> private[p], from |-> "drain"]
      /\ UNCHANGED <<buddy, private, count, reserved, held, pageblock, nr_free,
                     nr_free_pages, pcp_count>>
  <2>1. p \in ZonePages /\ lru[p].kind = "pcp"
    BY <1>1 DEF OnPcp, PcpList
  <2> QED
    BY <1>1, <2>1 DEF DrainOne, StartMerge, callVars, IInv, LocalsFit
<1>3. <<"pcp", p, 0>> \in Extents
  BY <1>2 DEF Extents, PcpExtents
<1>4. TypeOK'
  <2>1. bulk.credit + turns - 1 \in Nat
    <3>1. turns = 0 => bulk.credit > 0
      BY <1>1, <1>2, OrdersBounded DEF NextPcpList, MIGRATE_PCPTYPES
    <3> QED
      BY <3>1 DEF IInv, TypeOK, MIGRATE_PCPTYPES
  <2>2. bulk' \in [todo : 0 .. PcpBatch, done : 0 .. PcpBatch, mt : PcpTypes, credit : Nat]
    <3>1. bulk.todo - 1 \in 0 .. PcpBatch /\ bulk.done + 1 \in 0 .. PcpBatch
      BY <1>2, PcpAssumption DEF IInv, TypeOK, LocalsFit
    <3> QED
      BY <1>1, <2>1, <3>1 DEF IInv, TypeOK
  <2>3. lru' \in [ZonePages -> Lists]
    BY <1>1, OrdersBounded DEF IInv, TypeOK, NoList, Lists, Types, MIGRATE_RESERVE
  <2>4. blk' \in [page : ZonePages \cup {0}, order : Orders, low : Orders, mt : Types,
                 from : {"none", "free", "drain", "fill", "alloc"}]
    BY <1>2, OrdersBounded
  <2> QED
    BY <1>2, <2>2, <2>3, <2>4 DEF IInv, TypeOK, PCs
<1>5. LocalsFit'
  BY <1>1, <1>2 DEF IInv, TypeOK, LocalsFit, NoList
<1>6. FlagsMatchLists'
  BY <1>1, <1>2 DEF IInv, TypeOK, FlagsMatchLists, NoList
<1>7. Extents' = (Extents \ {<<"pcp", p, 0>>}) \cup {<<"cpu", p, 0>>}
  <2>1. FreeExtents' = FreeExtents
    BY <1>1, <1>2 DEF IInv, TypeOK, FreeExtents, NoList
  <2>2. PcpExtents' = PcpExtents \ {<<"pcp", p, 0>>}
    BY <1>1, <1>2 DEF IInv, TypeOK, PcpExtents, NoList
  <2>3. ReservedExtents' = ReservedExtents /\ HeldExtents' = HeldExtents
    BY <1>2 DEF ReservedExtents, HeldExtents
  <2>4. InFlight = {} /\ InFlight' = {<<"cpu", p, 0>>}
    BY <1>2 DEF InFlight
  <2> QED
    BY <2>1, <2>2, <2>3, <2>4
    DEF Extents, FreeExtents, PcpExtents, ReservedExtents, HeldExtents
<1>8. NoOverlap' /\ NoLeak' /\ InZone'
  BY <1>3, <1>7, ExtentsPass
<1>9. Coalesced'
  BY <1>2, CoalescedWithFewer DEF IInv
<1>10. HeldIffReferenced'
  BY <1>2 DEF IInv, HeldIffReferenced
<1> QED
  BY <1>4, <1>5, <1>6, <1>8, <1>9, <1>10 DEF IInv

(* The end of free_pcppages_bulk: only counters and locals change. *)
LEMMA DrainEndKeeps == IInv /\ DrainEnd => IInv'
<1> SUFFICES ASSUME IInv, DrainEnd PROVE IInv'
  OBVIOUS
<1>1. /\ pc = "drain" /\ pc' = "idle" /\ bulk' = NoBulk
      /\ nr_free_pages' = nr_free_pages + bulk.done /\ pcp_count' = pcp_count - PcpBatch
      /\ UNCHANGED <<lru, buddy, private, count, reserved, held, pageblock, nr_free, blk>>
  BY DEF DrainEnd, pageVars, callVars
<1>2. TypeOK'
  BY <1>1, PcpAssumption DEF IInv, TypeOK, NoBulk, PCs, PcpTypes, MIGRATE_PCPTYPES
<1>3. LocalsFit'
  BY <1>1, PcpAssumption DEF IInv, LocalsFit, NoBulk
<1>4. FlagsMatchLists'
  BY <1>1 DEF IInv, FlagsMatchLists
<1>5. Extents' = Extents
  BY <1>1 DEF Extents, FreeExtents, PcpExtents, ReservedExtents, HeldExtents, InFlight
<1>6. Coalesced' /\ HeldIffReferenced'
  BY <1>1, CoalescedWithFewer DEF IInv, HeldIffReferenced
<1> QED
  BY <1>2, <1>3, <1>4, <1>5, <1>6, ExtentsSame DEF IInv

(* Entry of rmqueue_bulk. *)
LEMMA StartFillKeeps == ASSUME NEW t \in AllocTypes PROVE IInv /\ StartFill(t) => IInv'
<1> SUFFICES ASSUME IInv, StartFill(t) PROVE IInv'
  OBVIOUS
<1>1. /\ pc = "idle" /\ pc' = "fill"
      /\ bulk' = [todo |-> PcpBatch, done |-> 0, mt |-> t, credit |-> 0]
      /\ UNCHANGED <<lru, buddy, private, count, reserved, held, pageblock, nr_free,
                     nr_free_pages, pcp_count, blk>>
  BY DEF StartFill, pageVars, callVars
<1>2. TypeOK'
  BY <1>1, PcpAssumption, CallerAssumption DEF IInv, TypeOK, PCs
<1>3. LocalsFit'
  BY <1>1, PcpAssumption DEF IInv, LocalsFit
<1>4. FlagsMatchLists'
  BY <1>1 DEF IInv, FlagsMatchLists
<1>5. Extents' = Extents
  BY <1>1 DEF Extents, FreeExtents, PcpExtents, ReservedExtents, HeldExtents, InFlight
<1>6. Coalesced' /\ HeldIffReferenced'
  BY <1>1, CoalescedWithFewer DEF IInv, HeldIffReferenced
<1> QED
  BY <1>2, <1>3, <1>4, <1>5, <1>6, ExtentsSame DEF IInv

(* A page leaves its pcp list for a caller: what AllocPcp and FillEnd share. *)
LEMMA HandFromPcp ==
  ASSUME IInv, pc \in {"idle", "fill"}, NEW p \in ZonePages, lru[p].kind = "pcp",
         lru' = [lru EXCEPT ![p] = NoList],
         private' = [private EXCEPT ![p] = 0],
         Hand(p, 0),
         pc' = "idle",
         pcp_count' \in Int, nr_free_pages' \in Int,
         bulk' \in [todo : 0 .. PcpBatch, done : 0 .. PcpBatch, mt : PcpTypes, credit : Nat],
         bulk'.todo + bulk'.done <= PcpBatch,
         UNCHANGED <<buddy, reserved, pageblock, nr_free, blk>>
  PROVE  IInv'
<1>1. held' = [held EXCEPT ![p] = 0] /\ count' = [count EXCEPT ![p] = 1]
  BY DEF Hand
<1>2. <<"pcp", p, 0>> \in Extents /\ p \in Extent(<<"pcp", p, 0>>)
  BY ZoneInNat, OnePage DEF Extents, PcpExtents, Extent
<1>3. p \notin buddy /\ p \notin reserved /\ held[p] = NotHead
  BY <1>2, Owners DEF IInv
<1>4. TypeOK'
  <2>1. lru' \in [ZonePages -> Lists] /\ private' \in [ZonePages -> Orders \cup Types]
    BY OrdersBounded DEF IInv, TypeOK, NoList, Lists, Types, MIGRATE_RESERVE
  <2>2. held' \in [ZonePages -> Orders \cup {NotHead}] /\ count' \in [ZonePages -> 0 .. MaxCount]
    BY <1>1, OrdersBounded, CallerAssumption DEF IInv, TypeOK
  <2> QED
    BY <2>1, <2>2 DEF IInv, TypeOK, PCs
<1>5. LocalsFit'
  BY DEF IInv, TypeOK, LocalsFit, NoList
<1>6. FlagsMatchLists'
  BY <1>3 DEF IInv, TypeOK, FlagsMatchLists, NoList
<1>7. Extents' = (Extents \ {<<"pcp", p, 0>>}) \cup {<<"held", p, 0>>}
  <2>1. FreeExtents' = FreeExtents
    BY <1>3 DEF IInv, TypeOK, FreeExtents, NoList
  <2>2. PcpExtents' = PcpExtents \ {<<"pcp", p, 0>>}
    BY DEF IInv, TypeOK, PcpExtents, NoList
  <2>3. ReservedExtents' = ReservedExtents
    BY DEF ReservedExtents
  <2>4. HeldExtents' = HeldExtents \cup {<<"held", p, 0>>}
    BY <1>1, <1>3 DEF IInv, TypeOK, HeldExtents, NotHead
  <2>5. InFlight = {} /\ InFlight' = {}
    BY DEF InFlight
  <2> QED
    BY <2>1, <2>2, <2>3, <2>4, <2>5
    DEF Extents, FreeExtents, PcpExtents, ReservedExtents, HeldExtents
<1>8. NoOverlap' /\ NoLeak' /\ InZone'
  BY <1>2, <1>7, ExtentsPass
<1>9. Coalesced'
  BY <1>3, CoalescedWithFewer DEF IInv, TypeOK
<1>10. HeldIffReferenced'
  BY <1>1 DEF IInv, TypeOK, HeldIffReferenced, NotHead
<1> QED
  BY <1>4, <1>5, <1>6, <1>8, <1>9, <1>10 DEF IInv

LEMMA AllocPcpKeeps == ASSUME NEW t \in AllocTypes PROVE IInv /\ AllocPcp(t) => IInv'
<1> SUFFICES ASSUME IInv, AllocPcp(t) PROVE IInv'
  OBVIOUS
<1>1. PICK p \in OnPcp(t) : /\ lru' = [lru EXCEPT ![p] = NoList]
                            /\ private' = [private EXCEPT ![p] = 0]
                            /\ Hand(p, 0)
  BY DEF AllocPcp
<1>2. p \in ZonePages /\ lru[p].kind = "pcp"
  BY DEF OnPcp, PcpList
<1>3. /\ pc = "idle" /\ pc' = "idle" /\ bulk' = bulk
      /\ pcp_count' = pcp_count - 1
      /\ UNCHANGED <<buddy, reserved, pageblock, nr_free, nr_free_pages, blk>>
  BY DEF AllocPcp
<1>4. pcp_count' \in Int /\ nr_free_pages' \in Int
  BY <1>3 DEF IInv, TypeOK
<1>5. /\ bulk' \in [todo : 0 .. PcpBatch, done : 0 .. PcpBatch, mt : PcpTypes, credit : Nat]
      /\ bulk'.todo + bulk'.done <= PcpBatch
  BY <1>3 DEF IInv, TypeOK, LocalsFit
<1> QED
  BY <1>1, <1>2, <1>3, <1>4, <1>5, HandFromPcp

(* The end of rmqueue_bulk and of buffered_rmqueue. *)
LEMMA FillEndKeeps == IInv /\ FillEnd => IInv'
<1> SUFFICES ASSUME IInv, FillEnd PROVE IInv'
  OBVIOUS
<1>1. /\ pc = "fill" /\ pc' = "idle" /\ bulk' = NoBulk
      /\ nr_free_pages' = nr_free_pages - bulk.done
      /\ UNCHANGED <<buddy, reserved, pageblock, nr_free, blk>>
  BY DEF FillEnd
<1>2. nr_free_pages' \in Int
  BY <1>1 DEF IInv, TypeOK
<1>3. /\ bulk' \in [todo : 0 .. PcpBatch, done : 0 .. PcpBatch, mt : PcpTypes, credit : Nat]
      /\ bulk'.todo + bulk'.done <= PcpBatch
  BY <1>1, PcpAssumption DEF NoBulk, PcpTypes, MIGRATE_PCPTYPES
<1>4. CASE /\ pcp_count' = pcp_count + bulk.done
           /\ UNCHANGED <<lru, private, held, count>>
  <2>1. TypeOK'
    BY <1>1, <1>2, <1>3, <1>4 DEF IInv, TypeOK, PCs
  <2>2. LocalsFit'
    BY <1>1, <1>3, <1>4 DEF IInv, LocalsFit
  <2>3. FlagsMatchLists'
    BY <1>1, <1>4 DEF IInv, FlagsMatchLists
  <2>4. Extents' = Extents
    BY <1>1, <1>4
    DEF Extents, FreeExtents, PcpExtents, ReservedExtents, HeldExtents, InFlight
  <2>5. Coalesced' /\ HeldIffReferenced'
    BY <1>1, <1>4, CoalescedWithFewer DEF IInv, HeldIffReferenced
  <2> QED
    BY <2>1, <2>2, <2>3, <2>4, <2>5, ExtentsSame DEF IInv
<1>5. ASSUME NEW p \in OnPcp(bulk.mt),
             lru' = [lru EXCEPT ![p] = NoList],
             private' = [private EXCEPT ![p] = 0],
             Hand(p, 0),
             pcp_count' = pcp_count + bulk.done - 1
      PROVE  IInv'
  <2>1. p \in ZonePages /\ lru[p].kind = "pcp"
    BY DEF OnPcp, PcpList
  <2>2. pcp_count' \in Int
    BY <1>5 DEF IInv, TypeOK
  <2> QED
    BY <1>1, <1>2, <1>3, <1>5, <2>1, <2>2, HandFromPcp
<1> QED
  BY <1>4, <1>5 DEF FillEnd

(* The free blocks that move_freepages_block relinks keep their order, and
   __rmqueue_fallback takes the block it found off its list.               *)
LEMMA FallbackLruKinds ==
  ASSUME TypeOK, FlagsMatchLists, NEW p \in ZonePages, NEW c \in Orders, NEW t \in PcpTypes
  PROVE  /\ FallbackLru(p, c, t) \in [ZonePages -> Lists]
         /\ FallbackLru(p, c, t)[p] = NoList
         /\ \A q \in ZonePages : q # p =>
              /\ FallbackLru(p, c, t)[q].kind = lru[q].kind
              /\ FallbackLru(p, c, t)[q].order = lru[q].order
<1> DEFINE new(q) == IF q = p THEN NoList
                     ELSE IF TakesOver(c, t) /\ q \in MovedBlocks(p)
                          THEN FreeList(private[q], t)
                     ELSE lru[q]
<1>1. FallbackLru(p, c, t) = [q \in ZonePages |-> new(q)]
  BY DEF FallbackLru
<1>2. NoList \in Lists
  BY OrdersBounded DEF NoList, Lists, Types, MIGRATE_RESERVE
<1>3. \A q \in ZonePages : lru[q] \in Lists
  BY DEF TypeOK
<1>4. t \in Types
  BY DEF PcpTypes, Types, MIGRATE_PCPTYPES, MIGRATE_RESERVE
<1>5. ASSUME NEW q \in ZonePages, q \in MovedBlocks(p)
      PROVE  /\ FreeList(private[q], t) \in Lists
             /\ lru[q].kind = "free" /\ lru[q].order = private[q]
  <2>1. lru[q].kind = "free" /\ lru[q].order = private[q]
    BY <1>5 DEF MovedBlocks, FlagsMatchLists
  <2>2. private[q] \in Orders
    BY <1>3, <2>1 DEF Lists
  <2> QED
    BY <1>4, <2>1, <2>2 DEF FreeList, Lists
<1>6. ASSUME NEW q \in ZonePages
      PROVE  /\ new(q) \in Lists
             /\ q # p => new(q).kind = lru[q].kind /\ new(q).order = lru[q].order
  BY <1>2, <1>3, <1>5 DEF FreeList
<1> QED
  BY <1>1, <1>6

(* The block of order c at p leaves its free list and expand starts on it. *)
LEMMA TakeOffKeeps ==
  ASSUME IInv, pc \in {"idle", "fill"},
         NEW o \in Orders, NEW c \in o .. MaxOrder - 1, NEW u \in Types, NEW p \in ZonePages,
         NEW from,
         \/ from = "fill" /\ o = 0 /\ bulk.todo > 0
         \/ from = "alloc",
         lru[p].kind = "free", lru[p].order = c,
         lru' \in [ZonePages -> Lists],
         lru'[p] = NoList,
         \A q \in ZonePages : q # p => /\ lru'[q].kind = lru[q].kind
                                       /\ lru'[q].order = lru[q].order,
         pageblock' \in [0 .. NrPageblocks - 1 -> Types],
         TakeOff(o, c, u, p, from),
         UNCHANGED <<count, reserved, held, nr_free_pages, pcp_count, bulk>>
  PROVE  IInv'
<1>1. /\ buddy' = buddy \ {p}
      /\ private' = [private EXCEPT ![p] = 0]
      /\ nr_free' = [nr_free EXCEPT ![c] = @ - 1]
      /\ pc' = "expand"
      /\ blk' = [page |-> p, order |-> c, low |-> o, mt |-> u, from |-> from]
  BY DEF TakeOff
<1>2. c \in Orders /\ o <= c
  BY OrderAssumption DEF Orders
<1>3. p \in buddy /\ private[p] = c
  BY DEF IInv, FlagsMatchLists
<1>4. <<"free", p, c>> \in Extents
  BY <1>3 DEF Extents, FreeExtents
<1>5. TypeOK'
  <2>1. blk' \in [page : ZonePages \cup {0}, order : Orders, low : Orders, mt : Types,
                 from : {"none", "free", "drain", "fill", "alloc"}]
    BY <1>1, <1>2
  <2>2. private' \in [ZonePages -> Orders \cup Types] /\ buddy' \subseteq ZonePages
    BY <1>1, OrdersBounded DEF IInv, TypeOK
  <2>3. nr_free' \in [Orders -> Int] /\ pc' \in PCs
    BY <1>1, <1>2 DEF IInv, TypeOK, PCs
  <2> QED
    BY <2>1, <2>2, <2>3 DEF IInv, TypeOK
<1>6. LocalsFit'
  <2>1. ASSUME NEW q \in ZonePages, lru'[q].kind = "pcp" PROVE private'[q] \in Types
    <3>1. q # p
      BY <2>1 DEF NoList
    <3> QED
      BY <1>1, <2>1, <3>1 DEF IInv, TypeOK, LocalsFit
  <2> QED
    BY <1>1, <1>2, <2>1 DEF IInv, LocalsFit
<1>7. FlagsMatchLists'
  <2>1. lru'[p].kind = "none" /\ p \notin buddy'
    BY <1>1 DEF NoList
  <2>2. ASSUME NEW q \in ZonePages, q # p
        PROVE  /\ q \in buddy' <=> lru'[q].kind = "free"
               /\ q \in buddy' => private'[q] = lru'[q].order
    <3>1. lru'[q].kind = lru[q].kind /\ lru'[q].order = lru[q].order
      BY <2>2
    <3> QED
      BY <1>1, <2>2, <3>1 DEF IInv, TypeOK, FlagsMatchLists
  <2> QED
    BY <2>1, <2>2 DEF FlagsMatchLists
<1>8. Extents' = (Extents \ {<<"free", p, c>>}) \cup {<<"cpu", p, c>>}
  <2>1. FreeExtents' = FreeExtents \ {<<"free", p, c>>}
    BY <1>1, <1>3 DEF IInv, TypeOK, FreeExtents, NoList
  <2>2. PcpExtents' = PcpExtents
    BY DEF PcpExtents, NoList
  <2>3. ReservedExtents' = ReservedExtents /\ HeldExtents' = HeldExtents
    BY DEF ReservedExtents, HeldExtents
  <2>4. InFlight = {} /\ InFlight' = {<<"cpu", p, c>>}
    BY <1>1 DEF InFlight
  <2> QED
    BY <2>1, <2>2, <2>3, <2>4
    DEF Extents, FreeExtents, PcpExtents, ReservedExtents, HeldExtents
<1>9. NoOverlap' /\ NoLeak' /\ InZone'
  BY <1>4, <1>8, ExtentsPass
<1>10. Coalesced'
  BY <1>1, CoalescedWithFewer DEF IInv, TypeOK
<1>11. HeldIffReferenced'
  BY DEF IInv, HeldIffReferenced
<1> QED
  BY <1>5, <1>6, <1>7, <1>9, <1>10, <1>11 DEF IInv

(* __rmqueue finds a block, on the lists of the wanted type, of a fallback, or
   of the reserve.                                                         *)
LEMMA RmqueueKeeps ==
  ASSUME IInv, pc \in {"idle", "fill"},
         NEW o \in Orders, NEW t \in PcpTypes, NEW from,
         \/ from = "fill" /\ o = 0 /\ bulk.todo > 0
         \/ from = "alloc",
         Rmqueue(o, t, from),
         UNCHANGED <<count, reserved, held, nr_free_pages, pcp_count, bulk>>
  PROVE  IInv'
<1>1. t \in Types /\ MIGRATE_RESERVE \in Types
  BY DEF PcpTypes, Types, MIGRATE_PCPTYPES, MIGRATE_RESERVE
<1>2. \A c \in o .. MaxOrder - 1 : c \in Orders
  BY OrderAssumption DEF Orders
<1>3. ASSUME NEW c \in o .. MaxOrder - 1, NEW u \in {t, MIGRATE_RESERVE}, NEW p \in ZonePages,
             SmallestFinds(o, u, c, p),
             lru' = [lru EXCEPT ![p] = NoList],
             TakeOff(o, c, u, p, from),
             UNCHANGED pageblock
      PROVE  IInv'
  <2>1. lru[p].kind = "free" /\ lru[p].order = c
    BY <1>3 DEF SmallestFinds, OnFree, FreeList
  <2>2. lru' \in [ZonePages -> Lists] /\ lru'[p] = NoList
    BY <1>3, OrdersBounded DEF IInv, TypeOK, NoList, Lists, Types, MIGRATE_RESERVE
  <2>3. \A q \in ZonePages : q # p => lru'[q].kind = lru[q].kind /\ lru'[q].order = lru[q].order
    BY <1>3 DEF IInv, TypeOK
  <2>4. pageblock' \in [0 .. NrPageblocks - 1 -> Types] /\ u \in Types
    BY <1>1, <1>3 DEF IInv, TypeOK
  <2> QED
    BY <1>3, <2>1, <2>2, <2>3, <2>4, TakeOffKeeps
<1>4. ASSUME NEW c \in o .. MaxOrder - 1, NEW ft \in Types, NEW p \in ZonePages,
             FallbackFinds(o, t, c, ft, p),
             lru' = FallbackLru(p, c, t),
             pageblock' = FallbackPageblock(p, c, t),
             TakeOff(o, c, IF TakesOver(c, t) THEN t ELSE ft, p, from)
      PROVE  IInv'
  <2>1. lru[p].kind = "free" /\ lru[p].order = c /\ c \in Orders
    BY <1>2, <1>4 DEF FallbackFinds, OnFree, FreeList
  <2>2. /\ lru' \in [ZonePages -> Lists] /\ lru'[p] = NoList
        /\ \A q \in ZonePages : q # p => lru'[q].kind = lru[q].kind /\ lru'[q].order = lru[q].order
    BY <1>4, <2>1, FallbackLruKinds DEF IInv
  <2>3. pageblock' \in [0 .. NrPageblocks - 1 -> Types]
    <3>1. pageblock \in [0 .. NrPageblocks - 1 -> Types]
      BY DEF IInv, TypeOK
    <3>2. (IF MobilityDisabled THEN MIGRATE_UNMOVABLE ELSE t) \in Types
      BY <1>1 DEF Types, MIGRATE_UNMOVABLE, MIGRATE_RESERVE
    <3>3. SetPageblock(p, t) \in [0 .. NrPageblocks - 1 -> Types]
      BY <3>1, <3>2 DEF SetPageblock
    <3> QED
      BY <1>4, <3>1, <3>3 DEF FallbackPageblock
  <2>4. (IF TakesOver(c, t) THEN t ELSE ft) \in Types
    BY <1>1
  <2> QED
    BY <1>4, <2>1, <2>2, <2>3, <2>4, TakeOffKeeps
<1> QED
  BY <1>3, <1>4 DEF Rmqueue

(* One turn of the loop of rmqueue_bulk. *)
LEMMA FillKeeps == IInv /\ Fill => IInv'
<1> SUFFICES ASSUME IInv, Fill PROVE IInv'
  OBVIOUS
<1>1. /\ pc = "fill" /\ bulk.todo > 0
      /\ UNCHANGED <<count, reserved, held, nr_free_pages, pcp_count>>
  BY DEF Fill, callVars
<1>2. CASE Rmqueue(0, bulk.mt, "fill") /\ UNCHANGED bulk
  BY <1>1, <1>2, RmqueueKeeps, OrdersBounded DEF IInv, TypeOK
<1>3. CASE /\ bulk' = [bulk EXCEPT !.todo = 0]
           /\ UNCHANGED <<pageVars, pageblock, nr_free, pc, blk>>
  <2>1. UNCHANGED <<lru, buddy, private, pageblock, nr_free, pc, blk>>
    BY <1>3 DEF pageVars
  <2>2. bulk'.todo = 0 /\ bulk'.done = bulk.done
        /\ bulk' \in [todo : 0 .. PcpBatch, done : 0 .. PcpBatch, mt : PcpTypes, credit : Nat]
    <3>1. 0 \in 0 .. PcpBatch
      BY PcpAssumption
    <3> QED
      BY <1>3, <3>1 DEF IInv, TypeOK
  <2>3. TypeOK' /\ FlagsMatchLists' /\ HeldIffReferenced'
    BY <1>1, <2>1, <2>2 DEF IInv, TypeOK, FlagsMatchLists, HeldIffReferenced
  <2>4. LocalsFit'
    <3>1. bulk'.todo + bulk'.done <= PcpBatch
      BY <2>2, PcpAssumption
    <3> QED
      BY <1>1, <2>1, <3>1 DEF IInv, LocalsFit
  <2>5. Extents' = Extents
    BY <1>1, <2>1
    DEF Extents, FreeExtents, PcpExtents, ReservedExtents, HeldExtents, InFlight
  <2>6. Coalesced'
    BY <2>1, CoalescedWithFewer DEF IInv
  <2> QED
    BY <2>3, <2>4, <2>5, <2>6, ExtentsSame DEF IInv
<1> QED
  BY <1>2, <1>3 DEF Fill

LEMMA AllocBlockKeeps ==
  ASSUME NEW o \in Orders, NEW t \in AllocTypes
  PROVE  IInv /\ AllocBlock(o, t) => IInv'
<1> SUFFICES ASSUME IInv, AllocBlock(o, t) PROVE IInv'
  OBVIOUS
<1>1. /\ pc = "idle" /\ Rmqueue(o, t, "alloc")
      /\ UNCHANGED <<count, reserved, held, nr_free_pages, pcp_count, bulk>>
  BY DEF AllocBlock, callVars
<1> QED
  BY <1>1, CallerAssumption, RmqueueKeeps

(* One turn of the loop of expand: the upper half is freed. *)
LEMMA ExpandKeeps == IInv /\ Expand => IInv'
<1> SUFFICES ASSUME IInv, Expand PROVE IInv'
  OBVIOUS
<1> DEFINE p == blk.page
           h == blk.order - 1
           up == p + Size[h]
<1>1. /\ p \in ZonePages /\ p \in Nat /\ blk.order \in Orders /\ blk.low \in Orders
      /\ blk.order > blk.low /\ blk.mt \in Types /\ pc = "expand"
  BY ZoneInNat DEF IInv, TypeOK, LocalsFit, Expand
<1>2. h \in Orders /\ h + 1 = blk.order /\ blk.low <= h
  BY <1>1, OrderAssumption DEF Orders
<1>3. /\ lru' = [lru EXCEPT ![up] = FreeList(h, blk.mt)]
      /\ buddy' = buddy \cup {up}
      /\ private' = [private EXCEPT ![up] = h]
      /\ nr_free' = [nr_free EXCEPT ![h] = @ + 1]
      /\ blk' = [blk EXCEPT !.order = h]
      /\ UNCHANGED <<count, reserved, held, pageblock, nr_free_pages, pcp_count, pc, bulk>>
  BY DEF Expand, callVars
<1>4. <<"cpu", p, h + 1>> \in Extents
  BY <1>1, <1>2 DEF Extents, InFlight
<1>5. Aligned(p, h + 1) /\ Block(p, h + 1) \subseteq ZonePages
  BY <1>4 DEF IInv, InZone, Extent
<1>6. /\ Aligned(p, h) /\ Aligned(up, h) /\ BuddyOf(up, h) = p
      /\ Block(p, h + 1) = Block(p, h) \cup Block(up, h)
      /\ Block(p, h) \cap Block(up, h) = {}
  BY <1>1, <1>2, <1>5, Split
<1>7. up \in Nat /\ up \in Block(up, h) /\ p \in Block(p, h)
  <2>1. \A x \in Orders : Size[x] \in Nat
    BY OrdersBounded
  <2>2. up \in Nat
    BY <1>1, <1>2, <2>1
  <2> QED
    BY <1>1, <1>2, <2>2, HeadInBlock
<1>8. up \in ZonePages /\ up # p
  BY <1>5, <1>6, <1>7
<1>9. \A x \in {p, up} : x \notin buddy /\ lru[x].kind = "none"
  <2>1. \A x \in {p, up} : x \in Extent(<<"cpu", p, h + 1>>) /\ lru[x].kind \in {"none", "free", "pcp"}
    BY <1>1, <1>6, <1>7, <1>8 DEF Extent, IInv, TypeOK, Lists
  <2> QED
    BY <1>1, <1>4, <1>8, <2>1, Owners DEF IInv
<1>10. TypeOK'
  <2>1. lru' \in [ZonePages -> Lists]
    BY <1>1, <1>2, <1>3 DEF IInv, TypeOK, FreeList, Lists
  <2>2. private' \in [ZonePages -> Orders \cup Types] /\ buddy' \subseteq ZonePages
    BY <1>2, <1>3, <1>8 DEF IInv, TypeOK
  <2>3. nr_free' \in [Orders -> Int]
        /\ blk' \in [page : ZonePages \cup {0}, order : Orders, low : Orders, mt : Types,
                     from : {"none", "free", "drain", "fill", "alloc"}]
    <3>1. nr_free' \in [Orders -> Int]
      BY <1>2, <1>3 DEF IInv, TypeOK
    <3>2. blk \in [page : ZonePages \cup {0}, order : Orders, low : Orders, mt : Types,
                   from : {"none", "free", "drain", "fill", "alloc"}]
      BY DEF IInv, TypeOK
    <3> QED
      BY <1>2, <1>3, <3>1, <3>2
  <2> QED
    BY <1>3, <2>1, <2>2, <2>3 DEF IInv, TypeOK
<1>11. LocalsFit'
  BY <1>1, <1>2, <1>3 DEF IInv, TypeOK, LocalsFit, FreeList
<1>12. FlagsMatchLists'
  BY <1>2, <1>3, <1>8 DEF IInv, TypeOK, FlagsMatchLists, FreeList
<1>13. Extents' = (Extents \ {<<"cpu", p, h + 1>>}) \cup {<<"cpu", p, h>>, <<"free", up, h>>}
  <2>1. FreeExtents' = FreeExtents \cup {<<"free", up, h>>}
    BY <1>3, <1>8, <1>9 DEF IInv, TypeOK, FreeExtents, FreeList
  <2>2. PcpExtents' = PcpExtents
    BY <1>3, <1>8, <1>9 DEF IInv, TypeOK, PcpExtents, FreeList
  <2>3. ReservedExtents' = ReservedExtents /\ HeldExtents' = HeldExtents
    BY <1>3 DEF ReservedExtents, HeldExtents
  <2>4. InFlight = {<<"cpu", p, h + 1>>} /\ InFlight' = {<<"cpu", p, h>>}
    BY <1>1, <1>2, <1>3 DEF IInv, TypeOK, InFlight
  <2> QED
    BY <2>1, <2>2, <2>3, <2>4
    DEF Extents, FreeExtents, PcpExtents, ReservedExtents, HeldExtents
<1>14. NoOverlap' /\ NoLeak' /\ InZone'
  <2> DEFINE R == {<<"cpu", p, h + 1>>}
             A == {<<"cpu", p, h>>, <<"free", up, h>>}
  <2>1. R \subseteq Extents /\ Extents' = (Extents \ R) \cup A
    BY <1>4, <1>13
  <2>2. Disjoint(A)
    BY <1>6 DEF Disjoint, Extent
  <2>3. \A a \in A : Aligned(a[2], a[3])
    BY <1>6
  <2>4. \A a \in A : \A x \in Extent(a) : \E r \in R : x \in Extent(r)
    BY <1>6 DEF Extent
  <2>5. \A r \in R : \A x \in Extent(r) : \E a \in A : x \in Extent(a)
    BY <1>6 DEF Extent
  <2> HIDE DEF R, A
  <2> QED
    BY <2>1, <2>2, <2>3, <2>4, <2>5, ExtentsStep
<1>15. Coalesced'
  <2>1. ~BuddyIsFree(up, h) /\ up \notin buddy
    BY <1>6, <1>9 DEF BuddyIsFree
  <2> HIDE DEF up, h
  <2> QED
    BY <1>2, <1>3, <1>6, <1>8, <2>1, CoalescedWithOneMore
<1>16. HeldIffReferenced'
  BY <1>3 DEF IInv, HeldIffReferenced
<1> QED
  BY <1>10, <1>11, <1>12, <1>14, <1>15, <1>16 DEF IInv

(* expand is done. *)
LEMMA TakenKeeps == IInv /\ Taken => IInv'
<1> SUFFICES ASSUME IInv, Taken PROVE IInv'
  OBVIOUS
<1> DEFINE p == blk.page
           o == blk.order
<1>1. /\ p \in ZonePages /\ p \in Nat /\ o \in Orders /\ o = blk.low /\ pc = "expand"
      /\ bulk.mt \in PcpTypes /\ bulk.mt \in Types
      /\ blk' = NoBlk
      /\ UNCHANGED <<buddy, reserved, pageblock, nr_free, pcp_count>>
  BY ZoneInNat
  DEF IInv, TypeOK, LocalsFit, Taken, PcpTypes, Types, MIGRATE_PCPTYPES, MIGRATE_RESERVE
<1>2. <<"cpu", p, o>> \in Extents /\ p \in Extent(<<"cpu", p, o>>)
  BY <1>1, HeadInBlock DEF Extents, InFlight, Extent
<1>3. p \notin buddy /\ lru[p].kind = "none" /\ p \notin reserved /\ held[p] = NotHead
  <2>1. lru[p].kind \in {"none", "free", "pcp"}
    BY <1>1 DEF IInv, TypeOK, Lists
  <2> QED
    BY <1>1, <1>2, <2>1, Owners DEF IInv
<1>4. /\ blk' \in [page : ZonePages \cup {0}, order : Orders, low : Orders, mt : Types,
                  from : {"none", "free", "drain", "fill", "alloc"}]
  BY <1>1, OrdersBounded DEF NoBlk, Types, MIGRATE_RESERVE
<1>5. CASE /\ blk.from = "fill"
           /\ lru' = [lru EXCEPT ![p] = PcpList(bulk.mt)]
           /\ private' = [private EXCEPT ![p] = bulk.mt]
           /\ bulk' = [bulk EXCEPT !.todo = @ - 1, !.done = @ + 1]
           /\ pc' = "fill"
           /\ UNCHANGED <<held, count, nr_free_pages>>
  <2>1. o = 0 /\ bulk.todo > 0
    BY <1>1, <1>5 DEF IInv, LocalsFit
  <2>2. TypeOK'
    <3>1. bulk.todo - 1 \in 0 .. PcpBatch /\ bulk.done + 1 \in 0 .. PcpBatch
      BY <2>1, PcpAssumption DEF IInv, TypeOK, LocalsFit
    <3>2. bulk' \in [todo : 0 .. PcpBatch, done : 0 .. PcpBatch, mt : PcpTypes, credit : Nat]
      BY <1>5, <3>1 DEF IInv, TypeOK
    <3>3. lru' \in [ZonePages -> Lists] /\ private' \in [ZonePages -> Orders \cup Types]
      BY <1>1, <1>5, OrdersBounded DEF IInv, TypeOK, PcpList, Lists
    <3> QED
      BY <1>1, <1>4, <1>5, <3>2, <3>3 DEF IInv, TypeOK, PCs
  <2>3. LocalsFit'
    <3>1. bulk'.todo + bulk'.done <= PcpBatch
      BY <1>5, PcpAssumption DEF IInv, TypeOK, LocalsFit
    <3> QED
      BY <1>1, <1>5, <3>1 DEF IInv, TypeOK, LocalsFit, PcpList
  <2>4. FlagsMatchLists' /\ HeldIffReferenced'
    BY <1>1, <1>3, <1>5 DEF IInv, TypeOK, FlagsMatchLists, HeldIffReferenced, PcpList
  <2>5. Extents' = (Extents \ {<<"cpu", p, o>>}) \cup {<<"pcp", p, o>>}
    <3>1. FreeExtents' = FreeExtents
      BY <1>1, <1>3, <1>5 DEF IInv, TypeOK, FreeExtents, PcpList
    <3>2. PcpExtents' = PcpExtents \cup {<<"pcp", p, o>>}
      BY <1>1, <1>5, <2>1 DEF IInv, TypeOK, PcpExtents, PcpList
    <3>3. ReservedExtents' = ReservedExtents /\ HeldExtents' = HeldExtents
      BY <1>1, <1>5 DEF ReservedExtents, HeldExtents
    <3>4. InFlight = {<<"cpu", p, o>>} /\ InFlight' = {}
      BY <1>1, <1>5 DEF InFlight
    <3> QED
      BY <3>1, <3>2, <3>3, <3>4
      DEF Extents, FreeExtents, PcpExtents, ReservedExtents, HeldExtents
  <2>6. NoOverlap' /\ NoLeak' /\ InZone'
    BY <1>2, <2>5, ExtentsPass
  <2>7. Coalesced'
    BY <1>1, <1>3, <1>5, CoalescedWithFewer DEF IInv, TypeOK
  <2> QED
    BY <2>2, <2>3, <2>4, <2>6, <2>7 DEF IInv
<1>6. CASE /\ blk.from = "alloc"
           /\ Hand(p, blk.low)
           /\ nr_free_pages' = nr_free_pages - Size[blk.low]
           /\ pc' = "idle"
           /\ UNCHANGED <<lru, private, bulk>>
  <2>1. held' = [held EXCEPT ![p] = o] /\ count' = [count EXCEPT ![p] = 1]
    BY <1>1, <1>6 DEF Hand
  <2>2. TypeOK'
    <3>1. \A x \in Orders : Size[x] \in Int
      BY OrdersBounded
    <3>2. nr_free_pages' \in Int
      BY <1>1, <1>6, <3>1 DEF IInv, TypeOK
    <3>3. held' \in [ZonePages -> Orders \cup {NotHead}] /\ count' \in [ZonePages -> 0 .. MaxCount]
      BY <1>1, <2>1, CallerAssumption DEF IInv, TypeOK
    <3> QED
      BY <1>1, <1>4, <1>6, <3>2, <3>3 DEF IInv, TypeOK, PCs
  <2>3. LocalsFit' /\ FlagsMatchLists'
    BY <1>1, <1>6 DEF IInv, LocalsFit, FlagsMatchLists
  <2>4. HeldIffReferenced'
    BY <1>1, <2>1, OrdersBounded DEF IInv, TypeOK, HeldIffReferenced, NotHead
  <2>5. Extents' = (Extents \ {<<"cpu", p, o>>}) \cup {<<"held", p, o>>}
    <3>1. FreeExtents' = FreeExtents /\ PcpExtents' = PcpExtents
      BY <1>6 DEF FreeExtents, PcpExtents
    <3>2. ReservedExtents' = ReservedExtents
      BY <1>1 DEF ReservedExtents
    <3>3. o # NotHead
      BY <1>1, OrdersBounded DEF NotHead
    <3>4. HeldExtents' = HeldExtents \cup {<<"held", p, o>>}
      BY <1>1, <1>3, <2>1, <3>3 DEF IInv, TypeOK, HeldExtents
    <3>5. InFlight = {<<"cpu", p, o>>} /\ InFlight' = {}
      BY <1>1, <1>6 DEF InFlight
    <3> QED
      BY <3>1, <3>2, <3>4, <3>5
      DEF Extents, FreeExtents, PcpExtents, ReservedExtents, HeldExtents
  <2>6. NoOverlap' /\ NoLeak' /\ InZone'
    BY <1>2, <2>5, ExtentsPass
  <2>7. Coalesced'
    BY <1>1, <1>6, CoalescedWithFewer DEF IInv
  <2> QED
    BY <2>2, <2>3, <2>4, <2>6, <2>7 DEF IInv
<1> QED
  BY <1>5, <1>6 DEF Taken

-----------------------------------------------------------------------------
(* The calls *)

LEMMA GetPageKeeps == ASSUME NEW p \in ZonePages PROVE IInv /\ GetPage(p) => IInv'
<1> SUFFICES ASSUME IInv, GetPage(p) PROVE IInv'
  OBVIOUS
<1>1. /\ count' = [count EXCEPT ![p] = @ + 1] /\ count[p] < MaxCount /\ held[p] # NotHead
      /\ UNCHANGED <<lru, buddy, private, reserved, held, pageblock, nr_free, nr_free_pages,
                     pcp_count, pc, blk, bulk>>
  BY DEF GetPage, pageVars
<1>2. count[p] + 1 \in 0 .. MaxCount /\ count[p] \in Nat
  BY <1>1, CallerAssumption DEF IInv, TypeOK
<1>3. TypeOK'
  BY <1>1, <1>2 DEF IInv, TypeOK
<1>4. LocalsFit' /\ FlagsMatchLists'
  BY <1>1 DEF IInv, LocalsFit, FlagsMatchLists
<1>5. HeldIffReferenced'
  <2>1. count'[p] > 0 /\ \A q \in ZonePages : q # p => count'[q] = count[q]
    BY <1>1, <1>2 DEF IInv, TypeOK
  <2> QED
    BY <1>1, <2>1 DEF IInv, HeldIffReferenced
<1>6. Extents' = Extents
  BY <1>1 DEF Extents, FreeExtents, PcpExtents, ReservedExtents, HeldExtents, InFlight
<1>7. Coalesced'
  BY <1>1, CoalescedWithFewer DEF IInv
<1> QED
  BY <1>3, <1>4, <1>5, <1>6, <1>7, ExtentsSame DEF IInv

(* The block of order o at p, until now the extents R of bootmem or of a
   caller, goes back to the allocator.                                     *)
LEMMA ReleaseKeeps ==
  ASSUME IInv, pc = "idle", NEW p \in ZonePages, NEW o \in Orders, Aligned(p, o),
         NEW R, R \subseteq Extents,
         \A r \in R : r[1] \in {"reserved", "held"},
         \A x \in Block(p, o) : \E r \in R : x \in Extent(r),
         \A r \in R : Extent(r) \subseteq Block(p, o),
         ReservedExtents' \cup HeldExtents' = (ReservedExtents \cup HeldExtents) \ R,
         Release(p, o),
         UNCHANGED <<pageblock, nr_free, nr_free_pages>>,
         count' \in [ZonePages -> 0 .. MaxCount],
         reserved' \subseteq ZonePages,
         held' \in [ZonePages -> Orders \cup {NotHead}],
         HeldIffReferenced'
  PROVE  IInv'
<1>1. pageblock[BitIdx(p)] \in Types
  BY PageHasPageblock DEF IInv, TypeOK
<1>2. p \in Nat /\ p \in Block(p, o)
  BY ZoneInNat, HeadInBlock
<1>3. p \notin buddy /\ lru[p].kind = "none"
  <2>1. PICK r \in R : p \in Extent(r)
    BY <1>2
  <2>2. lru[p].kind \in {"none", "free", "pcp"}
    BY DEF IInv, TypeOK, Lists
  <2>3. r[1] \in {"reserved", "held"} /\ r \in Extents
    OBVIOUS
  <2> QED
    BY <2>1, <2>2, <2>3, Owners DEF IInv
<1>4. \A e \in FreeExtents \cup PcpExtents : e \notin R
  BY DEF FreeExtents, PcpExtents
<1>5. CASE o = 0
  <2> DEFINE mt == pageblock[BitIdx(p)]
             t == IF mt >= MIGRATE_PCPTYPES THEN MIGRATE_MOVABLE ELSE mt
  <2>1. /\ private' = [private EXCEPT ![p] = mt]
        /\ lru' = [lru EXCEPT ![p] = PcpList(t)]
        /\ pcp_count' = pcp_count + 1
        /\ UNCHANGED <<buddy, blk>>
        /\ \/ /\ pc' = "drain"
              /\ bulk' = [todo |-> PcpBatch, done |-> 0, mt |-> 0, credit |-> 0]
           \/ pc' = pc /\ bulk' = bulk
    BY <1>5 DEF Release, FreeHotColdPage, DrainBatch
  <2>2. t \in Types
    BY <1>1 DEF Types, MIGRATE_PCPTYPES, MIGRATE_MOVABLE, MIGRATE_RESERVE
  <2>3. TypeOK'
    <3>1. lru' \in [ZonePages -> Lists] /\ private' \in [ZonePages -> Orders \cup Types]
      BY <1>1, <2>1, <2>2, OrdersBounded DEF IInv, TypeOK, PcpList, Lists
    <3>2. bulk' \in [todo : 0 .. PcpBatch, done : 0 .. PcpBatch, mt : PcpTypes, credit : Nat]
      BY <2>1, PcpAssumption DEF IInv, TypeOK, PcpTypes, MIGRATE_PCPTYPES
    <3>3. pc' \in PCs /\ pcp_count' \in Int /\ nr_free_pages' \in Int
      BY <2>1 DEF IInv, TypeOK, PCs
    <3> QED
      BY <2>1, <3>1, <3>2, <3>3 DEF IInv, TypeOK
  <2>4. LocalsFit'
    <3>1. bulk'.todo + bulk'.done <= PcpBatch
      BY <2>1, PcpAssumption DEF IInv, LocalsFit
    <3>2. \A q \in ZonePages : lru'[q].kind = "pcp" => private'[q] \in Types
      BY <1>1, <2>1 DEF IInv, TypeOK, LocalsFit
    <3> QED
      BY <2>1, <3>1, <3>2 DEF IInv, LocalsFit
  <2>5. FlagsMatchLists'
    BY <1>3, <2>1 DEF IInv, TypeOK, FlagsMatchLists, PcpList
  <2>6. Extents' = (Extents \ R) \cup {<<"pcp", p, o>>}
    <3>1. FreeExtents' = FreeExtents
      BY <1>3, <2>1 DEF IInv, TypeOK, FreeExtents, PcpList
    <3>2. PcpExtents' = PcpExtents \cup {<<"pcp", p, 0>>}
      BY <1>3, <2>1 DEF IInv, TypeOK, PcpExtents, PcpList
    <3>3. InFlight = {} /\ InFlight' = {}
      BY <2>1 DEF InFlight
    <3>4. Extents = FreeExtents \cup PcpExtents \cup (ReservedExtents \cup HeldExtents)
      BY <3>3 DEF Extents
    <3>5. Extents' = FreeExtents' \cup PcpExtents' \cup (ReservedExtents' \cup HeldExtents')
      BY <3>3 DEF Extents
    <3> QED
      BY <1>4, <1>5, <3>1, <3>2, <3>4, <3>5
  <2>7. NoOverlap' /\ NoLeak' /\ InZone'
    <3> DEFINE A == {<<"pcp", p, o>>}
    <3>1. Disjoint(A) /\ \A a \in A : Aligned(a[2], a[3])
      BY DEF Disjoint
    <3>2. \A a \in A : \A x \in Extent(a) : \E r \in R : x \in Extent(r)
      BY DEF Extent
    <3>3. \A r \in R : \A x \in Extent(r) : \E a \in A : x \in Extent(a)
      BY DEF Extent
    <3>4. Extents' = (Extents \ R) \cup A
      BY <2>6
    <3> HIDE DEF A
    <3> QED
      BY <3>1, <3>2, <3>3, <3>4, ExtentsStep
  <2>8. Coalesced'
    BY <1>3, <2>1, CoalescedWithFewer DEF IInv, TypeOK
  <2> QED
    BY <2>3, <2>4, <2>5, <2>7, <2>8 DEF IInv
<1>6. CASE o # 0
  <2> DEFINE mt == pageblock[BitIdx(p)]
  <2>1. /\ pc' = "merge"
        /\ blk' = [page |-> p, order |-> o, low |-> o, mt |-> mt, from |-> "free"]
        /\ UNCHANGED <<lru, buddy, private, pcp_count, bulk>>
    BY <1>6 DEF Release, StartMerge, pageVars
  <2>2. TypeOK'
    BY <1>1, <2>1 DEF IInv, TypeOK, PCs
  <2>3. LocalsFit' /\ FlagsMatchLists'
    BY <1>2, <2>1, OrdersBounded DEF IInv, LocalsFit, FlagsMatchLists
  <2>4. Extents' = (Extents \ R) \cup {<<"cpu", p, o>>}
    <3>1. FreeExtents' = FreeExtents /\ PcpExtents' = PcpExtents
      BY <2>1 DEF FreeExtents, PcpExtents
    <3>2. InFlight = {} /\ InFlight' = {<<"cpu", p, o>>}
      BY <2>1 DEF InFlight
    <3>3. Extents = FreeExtents \cup PcpExtents \cup (ReservedExtents \cup HeldExtents)
      BY <3>2 DEF Extents
    <3>4. Extents' = FreeExtents' \cup PcpExtents' \cup (ReservedExtents' \cup HeldExtents')
                       \cup {<<"cpu", p, o>>}
      BY <3>2 DEF Extents
    <3> QED
      BY <1>4, <3>1, <3>3, <3>4
  <2>5. NoOverlap' /\ NoLeak' /\ InZone'
    <3> DEFINE A == {<<"cpu", p, o>>}
    <3>1. Disjoint(A) /\ \A a \in A : Aligned(a[2], a[3])
      BY DEF Disjoint
    <3>2. \A a \in A : \A x \in Extent(a) : \E r \in R : x \in Extent(r)
      BY DEF Extent
    <3>3. \A r \in R : \A x \in Extent(r) : \E a \in A : x \in Extent(a)
      BY DEF Extent
    <3>4. Extents' = (Extents \ R) \cup A
      BY <2>4
    <3> HIDE DEF A
    <3> QED
      BY <3>1, <3>2, <3>3, <3>4, ExtentsStep
  <2>6. Coalesced'
    BY <2>1, CoalescedWithFewer DEF IInv
  <2> QED
    BY <2>2, <2>3, <2>5, <2>6 DEF IInv
<1> QED
  BY <1>5, <1>6

(* __free_pages by a holder of the block at p. *)
LEMMA FreePagesKeeps == ASSUME NEW p \in ZonePages PROVE IInv /\ FreePages(p) => IInv'
<1> SUFFICES ASSUME IInv, FreePages(p) PROVE IInv'
  OBVIOUS
<1>1. /\ pc = "idle" /\ held[p] # NotHead
      /\ count' = [count EXCEPT ![p] = @ - 1]
      /\ UNCHANGED <<reserved, pageblock, nr_free, nr_free_pages>>
  BY DEF FreePages, LastReference
<1> DEFINE o == held[p]
<1>2. o \in Orders
  BY <1>1 DEF IInv, TypeOK
<1>3. <<"held", p, o>> \in Extents /\ p \in Extent(<<"held", p, o>>) /\ Aligned(p, o)
  <2>1. <<"held", p, o>> \in Extents
    BY <1>1 DEF Extents, HeldExtents
  <2> QED
    BY <1>2, <2>1, HeadInBlock, ZoneInNat DEF Extent, IInv, InZone
<1>4. p \notin reserved
  BY <1>3, Owners DEF IInv
<1>5. count[p] > 0 /\ count[p] \in 0 .. MaxCount
  BY <1>1, <1>4 DEF IInv, TypeOK, HeldIffReferenced
<1>6. count' \in [ZonePages -> 0 .. MaxCount]
  <2>1. count[p] - 1 \in 0 .. MaxCount
    BY <1>5, CallerAssumption
  <2> QED
    BY <1>1, <2>1 DEF IInv, TypeOK
<1>7. CASE count[p] = 1
  <2>1. held' = [held EXCEPT ![p] = NotHead] /\ Release(p, o)
    BY <1>7 DEF FreePages, LastReference
  <2>2. held' \in [ZonePages -> Orders \cup {NotHead}] /\ reserved' \subseteq ZonePages
    BY <1>1, <2>1 DEF IInv, TypeOK
  <2>3. HeldIffReferenced'
    BY <1>1, <1>7, <2>1 DEF IInv, TypeOK, HeldIffReferenced
  <2> DEFINE R == {<<"held", p, o>>}
  <2>4. ReservedExtents' \cup HeldExtents' = (ReservedExtents \cup HeldExtents) \ R
    <3>1. ReservedExtents' = ReservedExtents
      BY <1>1 DEF ReservedExtents
    <3>2. HeldExtents' = HeldExtents \ R
      BY <2>1 DEF IInv, TypeOK, HeldExtents
    <3>3. \A e \in ReservedExtents : e \notin R
      BY DEF ReservedExtents
    <3> QED
      BY <3>1, <3>2, <3>3
  <2>5. R \subseteq Extents /\ \A r \in R : r[1] \in {"reserved", "held"}
    BY <1>3
  <2>6. /\ \A x \in Block(p, o) : \E r \in R : x \in Extent(r)
        /\ \A r \in R : Extent(r) \subseteq Block(p, o)
    BY DEF Extent
  <2> HIDE DEF R, o
  <2> QED
    BY <1>1, <1>2, <1>3, <1>6, <2>1, <2>2, <2>3, <2>4, <2>5, <2>6, ReleaseKeeps
<1>8. CASE count[p] # 1
  <2>1. UNCHANGED <<held, lru, buddy, private, pcp_count, pc, blk, bulk>>
    BY <1>8 DEF FreePages, LastReference, pageVars
  <2>2. TypeOK' /\ LocalsFit' /\ FlagsMatchLists'
    BY <1>1, <1>6, <2>1 DEF IInv, TypeOK, LocalsFit, FlagsMatchLists
  <2>3. HeldIffReferenced'
    <3>1. count'[p] > 0 /\ \A q \in ZonePages : q # p => count'[q] = count[q]
      BY <1>1, <1>5, <1>8 DEF IInv, TypeOK
    <3> QED
      BY <1>1, <2>1, <3>1 DEF IInv, HeldIffReferenced
  <2>4. Extents' = Extents
    BY <1>1, <2>1 DEF Extents, FreeExtents, PcpExtents, ReservedExtents, HeldExtents, InFlight
  <2>5. Coalesced'
    BY <2>1, CoalescedWithFewer DEF IInv
  <2> QED
    BY <2>2, <2>3, <2>4, <2>5, ExtentsSame DEF IInv
<1> QED
  BY <1>7, <1>8

(* __free_pages_bootmem of the block of order o at p. *)
LEMMA FreePagesBootmemKeeps ==
  ASSUME NEW p \in ZonePages, NEW o \in Orders
  PROVE  IInv /\ FreePagesBootmem(p, o) => IInv'
<1> SUFFICES ASSUME IInv, FreePagesBootmem(p, o) PROVE IInv'
  OBVIOUS
<1>1. /\ pc = "idle" /\ Aligned(p, o) /\ Block(p, o) \subseteq reserved
      /\ reserved' = reserved \ Block(p, o)
      /\ count' = [q \in ZonePages |-> IF q \in Block(p, o) THEN 0 ELSE count[q]]
      /\ Release(p, o)
      /\ UNCHANGED <<held, pageblock, nr_free, nr_free_pages>>
  BY DEF FreePagesBootmem
<1> DEFINE R == {<<"reserved", x, 0>> : x \in Block(p, o)}
<1>2. reserved \subseteq ZonePages
  BY DEF IInv, TypeOK
<1>3. R \subseteq ReservedExtents
  BY <1>1 DEF ReservedExtents
<1>4. R \subseteq Extents /\ \A r \in R : r[1] \in {"reserved", "held"}
  BY <1>3 DEF Extents
<1>5. /\ \A x \in Block(p, o) : \E r \in R : x \in Extent(r)
      /\ \A r \in R : Extent(r) \subseteq Block(p, o)
  <2>1. \A x \in Block(p, o) : Extent(<<"reserved", x, 0>>) = {x}
    BY <1>1, <1>2, ZoneInNat, OnePage DEF Extent
  <2>2. ASSUME NEW x \in Block(p, o) PROVE \E r \in R : x \in Extent(r)
    <3>1. x \in Extent(<<"reserved", x, 0>>) /\ <<"reserved", x, 0>> \in R
      BY <2>1
    <3> QED
      BY <3>1
  <2>3. ASSUME NEW r \in R PROVE Extent(r) \subseteq Block(p, o)
    <3>1. PICK x \in Block(p, o) : r = <<"reserved", x, 0>>
      OBVIOUS
    <3> QED
      BY <2>1, <3>1
  <2> QED
    BY <2>2, <2>3
<1>6. ReservedExtents' \cup HeldExtents' = (ReservedExtents \cup HeldExtents) \ R
  <2>1. HeldExtents' = HeldExtents
    BY <1>1 DEF HeldExtents
  <2>2. ReservedExtents' = ReservedExtents \ R
    BY <1>1 DEF ReservedExtents
  <2>3. \A e \in HeldExtents : e \notin R
    BY DEF HeldExtents
  <2> QED
    BY <2>1, <2>2, <2>3
<1>7. count' \in [ZonePages -> 0 .. MaxCount]
  BY <1>1, CallerAssumption DEF IInv, TypeOK
<1>8. held' \in [ZonePages -> Orders \cup {NotHead}] /\ reserved' \subseteq ZonePages
  BY <1>1, <1>2 DEF IInv, TypeOK
<1>9. HeldIffReferenced'
  <2>1. ASSUME NEW x \in Block(p, o) PROVE held[x] = NotHead
    <3>1. x \in reserved /\ x \in ZonePages
      BY <1>1, <1>2
    <3>2. <<"reserved", x, 0>> \in Extents /\ x \in Extent(<<"reserved", x, 0>>)
      BY <1>4, <3>1, ZoneInNat, OnePage DEF Extent
    <3> QED
      BY <3>1, <3>2, Owners DEF IInv
  <2>2. ASSUME NEW x \in ZonePages, x \notin reserved'
        PROVE  (held'[x] # NotHead) <=> (count'[x] > 0)
    <3>1. CASE x \in Block(p, o)
      BY <1>1, <2>1, <3>1
    <3>2. CASE x \notin Block(p, o)
      BY <1>1, <2>2, <3>2 DEF IInv, HeldIffReferenced
    <3> QED
      BY <3>1, <3>2
  <2> QED
    BY <2>2 DEF HeldIffReferenced
<1> QED
  <2> HIDE DEF R
  <2> QED
    BY <1>1, <1>4, <1>5, <1>6, <1>7, <1>8, <1>9, ReleaseKeeps

-----------------------------------------------------------------------------
(* The invariant *)

LEMMA InitEstablishes == Init => IInv
<1> SUFFICES ASSUME Init PROVE IInv
  OBVIOUS
<1>1. /\ lru = [p \in ZonePages |-> NoList] /\ buddy = {}
      /\ private = [p \in ZonePages |-> 0] /\ count = [p \in ZonePages |-> 1]
      /\ reserved = ZonePages /\ held = [p \in ZonePages |-> NotHead]
      /\ pageblock = [b \in 0 .. NrPageblocks - 1 |-> InitialPageblock(b)]
      /\ nr_free = [o \in Orders |-> 0] /\ nr_free_pages = 0 /\ pcp_count = 0
      /\ pc = "idle" /\ blk = NoBlk /\ bulk = NoBulk
  BY DEF Init
<1>2. TypeOK
  <2>1. /\ NoList \in Lists /\ 0 \in Types
        /\ \A b \in 0 .. NrPageblocks - 1 : InitialPageblock(b) \in Types
    BY OrdersBounded DEF NoList, Lists, Types, MIGRATE_RESERVE, InitialPageblock,
                         MIGRATE_MOVABLE, MIGRATE_UNMOVABLE
  <2>2. NoBlk \in [page : ZonePages \cup {0}, order : Orders, low : Orders, mt : Types,
                   from : {"none", "free", "drain", "fill", "alloc"}]
    BY <2>1, OrdersBounded DEF NoBlk
  <2>3. NoBulk \in [todo : 0 .. PcpBatch, done : 0 .. PcpBatch, mt : PcpTypes, credit : Nat]
    BY PcpAssumption DEF NoBulk, PcpTypes, MIGRATE_PCPTYPES
  <2>4. 1 \in 0 .. MaxCount
    BY CallerAssumption
  <2> QED
    BY <1>1, <2>1, <2>2, <2>3, <2>4, OrdersBounded DEF TypeOK, PCs
<1>3. LocalsFit
  BY <1>1, PcpAssumption DEF LocalsFit, NoBulk, NoList
<1>4. FlagsMatchLists /\ HeldIffReferenced /\ Coalesced
  BY <1>1 DEF FlagsMatchLists, HeldIffReferenced, Coalesced, NoList
<1>5. Extents = {<<"reserved", p, 0>> : p \in ZonePages}
  <2>1. FreeExtents = {} /\ PcpExtents = {} /\ HeldExtents = {} /\ InFlight = {}
    BY <1>1 DEF FreeExtents, PcpExtents, HeldExtents, InFlight, NoList
  <2> QED
    BY <1>1, <2>1 DEF Extents, ReservedExtents
<1>6. \A p \in ZonePages : Extent(<<"reserved", p, 0>>) = {p} /\ Aligned(p, 0)
  BY ZoneInNat, OnePage DEF Extent
<1>7. ASSUME NEW e \in Extents PROVE \E p \in ZonePages : e = <<"reserved", p, 0>>
  BY <1>5
<1>8. NoOverlap
  <2>1. ASSUME NEW e \in Extents, NEW f \in Extents, e # f PROVE Extent(e) \cap Extent(f) = {}
    <3>1. PICK p \in ZonePages, q \in ZonePages : e = <<"reserved", p, 0>> /\ f = <<"reserved", q, 0>>
      BY <1>7
    <3>2. p # q
      BY <2>1, <3>1
    <3> QED
      BY <1>6, <3>1, <3>2
  <2> QED
    BY <2>1 DEF NoOverlap, Disjoint
<1>9. NoLeak
  <2>1. ASSUME NEW p \in ZonePages PROVE \E e \in Extents : p \in Extent(e)
    <3>1. <<"reserved", p, 0>> \in Extents /\ p \in Extent(<<"reserved", p, 0>>)
      BY <1>5, <1>6
    <3> QED
      BY <3>1
  <2> QED
    BY <2>1 DEF NoLeak
<1>10. InZone
  <2>1. ASSUME NEW e \in Extents PROVE Extent(e) \subseteq ZonePages /\ Aligned(e[2], e[3])
    <3>1. PICK p \in ZonePages : e = <<"reserved", p, 0>>
      BY <1>7
    <3> QED
      BY <1>6, <3>1
  <2> QED
    BY <2>1 DEF InZone
<1> QED
  BY <1>2, <1>3, <1>4, <1>8, <1>9, <1>10 DEF IInv

LEMMA NextKeeps == IInv /\ [Next]_vars => IInv'
<1> SUFFICES ASSUME IInv, [Next]_vars PROVE IInv'
  OBVIOUS
<1>1. ASSUME NEW p \in ZonePages, NEW o \in {0, BootOrder}, FreePagesBootmem(p, o) PROVE IInv'
  BY <1>1, FreePagesBootmemKeeps, OrdersBounded, OrderAssumption
<1>2. ASSUME NEW p \in ZonePages, FreePages(p) PROVE IInv'
  BY <1>2, FreePagesKeeps
<1>3. ASSUME NEW p \in ZonePages, GetPage(p) PROVE IInv'
  BY <1>3, GetPageKeeps
<1>4. ASSUME NEW t \in AllocTypes, AllocPcp(t) PROVE IInv'
  BY <1>4, AllocPcpKeeps
<1>5. ASSUME NEW t \in AllocTypes, StartFill(t) PROVE IInv'
  BY <1>5, StartFillKeeps
<1>6. ASSUME NEW o \in Orders, NEW t \in AllocTypes, AllocBlock(o, t) PROVE IInv'
  BY <1>6, AllocBlockKeeps
<1>7. CASE Merge
  BY <1>7, MergeKeeps
<1>8. CASE Place
  BY <1>8, PlaceKeeps
<1>9. CASE DrainOne
  BY <1>9, DrainOneKeeps
<1>10. CASE DrainEnd
  BY <1>10, DrainEndKeeps
<1>11. CASE Fill
  BY <1>11, FillKeeps
<1>12. CASE FillEnd
  BY <1>12, FillEndKeeps
<1>13. CASE Expand
  BY <1>13, ExpandKeeps
<1>14. CASE Taken
  BY <1>14, TakenKeeps
<1>15. CASE UNCHANGED vars
  <2>1. UNCHANGED <<lru, buddy, private, count, reserved, held, pageblock, nr_free,
                    nr_free_pages, pcp_count, pc, blk, bulk>>
    BY <1>15 DEF vars
  <2>2. TypeOK' /\ LocalsFit' /\ FlagsMatchLists' /\ HeldIffReferenced'
    BY <2>1 DEF IInv, TypeOK, LocalsFit, FlagsMatchLists, HeldIffReferenced
  <2>3. Extents' = Extents
    BY <2>1 DEF Extents, FreeExtents, PcpExtents, ReservedExtents, HeldExtents, InFlight
  <2>4. Coalesced'
    BY <2>1, CoalescedWithFewer DEF IInv
  <2> QED
    BY <2>2, <2>3, <2>4, ExtentsSame DEF IInv
<1> QED
  BY <1>1, <1>2, <1>3, <1>4, <1>5, <1>6, <1>7, <1>8, <1>9, <1>10, <1>11, <1>12, <1>13,
     <1>14, <1>15
  DEF Next, Call, Step

(* Whatever the zone, the orders and the pcp marks: the inductive invariant
   holds in every state, the middle of splitting and coalescing included.  *)
THEOREM Invariance == Spec => []IInv
<1>1. Init => IInv
  BY InitEstablishes
<1>2. IInv /\ [Next]_vars => IInv'
  BY NextKeeps
<1> QED
  BY <1>1, <1>2, PTL DEF Spec

(* Every variable keeps its type: a request never indexes a free area, a pcp
   list or a pageblock that does not exist.                                *)
THEOREM TypeCorrect == Spec => []TypeOK
BY Invariance, PTL DEF IInv

(* No page has two owners among the free lists, the pcp lists, bootmem, the
   callers and the block the CPU is splitting or coalescing.               *)
THEOREM PagesHaveOneOwner == Spec => []NoOverlap
BY Invariance, PTL DEF IInv

(* No page is lost by splitting, coalescing, refilling, draining or freeing. *)
THEOREM PagesAreNotLost == Spec => []NoLeak
BY Invariance, PTL DEF IInv

(* No block leaves the zone's valid pages or its alignment: coalescing stops
   at holes and at the ends of the zone.                                   *)
THEOREM BlocksStayInZone == Spec => []InZone
BY Invariance, PTL DEF IInv

(* Two buddies of the same order are never both free. *)
THEOREM CoalescingIsComplete == Spec => []Coalesced
BY Invariance, PTL DEF IInv

(* PageBuddy and page_private agree with the free lists. *)
THEOREM FlagsAgree == Spec => []FlagsMatchLists
BY Invariance, PTL DEF IInv

(* A block is held exactly while it has references. *)
THEOREM ReferencesHold == Spec => []HeldIffReferenced
BY Invariance, PTL DEF IInv

-----------------------------------------------------------------------------
(* The buddy allocator implements the abstract store of blocks of module
   PageOwnership.                                                          *)

absRefs == [p \in ZonePages |-> IF held[p] = NotHead THEN 0 ELSE count[p]]

(* A step that leaves the callers' view alone. *)
LEMMA Stutters ==
  ASSUME UNCHANGED <<count, reserved, held>>
  PROVE  UNCHANGED <<reserved, held, absRefs>>
BY DEF absRefs

(* A block that was on a pcp list or in the hands of the CPU is handed out. *)
LEMMA HandAllocates ==
  ASSUME IInv, NEW e \in Extents, e[1] \in {"pcp", "cpu"},
         Hand(e[2], e[3]), UNCHANGED reserved
  PROVE  \E p \in ZonePages, o \in Orders : Ownership!Allocate(p, o)
<1> DEFINE p == e[2]
           o == e[3]
<1>1. p \in ZonePages /\ p \in Nat /\ o \in Orders /\ p \in Extent(e)
  BY ExtentShape DEF IInv
<1>2. /\ held' = [held EXCEPT ![p] = o]
      /\ count' = [count EXCEPT ![p] = 1]
  BY DEF Hand
<1>3. Aligned(p, o) /\ Block(p, o) \subseteq ZonePages
  BY DEF IInv, InZone, Extent
<1>4. ASSUME NEW x \in Block(p, o) PROVE x \notin reserved /\ x \notin Ownership!InUse
  <2>1. x \in ZonePages /\ x \in Extent(e)
    BY <1>3 DEF Extent
  <2>2. x \notin reserved
    BY <2>1, Owners DEF IInv
  <2>3. ASSUME NEW q \in ZonePages, held[q] # NotHead, x \in Block(q, held[q]) PROVE FALSE
    <3>1. <<"held", q, held[q]>> \in Extents /\ x \in Extent(<<"held", q, held[q]>>)
      BY <2>3 DEF Extents, HeldExtents, Extent
    <3>2. e # <<"held", q, held[q]>>
      OBVIOUS
    <3> QED
      BY <2>1, <3>1, <3>2 DEF IInv, NoOverlap, Disjoint
  <2> QED
    BY <2>2, <2>3 DEF Ownership!InUse, Ownership!Block, Block
<1>5. absRefs' = [absRefs EXCEPT ![p] = 1]
  <2>1. o # NotHead
    BY <1>1, OrdersBounded DEF NotHead
  <2> QED
    BY <1>1, <1>2, <2>1 DEF absRefs, IInv, TypeOK
<1>6. Ownership!Allocate(p, o)
  BY <1>2, <1>3, <1>4, <1>5 DEF Ownership!Allocate, Ownership!Block, Block, Aligned, absRefs
<1> QED
  BY <1>1, <1>6

LEMMA GetPageGets ==
  ASSUME IInv, NEW p \in ZonePages, GetPage(p)
  PROVE  Ownership!Get(p)
<1>1. /\ held[p] # NotHead /\ count' = [count EXCEPT ![p] = @ + 1]
      /\ UNCHANGED <<reserved, held>>
  BY DEF GetPage
<1>2. absRefs[p] = count[p]
  BY <1>1 DEF absRefs
<1>3. absRefs' = [absRefs EXCEPT ![p] = @ + 1]
  BY <1>1, <1>2 DEF absRefs, IInv, TypeOK
<1> QED
  BY <1>1, <1>3 DEF Ownership!Get, absRefs

LEMMA FreePagesPuts ==
  ASSUME IInv, NEW p \in ZonePages, FreePages(p)
  PROVE  Ownership!Put(p)
<1>1. /\ held[p] # NotHead /\ count' = [count EXCEPT ![p] = @ - 1]
      /\ held' = IF count[p] = 1 THEN [held EXCEPT ![p] = NotHead] ELSE held
      /\ UNCHANGED reserved
  BY DEF FreePages, LastReference
<1>2. absRefs[p] = count[p]
  BY <1>1 DEF absRefs
<1>3. absRefs' = [absRefs EXCEPT ![p] = @ - 1]
  <2>1. ASSUME NEW q \in ZonePages
        PROVE  absRefs'[q] = IF q = p THEN count[p] - 1 ELSE absRefs[q]
    <3>1. CASE q = p /\ count[p] = 1
      BY <1>1, <3>1 DEF absRefs, IInv, TypeOK
    <3>2. CASE q = p /\ count[p] # 1
      BY <1>1, <3>2 DEF absRefs, IInv, TypeOK
    <3>3. CASE q # p
      BY <1>1, <3>3 DEF absRefs, IInv, TypeOK
    <3> QED
      BY <3>1, <3>2, <3>3
  <2> QED
    BY <1>2, <2>1 DEF absRefs
<1> QED
  BY <1>1, <1>2, <1>3 DEF Ownership!Put, absRefs

LEMMA BootmemGivesUp ==
  ASSUME IInv, NEW p \in ZonePages, NEW o \in Orders, FreePagesBootmem(p, o)
  PROVE  Ownership!GiveUp(p, o)
<1>1. /\ Block(p, o) \subseteq reserved /\ reserved' = reserved \ Block(p, o)
      /\ count' = [q \in ZonePages |-> IF q \in Block(p, o) THEN 0 ELSE count[q]]
      /\ held' = held
  BY DEF FreePagesBootmem
<1>2. ASSUME NEW q \in ZonePages, held[q] # NotHead PROVE q \notin Block(p, o)
  <2>1. <<"held", q, held[q]>> \in Extents
    BY <1>2 DEF Extents, HeldExtents
  <2>2. q \in Extent(<<"held", q, held[q]>>)
    BY <2>1, ExtentShape DEF IInv
  <2> QED
    BY <1>1, <2>1, <2>2, Owners DEF IInv
<1>3. absRefs' = absRefs
  BY <1>1, <1>2 DEF absRefs
<1> QED
  BY <1>1, <1>3 DEF Ownership!GiveUp, Ownership!Block, Block, absRefs

LEMMA StepRefines ==
  IInv /\ [Next]_vars => [Ownership!Next]_<<reserved, held, absRefs>>
<1> SUFFICES ASSUME IInv, [Next]_vars
             PROVE  Ownership!Next \/ UNCHANGED <<reserved, held, absRefs>>
  OBVIOUS
<1>1. ASSUME NEW p \in ZonePages, NEW o \in {0, BootOrder}, FreePagesBootmem(p, o)
      PROVE  Ownership!Next
  <2>1. o \in Orders
    BY OrdersBounded, OrderAssumption
  <2> QED
    BY <1>1, <2>1, BootmemGivesUp DEF Ownership!Next
<1>2. ASSUME NEW p \in ZonePages, FreePages(p) PROVE Ownership!Next
  BY <1>2, FreePagesPuts DEF Ownership!Next
<1>3. ASSUME NEW p \in ZonePages, GetPage(p) PROVE Ownership!Next
  BY <1>3, GetPageGets DEF Ownership!Next
<1>4. ASSUME NEW p \in ZonePages, lru[p].kind = "pcp", Hand(p, 0), UNCHANGED reserved
      PROVE  Ownership!Next
  <2>1. <<"pcp", p, 0>> \in Extents
    BY <1>4 DEF Extents, PcpExtents
  <2>2. \E q \in ZonePages, o \in Orders : Ownership!Allocate(q, o)
    BY <1>4, <2>1, HandAllocates
  <2> QED
    BY <2>2 DEF Ownership!Next
<1>5. ASSUME NEW t \in AllocTypes, AllocPcp(t) PROVE Ownership!Next
  BY <1>4, <1>5 DEF AllocPcp, OnPcp, PcpList
<1>6. CASE FillEnd
  <2>1. CASE UNCHANGED <<held, count>>
    BY <1>6, <2>1, Stutters DEF FillEnd
  <2>2. ASSUME NEW p \in OnPcp(bulk.mt), Hand(p, 0) PROVE Ownership!Next
    BY <1>4, <1>6, <2>2 DEF FillEnd, OnPcp, PcpList
  <2> QED
    BY <1>6, <2>1, <2>2 DEF FillEnd
<1>7. CASE Taken
  <2>1. CASE UNCHANGED <<held, count>>
    BY <1>7, <2>1, Stutters DEF Taken
  <2>2. CASE Hand(blk.page, blk.low)
    <3>1. <<"cpu", blk.page, blk.low>> \in Extents
      BY <1>7 DEF Taken, Extents, InFlight
    <3>2. \E q \in ZonePages, o \in Orders : Ownership!Allocate(q, o)
      BY <1>7, <2>2, <3>1, HandAllocates DEF Taken
    <3> QED
      BY <3>2 DEF Ownership!Next
  <2> QED
    BY <1>7, <2>1, <2>2 DEF Taken
<1>8. ASSUME NEW t \in AllocTypes, StartFill(t) PROVE UNCHANGED <<reserved, held, absRefs>>
  BY <1>8, Stutters DEF StartFill, callVars
<1>9. ASSUME NEW o \in Orders, NEW t \in AllocTypes, AllocBlock(o, t)
      PROVE  UNCHANGED <<reserved, held, absRefs>>
  BY <1>9, Stutters DEF AllocBlock, callVars
<1>10. CASE Merge \/ Place \/ DrainOne \/ DrainEnd \/ Fill \/ Expand \/ UNCHANGED vars
  <2>1. UNCHANGED <<count, reserved, held>>
    BY <1>10 DEF Merge, Place, DrainOne, DrainEnd, Fill, Expand, vars, callVars
  <2> QED
    BY <2>1, Stutters
<1> QED
  BY <1>1, <1>2, <1>3, <1>5, <1>6, <1>7, <1>8, <1>9, <1>10 DEF Next, Call, Step

LEMMA InitRefines == Init => Ownership!Init
BY DEF Init, Ownership!Init

(* Every behaviour of the allocator, seen through who holds which block with
   how many references, is one of the abstract store of blocks.            *)
THEOREM Refinement == Spec => ImplementsOwnership
<1>1. Init => Ownership!Init
  BY InitRefines
<1>2. IInv /\ [Next]_vars => [Ownership!Next]_<<reserved, held, absRefs>>
  BY StepRefines
<1>3. Spec => []IInv
  BY Invariance
<1> QED
  BY <1>1, <1>2, <1>3, PTL DEF Spec, ImplementsOwnership, Ownership!Spec, absRefs

=============================================================================
