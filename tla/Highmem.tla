------------------------------- MODULE Highmem --------------------------------
(***************************************************************************)
(* Mappings of high memory, mm/highmem.c: the persistent kmap window with  *)
(* its use counts, the hash table and pool of page_address_maps that tell  *)
(* where a page is mapped, and the atomic mappings of the fixmap.          *)
(*                                                                         *)
(* flush_all_zero_pkmaps takes a page out of the hash table through a      *)
(* pointer it never set, and set_page_address assigns that pointer where   *)
(* it should compare: the first entry of whatever bucket the value hashes  *)
(* to is lost, or none, or the program ends on a wild pointer.             *)
(***************************************************************************)
EXTENDS Integers, Sequences, FiniteSets, SequencesExt, FiniteSetsExt

CONSTANTS
  HighPages,   \* pages of ZONE_HIGHMEM
  NoPage,      \* an empty page table entry
  LAST_PKMAP,  \* slots of the window
  Bucket,      \* page_slot: the bucket a page hashes to
  FixRoom,     \* entries of the fixmap behind FIX_KMAP_BEGIN + KM_TYPE_NR
  MaxKmaps     \* bound: mappings of a page callers hold at once

Buckets == {Bucket[p] : p \in HighPages}
Pkmaps  == 0 .. LAST_PKMAP - 1

ASSUME HighmemAssumption ==
  /\ LAST_PKMAP \in Nat \ {0} /\ MaxKmaps \in Nat \ {0} /\ FixRoom \in Nat
  /\ IsFiniteSet(HighPages) /\ DOMAIN Bucket = HighPages /\ NoPage \notin HighPages

VARIABLES
  pkmap_count,          \* 0 free, 1 mapped without users, n + 1 with n users
  pkmap_page_table,
  last_pkmap_nr,
  page_address_htable,  \* bucket -> entries [page, nr]
  page_address_pool,    \* the number of entries left
  kmaps,                \* page -> slot -> how often callers hold it there
  __kmap_atomic_idx,
  atomics,              \* the fixmap entries of atomic mappings: [nr, page]
  mapping,              \* the page map_new_virtual looks a slot for
  highmem               \* "ok"; "strayed" once a flush has removed a wrong
                        \* entry; "fault" after a wild access

kmapVars == <<pkmap_count, pkmap_page_table, last_pkmap_nr, page_address_htable,
              page_address_pool>>
userVars == <<kmaps, __kmap_atomic_idx, atomics>>
highmemVars == <<kmapVars, userVars, mapping, highmem>>

Idle == mapping = NoPage /\ highmem = "ok"

(* Where page_address finds the page: the slots of its entries. *)
Entries(p) == {k \in DOMAIN page_address_htable[Bucket[p]] :
                 page_address_htable[Bucket[p]][k].page = p}
Mapped(p)  == Entries(p) # {}
SlotOf(p)  == page_address_htable[Bucket[p]][Min(Entries(p))].nr

Users(n) == MapThenSumSet(LAMBDA p : kmaps[p][n], HighPages)

Fault == highmem' = "fault" /\ UNCHANGED <<kmapVars, userVars, mapping>>

(* page_address_init *)
HighmemInit ==
  /\ pkmap_count = [n \in Pkmaps |-> 0]
  /\ pkmap_page_table = [n \in Pkmaps |-> NoPage]
  /\ last_pkmap_nr = 0
  /\ page_address_htable = [b \in Buckets |-> <<>>]
  /\ page_address_pool = LAST_PKMAP
  /\ kmaps = [p \in HighPages |-> [n \in Pkmaps |-> 0]]
  /\ __kmap_atomic_idx = 0
  /\ atomics = {}
  /\ mapping = NoPage
  /\ highmem = "ok"

-----------------------------------------------------------------------------
(* kmap *)

(* kmap_high of a page the hash table knows. *)
KmapAgain(p) ==
  /\ Idle /\ Mapped(p) /\ kmaps[p][SlotOf(p)] < MaxKmaps
  /\ pkmap_count' = [pkmap_count EXCEPT ![SlotOf(p)] = @ + 1]
  /\ kmaps' = [kmaps EXCEPT ![p][SlotOf(p)] = @ + 1]
  /\ UNCHANGED <<pkmap_page_table, last_pkmap_nr, page_address_htable, page_address_pool,
                 __kmap_atomic_idx, atomics, mapping, highmem>>

(* kmap_high of any other page enters map_new_virtual. *)
KmapNew(p) ==
  /\ Idle /\ ~Mapped(p)
  /\ mapping' = p
  /\ UNCHANGED <<kmapVars, userVars, highmem>>

(* Mutant: the mask leaves the last slot of the window out. *)
NextPkmapShort == (last_pkmap_nr + 1) % (LAST_PKMAP - 1)

NextPkmap == (last_pkmap_nr + 1) % LAST_PKMAP

(* Mutant: a slot with one user counts as unused. *)
UnusedOrOneUser == {n \in Pkmaps : pkmap_count[n] \in {1, 2}}

Unused == {n \in Pkmaps : pkmap_count[n] = 1}

(* map_new_virtual puts the page into slot n. *)
MapAt(p, n, count, table, pool) ==
  /\ pkmap_count' = [count EXCEPT ![n] = 2]
  /\ pkmap_page_table' = [pkmap_page_table EXCEPT ![n] = p]
  /\ page_address_htable' = [table EXCEPT ![Bucket[p]] = Append(@, [page |-> p, nr |-> n])]
  /\ page_address_pool' = pool - 1
  /\ kmaps' = [kmaps EXCEPT ![p][n] = @ + 1]
  /\ mapping' = NoPage

KeepLooking(count, table, pool) ==
  /\ pkmap_count' = count /\ page_address_htable' = table /\ page_address_pool' = pool
  /\ UNCHANGED <<pkmap_page_table, kmaps, mapping>>

(* One turn of the loop: the slot is taken if its count is zero. *)
TryPkmap(count, table, pool) ==
  /\ last_pkmap_nr' = NextPkmap
  /\ IF count[NextPkmap] = 0 THEN MapAt(mapping, NextPkmap, count, table, pool)
     ELSE KeepLooking(count, table, pool)
  /\ UNCHANGED <<__kmap_atomic_idx, atomics>>

Looking == mapping # NoPage /\ highmem = "ok"

ScanPkmap ==
  /\ Looking /\ NextPkmap # 0
  /\ TryPkmap(pkmap_count, page_address_htable, page_address_pool)
  /\ UNCHANGED highmem

(* The table once bucket b has lost its first lost[b] entries. *)
WithoutHeads(lost) ==
  [b \in Buckets |-> SubSeq(page_address_htable[b], Min({lost[b], Len(page_address_htable[b])}) + 1,
                            Len(page_address_htable[b]))]

(* A table that lacks the entries of the slots S, and only these. *)
Lacks(table, S) ==
  \A b \in Buckets :
    ToSet(table[b]) = {e \in ToSet(page_address_htable[b]) : e.nr \notin S}

Size(table) == MapThenSumSet(LAMBDA b : Len(table[b]), Buckets)

(* The scan passes slot zero and flush_all_zero_pkmaps runs first: for each
   slot without users the entry removed is the first of some bucket.  The
   model ends once it was a wrong one: an entry of a mapped page is lost, or
   that of a flushed slot stays behind.                                     *)
FlushPkmaps ==
  /\ Looking /\ NextPkmap = 0
  /\ \E hashed \in [Unused -> Buckets] :
       LET lost  == [b \in Buckets |-> Cardinality({n \in Unused : hashed[n] = b})]
           table == WithoutHeads(lost)
       IN /\ TryPkmap([n \in Pkmaps |-> IF n \in Unused THEN 0 ELSE pkmap_count[n]], table,
                      page_address_pool + Size(page_address_htable) - Size(table))
          /\ highmem' = IF Lacks(table, Unused) THEN "ok" ELSE "strayed"

FlushWild ==
  /\ Looking /\ NextPkmap = 0 /\ Unused # {}
  /\ Fault

-----------------------------------------------------------------------------
(* kunmap *)

(* kunmap_high: one user less of the slot page_address names. *)
kunmap(p) ==
  /\ Idle /\ Mapped(p) /\ kmaps[p][SlotOf(p)] > 0
  /\ pkmap_count' = [pkmap_count EXCEPT ![SlotOf(p)] = @ - 1]
  /\ kmaps' = [kmaps EXCEPT ![p][SlotOf(p)] = @ - 1]
  /\ UNCHANGED <<pkmap_page_table, last_pkmap_nr, page_address_htable, page_address_pool,
                 __kmap_atomic_idx, atomics, mapping, highmem>>

-----------------------------------------------------------------------------
(* Atomic mappings *)

(* The cache of the machine is not VIVT, so __kmap_atomic always takes the
   fixmap entry of the current depth.                                      *)
__kmap_atomic(p) ==
  /\ Idle /\ __kmap_atomic_idx < FixRoom
  /\ __kmap_atomic_idx' = __kmap_atomic_idx + 1
  /\ atomics' = atomics \cup {[nr |-> __kmap_atomic_idx, page |-> p]}
  /\ UNCHANGED <<kmapVars, kmaps, mapping, highmem>>

(* The entry lies behind the fixmap, where the vectors are mapped. *)
AtomicPastEnd ==
  /\ Idle /\ __kmap_atomic_idx >= FixRoom
  /\ Fault

(* __kunmap_atomic clears the entry; kmap_atomic_idx_pop raises the depth,
   because this_cpu_add_return adds one whatever it is told to add.         *)
__kunmap_atomic(a) ==
  /\ Idle
  /\ atomics' = atomics \ {a}
  /\ __kmap_atomic_idx' = __kmap_atomic_idx + 1
  /\ UNCHANGED <<kmapVars, kmaps, mapping, highmem>>

MapStep == ScanPkmap \/ FlushPkmaps \/ FlushWild

HighmemNext ==
  \/ \E p \in HighPages : KmapAgain(p) \/ KmapNew(p) \/ kunmap(p) \/ __kmap_atomic(p)
  \/ MapStep
  \/ \E a \in atomics : __kunmap_atomic(a)
  \/ AtomicPastEnd

-----------------------------------------------------------------------------
(* What the mappings keep true *)

(* As long as no flush has taken out a wrong entry, an address a caller
   holds maps the page it was given for, however often slots were flushed
   and taken again: the use count of a slot is its users plus one, the hash
   table names one slot for each mapped page, and no two atomic mappings
   share a fixmap entry, in whatever order they are undone.
   (map_new_virtual, kunmap_high, __kmap_atomic, __kunmap_atomic)           *)
AddressesRight ==
  highmem # "strayed" =>
    /\ \A p \in HighPages, n \in Pkmaps : kmaps[p][n] > 0 => pkmap_page_table[n] = p
    /\ \A a, b \in atomics : a.nr = b.nr => a = b
    /\ \A n \in Pkmaps :
         LET named == {p \in HighPages : Mapped(p) /\ SlotOf(p) = n}
         IN IF pkmap_count[n] = 0 THEN named = {} /\ Users(n) = 0
            ELSE named = {pkmap_page_table[n]} /\ pkmap_count[n] = Users(n) + 1
    /\ page_address_pool = Cardinality({n \in Pkmaps : pkmap_count[n] = 0})

(* kmap of a page not mapped yet gets its slot, unless every slot has users
   and the loop turns forever: nobody else runs to give one back.
   (map_new_virtual)                                                       *)
KmapReturns ==
  (mapping # NoPage) ~> (mapping = NoPage \/ highmem # "ok" \/ \A n \in Pkmaps : pkmap_count[n] >= 2)

HighmemFairness == WF_highmemVars(MapStep)
HighmemSpec == HighmemInit /\ [][HighmemNext]_highmemVars /\ HighmemFairness
===============================================================================
