------------------------------- MODULE Mempool --------------------------------
(***************************************************************************)
(* Memory pools, mm/mempool.c: a reserve of elements kept so that an       *)
(* allocation can be served when the allocator behind the pool cannot.     *)
(* That allocator (slab, kmalloc or the page allocator) is external and    *)
(* may refuse.  Nothing runs beside the caller, so create and resize are   *)
(* single steps that take as many elements as the allocator gives.         *)
(***************************************************************************)
EXTENDS Integers, Sequences, FiniteSets, SequencesExt, FiniteSetsExt

CONSTANTS
  Elements,   \* what the allocator behind the pool hands out
  MinNrs      \* the reserves callers ask for

ASSUME MempoolAssumption == IsFiniteSet(Elements) /\ MinNrs \subseteq Nat \ {0}

VARIABLES
  pool,       \* NoPool, or the mempool_t
  inUse,      \* the elements callers hold
  asked,      \* whether a call that may wait is in mempool_alloc
  unfilled    \* how many elements the last growth could not get

mempoolVars == <<pool, inUse, asked, unfilled>>

NoPool == [min_nr |-> 0, size |-> 0, elements |-> <<>>]
curr_nr == Len(pool.elements)
Spare == Elements \ (inUse \cup ToSet(pool.elements))

MempoolInit == pool = NoPool /\ inUse = {} /\ asked = FALSE /\ unfilled = 0

Ready == pool # NoPool /\ ~asked

(* The elements a row of n allocations gives, in the order they are added. *)
Rows(n) == {SetToSeq(S) : S \in kSubset(n, Spare)}

(* mempool_create_node; where an element is refused everything is freed. *)
mempool_create_node(min_nr) ==
  /\ pool = NoPool /\ inUse = {}
  /\ \E row \in Rows(min_nr) :
       pool' = [min_nr |-> min_nr, size |-> min_nr, elements |-> row]
  /\ unfilled' = 0
  /\ UNCHANGED <<inUse, asked>>

(* mempool_destroy, once the callers have given everything back; that a
   reserve a growth left short is reported as a leak changes nothing.       *)
mempool_destroy ==
  /\ Ready /\ inUse = {}
  /\ pool' = NoPool
  /\ unfilled' = 0
  /\ UNCHANGED <<inUse, asked>>

(* mempool_resize to no more than min_nr: the elements above are freed. *)
Shrink(new_min_nr) ==
  /\ Ready /\ new_min_nr <= pool.min_nr
  /\ pool' = [pool EXCEPT !.min_nr = new_min_nr,
                          !.elements = SubSeq(@, 1, Min({curr_nr, new_min_nr}))]
  /\ unfilled' = Max({0, unfilled - (pool.min_nr - new_min_nr)})
  /\ UNCHANGED <<inUse, asked>>

(* mempool_resize to more: the elements array is replaced and filled up until
   an allocation fails, which the caller is not told.                       *)
Grow(new_min_nr) ==
  /\ Ready /\ new_min_nr > pool.min_nr
  /\ \E got \in 0 .. new_min_nr - curr_nr : \E row \in Rows(got) :
       /\ pool' = [min_nr |-> new_min_nr, size |-> new_min_nr,
                   elements |-> pool.elements \o row]
       /\ unfilled' = new_min_nr - curr_nr - got
  /\ UNCHANGED <<inUse, asked>>

(* mempool_alloc, served by the allocator behind the pool. *)
AllocBehind ==
  /\ pool # NoPool
  /\ \E e \in Spare : inUse' = inUse \cup {e}
  /\ asked' = FALSE
  /\ UNCHANGED <<pool, unfilled>>

(* The allocator refuses and the reserve serves the call: remove_element. *)
AllocReserve ==
  /\ pool # NoPool /\ curr_nr > 0
  /\ inUse' = inUse \cup {Last(pool.elements)}
  /\ pool' = [pool EXCEPT !.elements = Front(@)]
  /\ asked' = FALSE
  /\ UNCHANGED unfilled

(* Both are empty: a call that must not wait returns NULL, one that may
   starts over for as long as it takes.                                    *)
AllocWaits ==
  /\ Ready /\ curr_nr = 0
  /\ asked' = TRUE
  /\ UNCHANGED <<pool, inUse, unfilled>>

(* Mutant: the reserve is refilled below one element only. *)
FreeKeepsOne(e) ==
  /\ Ready
  /\ inUse' = inUse \ {e}
  /\ pool' = IF curr_nr < 1 THEN [pool EXCEPT !.elements = Append(@, e)] ELSE pool
  /\ UNCHANGED <<asked, unfilled>>

(* mempool_free refills the reserve before it gives back. *)
mempool_free(e) ==
  /\ Ready
  /\ inUse' = inUse \ {e}
  /\ pool' = IF curr_nr < pool.min_nr THEN [pool EXCEPT !.elements = Append(@, e)] ELSE pool
  /\ UNCHANGED <<asked, unfilled>>

MempoolNext ==
  \/ \E n \in MinNrs : mempool_create_node(n) \/ Shrink(n) \/ Grow(n)
  \/ mempool_destroy
  \/ AllocBehind \/ AllocReserve \/ AllocWaits
  \/ \E e \in inUse : mempool_free(e)

-----------------------------------------------------------------------------
(* The promise of a pool: the elements out and the elements in reserve never
   fall below min_nr, so that a call is refused or made to wait only when
   min_nr elements are out; short only of what a growth could not get.  The
   reserve and the callers never share an element, and the reserve never
   outgrows its array, which shrinking does not replace.  (mempool_resize,
   mempool_alloc, mempool_free, add_element)                               *)
ReserveKept ==
  pool # NoPool =>
    /\ curr_nr + Cardinality(inUse) + unfilled >= pool.min_nr
    /\ curr_nr <= pool.min_nr /\ pool.min_nr <= pool.size
    /\ ToSet(pool.elements) \cap inUse = {}
    /\ IsInjective(pool.elements)

MempoolSpec == MempoolInit /\ [][MempoolNext]_mempoolVars
===============================================================================
