-------------------------------- MODULE Slub --------------------------------
(***************************************************************************)
(* One cache of the slab allocator of mm/slub.c on the one configured CPU: *)
(* the cpu slab with its own freelist, the slabs on the node's partial     *)
(* list, the full slabs that are on no list, and the page lock.            *)
(*                                                                         *)
(* A freelist is the set of its objects: the code uses it as a stack, here *)
(* any free object may be the next.  The partial list is a sequence, since *)
(* the code chooses between its head and its tail, and sorts it.  The page *)
(* allocator is external: it gives a block of pages or refuses.            *)
(***************************************************************************)
EXTENDS Integers, Sequences, FiniteSets, SequencesExt

CONSTANTS
  Pages,        \* the blocks of pages a slab may occupy
  NoPage,       \* a NULL page
  MaxObjects,   \* oo_objects(s->oo), and of s->max: objects in a slab
  MinObjects,   \* oo_objects(s->min): in a slab of the fallback order
  min_partial   \* s->min_partial

ASSUME CacheAssumption ==
  /\ NoPage \notin Pages
  /\ IsFiniteSet(Pages)
  /\ MaxObjects \in Nat /\ MinObjects \in 1 .. MaxObjects
  /\ min_partial \in Nat

VARIABLES
  objects,    \* page->objects of a slab of this cache, 0 if it is not one
  freelist,   \* page->freelist
  inuse,      \* page->inuse
  frozen,     \* the pages with PageSlubFrozen
  locked,     \* the pages with PG_locked
  partial,    \* n->partial
  nr_partial, \* n->nr_partial
  cpu_page,   \* c->page
  cpu_free,   \* c->freelist
  out,        \* the objects callers hold
  pc,         \* where the CPU is
  call,       \* the call it is in: "alloc", "shrink" or "close"
  tail        \* tail, of deactive_slab

slabVars == <<objects, freelist, inuse, frozen, locked>>
listVars == <<partial, nr_partial>>
cpuVars  == <<cpu_page, cpu_free>>
vars == <<objects, freelist, inuse, frozen, locked, partial, nr_partial,
          cpu_page, cpu_free, out, pc, call, tail>>

Object == Pages \X (1 .. MaxObjects)

Slabs == {p \in Pages : objects[p] # 0}

(* The objects of a slab of n objects at p. *)
ObjectsAt(p, n) == {<<p, i>> : i \in 1 .. n}
ObjectsOf(p) == ObjectsAt(p, objects[p])

-----------------------------------------------------------------------------
(* init_kmem_cache_node and alloc_percpu: a cache without slabs. *)
InitEmpty ==
  /\ objects    = [p \in Pages |-> 0]
  /\ freelist   = [p \in Pages |-> {}]
  /\ inuse      = [p \in Pages |-> 0]
  /\ partial    = <<>>
  /\ nr_partial = 0
  /\ out        = {}

(* early_kmem_cache_node_alloc: the cache of the node structures starts with a
   partial slab whose first object holds its own node.                     *)
InitEarly ==
  /\ \E p \in Pages, n \in {MaxObjects, MinObjects} \ {1} :
       /\ objects  = [q \in Pages |-> IF q = p THEN n ELSE 0]
       /\ out      = {<<p, 1>>}
       /\ freelist = [q \in Pages |-> IF q = p THEN ObjectsAt(p, n) \ {<<p, 1>>} ELSE {}]
       /\ inuse    = [q \in Pages |-> IF q = p THEN 1 ELSE 0]
       /\ partial  = <<p>>
  /\ nr_partial = 1

Init ==
  /\ InitEmpty \/ InitEarly
  /\ frozen   = {}
  /\ locked   = {}
  /\ cpu_page = NoPage
  /\ cpu_free = {}
  /\ pc       = "idle"
  /\ call     = "none"
  /\ tail     = TRUE

-----------------------------------------------------------------------------
(* Page lock and lists *)

slab_lock(p) == p \notin locked /\ locked' = locked \cup {p}

slab_unlock(p) == locked' = locked \ {p}

add_partial(p, atTail) ==
  /\ partial' = IF atTail THEN Append(partial, p) ELSE <<p>> \o partial
  /\ nr_partial' = nr_partial + 1

remove_partial(p) ==
  /\ partial' = RemoveFirst(partial, p)
  /\ nr_partial' = nr_partial - 1

(* discard_slab: the pages go back to the page allocator. *)
discard_slab(P) ==
  /\ objects'  = [p \in Pages |-> IF p \in P THEN 0 ELSE objects[p]]
  /\ freelist' = [p \in Pages |-> IF p \in P THEN {} ELSE freelist[p]]
  /\ inuse'    = [p \in Pages |-> IF p \in P THEN 0 ELSE inuse[p]]

-----------------------------------------------------------------------------
(* Allocating *)

(* slab_alloc, from the cpu freelist. *)
AllocFast ==
  /\ pc = "idle"
  /\ \E o \in cpu_free : cpu_free' = cpu_free \ {o} /\ out' = out \cup {o}
  /\ UNCHANGED <<slabVars, listVars, cpu_page, pc, call, tail>>

(* slab_alloc on an empty cpu freelist: entry of __slab_alloc. *)
AllocSlow ==
  /\ pc = "idle"
  /\ cpu_free = {}
  /\ IF cpu_page = NoPage
     THEN pc' = "new_slab" /\ UNCHANGED locked
     ELSE pc' = "load_freelist" /\ slab_lock(cpu_page)
  /\ call' = "alloc"
  /\ UNCHANGED <<objects, freelist, inuse, frozen, listVars, cpuVars, out, tail>>

(* Mutant: inuse is left as it was. *)
LoadUncounted(p) == inuse' = inuse

(* The cpu slab's objects all count as in use once they are on the cpu's list. *)
CountAllInUse(p) == inuse' = [inuse EXCEPT ![p] = objects[p]]

(* load_freelist: the slab's freelist becomes the cpu's, less the object for
   the caller; a slab without free objects is given up.                    *)
LoadFreelist ==
  /\ pc = "load_freelist"
  /\ \/ /\ freelist[cpu_page] = {}
        /\ pc' = "deactive_slab"
        /\ tail' = TRUE
        /\ UNCHANGED <<slabVars, cpu_free, out, call>>
     \/ /\ \E o \in freelist[cpu_page] :
             /\ cpu_free' = freelist[cpu_page] \ {o}
             /\ out' = out \cup {o}
        /\ CountAllInUse(cpu_page)
        /\ freelist' = [freelist EXCEPT ![cpu_page] = {}]
        /\ slab_unlock(cpu_page)
        /\ pc' = "idle"
        /\ call' = "none"
        /\ UNCHANGED <<objects, frozen, tail>>
  /\ UNCHANGED <<listVars, cpu_page>>

(* One turn of the loop of deactive_slab: an object goes back from the cpu's
   freelist to the slab's.                                                 *)
MergeFreelist ==
  /\ pc = "deactive_slab"
  /\ \E o \in cpu_free :
       /\ cpu_free' = cpu_free \ {o}
       /\ freelist' = [freelist EXCEPT ![cpu_page] = @ \cup {o}]
  /\ inuse' = [inuse EXCEPT ![cpu_page] = @ - 1]
  /\ tail' = FALSE
  /\ UNCHANGED <<objects, frozen, locked, listVars, cpu_page, out, pc, call>>

KeepEmpty(p) == inuse[p] = 0 /\ nr_partial < min_partial

(* Mutant: a full slab goes on the partial list. *)
PartialEvenFull(p) == inuse[p] # 0

IsPartial(p) == inuse[p] # 0 /\ freelist[p] # {}

(* The end of deactive_slab: unfreeze_slab puts the slab on the partial list,
   keeps a few empty ones at its end, and gives the other empty ones back. *)
UnfreezeSlab ==
  /\ pc = "deactive_slab"
  /\ cpu_free = {}
  /\ cpu_page' = NoPage
  /\ frozen' = frozen \ {cpu_page}
  /\ slab_unlock(cpu_page)
  /\ \/ /\ IsPartial(cpu_page)
        /\ add_partial(cpu_page, tail)
        /\ UNCHANGED <<objects, freelist, inuse>>
     \/ /\ KeepEmpty(cpu_page)
        /\ add_partial(cpu_page, TRUE)
        /\ UNCHANGED <<objects, freelist, inuse>>
     \/ /\ inuse[cpu_page] = 0
        /\ ~KeepEmpty(cpu_page)
        /\ discard_slab({cpu_page})
        /\ UNCHANGED listVars
     \/ /\ inuse[cpu_page] # 0
        /\ ~IsPartial(cpu_page)
        /\ UNCHANGED <<objects, freelist, inuse, listVars>>
  /\ pc' = IF call = "alloc" THEN "new_slab" ELSE call
  /\ UNCHANGED <<cpu_free, out, call, tail>>

(* get_partial finds the first partial slab it can lock. *)
PartialFound(p) ==
  /\ nr_partial # 0
  /\ \E i \in 1 .. Len(partial) :
       /\ partial[i] = p
       /\ p \notin locked
       /\ \A j \in 1 .. i - 1 : partial[j] \in locked

NewSlabFromPartial ==
  /\ pc = "new_slab"
  /\ \E p \in Pages :
       /\ PartialFound(p)
       /\ slab_lock(p)
       /\ remove_partial(p)
       /\ frozen' = frozen \cup {p}
       /\ cpu_page' = p
  /\ pc' = "load_freelist"
  /\ UNCHANGED <<objects, freelist, inuse, cpu_free, out, call, tail>>

(* new_slab: a block of the wanted order, or of the fallback order. *)
NewSlabFromPages ==
  /\ pc = "new_slab"
  /\ \A q \in Pages : ~PartialFound(q)
  /\ \E p \in Pages \ Slabs, n \in {MaxObjects, MinObjects} :
       /\ objects'  = [objects EXCEPT ![p] = n]
       /\ freelist' = [freelist EXCEPT ![p] = ObjectsAt(p, n)]
       /\ inuse'    = [inuse EXCEPT ![p] = 0]
       /\ slab_lock(p)
       /\ frozen'   = frozen \cup {p}
       /\ cpu_page' = p
  /\ pc' = "load_freelist"
  /\ UNCHANGED <<listVars, cpu_free, out, call, tail>>

(* new_slab fails, and so does the allocation. *)
NewSlabFails ==
  /\ pc = "new_slab"
  /\ \A q \in Pages : ~PartialFound(q)
  /\ pc' = "idle"
  /\ call' = "none"
  /\ UNCHANGED <<slabVars, listVars, cpuVars, out, tail>>

-----------------------------------------------------------------------------
(* Freeing *)

(* slab_free of an object of the cpu slab. *)
FreeFast(o) ==
  /\ pc = "idle"
  /\ o \in out
  /\ o[1] = cpu_page
  /\ cpu_free' = cpu_free \cup {o}
  /\ out' = out \ {o}
  /\ UNCHANGED <<slabVars, listVars, cpu_page, pc, call, tail>>

(* Mutant: a slab is looked for on the partial list although it was full. *)
WasAlwaysListed(p) == TRUE

(* prior: the slab had free objects already, and so is on the partial list. *)
WasListed(p) == freelist[p] # {}

(* Mutant: a slab that was full is put on the list before it is seen empty. *)
LastIfListed(p) == p \notin frozen /\ inuse[p] = 1 /\ freelist[p] # {}

(* slab_empty: the object is the last one, of a slab no cpu owns. *)
LastObject(p) == p \notin frozen /\ inuse[p] = 1

(* __slab_free, its lock taken and dropped: the object goes on the slab's own
   freelist.  The last object takes the slab with it, the first one puts the
   slab on the partial list.                                               *)
FreeSlow(o) ==
  LET p == o[1]
  IN /\ pc = "idle"
     /\ o \in out
     /\ p # cpu_page
     /\ p \notin locked
     /\ out' = out \ {o}
     /\ \/ /\ p \notin frozen
           /\ inuse[p] = 1
           /\ IF WasListed(p) THEN remove_partial(p) ELSE UNCHANGED listVars
           /\ discard_slab({p})
        \/ /\ ~LastObject(p)
           /\ freelist' = [freelist EXCEPT ![p] = @ \cup {o}]
           /\ inuse' = [inuse EXCEPT ![p] = @ - 1]
           /\ IF p \notin frozen /\ ~WasListed(p)
              THEN add_partial(p, TRUE)
              ELSE UNCHANGED listVars
           /\ UNCHANGED objects
     /\ UNCHANGED <<frozen, locked, cpuVars, pc, call, tail>>

-----------------------------------------------------------------------------
(* Shrinking and closing *)

(* flush_all, which both start with: the cpu slab is deactivated. *)
Flush(c) ==
  /\ pc = "idle"
  /\ call' = c
  /\ IF cpu_page = NoPage
     THEN pc' = c /\ UNCHANGED <<locked, tail>>
     ELSE pc' = "deactive_slab" /\ slab_lock(cpu_page) /\ tail' = TRUE
  /\ UNCHANGED <<objects, freelist, inuse, frozen, listVars, cpuVars, out>>

(* The empty slabs on the partial list that can be locked. *)
Removable == {p \in ToSet(partial) : inuse[p] = 0 /\ p \notin locked}

(* What a walk along the list s leaves of it that unlinks the slabs of P. *)
Without(s, P) ==
  LET walk[i \in 0 .. Len(s)] ==
        IF i = 0 THEN <<>>
        ELSE IF s[i] \in P THEN walk[i - 1]
        ELSE Append(walk[i - 1], s[i])
  IN walk[Len(s)]

(* The order the lists of slabs_by_inuse are joined in, fullest first. *)
Buckets == [k \in 1 .. MaxObjects |-> MaxObjects - k]

(* kmem_cache_shrink: empty slabs are given back, the others sorted by their
   objects in use, the later one first where these are equal.              *)
Shrink ==
  /\ pc = "shrink"
  /\ LET left == Without(partial, Removable)
         bucket(i) == Reverse(Without(left, {p \in Pages : inuse[p] # i}))
     IN partial' = FlattenSeq([k \in DOMAIN Buckets |-> bucket(Buckets[k])])
  /\ nr_partial' = nr_partial - Cardinality(Removable)
  /\ discard_slab(Removable)
  /\ pc' = "idle"
  /\ call' = "none"
  /\ UNCHANGED <<frozen, locked, cpuVars, out, tail>>

(* The slabs free_partial gives back. *)
Empty == {p \in ToSet(partial) : inuse[p] = 0}

(* kmem_cache_close, by kmem_cache_destroy of the last reference: the empty
   slabs are given back, and the cache is gone whatever is left.           *)
Close ==
  /\ pc = "close"
  /\ partial' = Without(partial, Empty)
  /\ nr_partial' = nr_partial - Cardinality(Empty)
  /\ discard_slab(Empty)
  /\ pc' = "closed"
  /\ UNCHANGED <<frozen, locked, cpuVars, out, call, tail>>

-----------------------------------------------------------------------------
Call ==
  \/ AllocFast
  \/ AllocSlow
  \/ \E o \in Object : FreeFast(o) \/ FreeSlow(o)
  \/ \E c \in {"shrink", "close"} : Flush(c)

Step ==
  \/ LoadFreelist
  \/ MergeFreelist
  \/ UnfreezeSlab
  \/ NewSlabFromPartial
  \/ NewSlabFromPages
  \/ NewSlabFails
  \/ Shrink
  \/ Close

Next == Call \/ Step

Spec == Init /\ [][Next]_vars

(* A call in progress runs on: interrupts are off and there is one CPU. *)
FairSpec == Spec /\ WF_vars(Step)

-----------------------------------------------------------------------------
(* Properties *)

TypeOK ==
  /\ objects \in [Pages -> {0, MinObjects, MaxObjects}]
  /\ freelist \in [Pages -> SUBSET Object]
  /\ inuse \in [Pages -> 0 .. MaxObjects]
  /\ frozen \subseteq Pages
  /\ locked \subseteq Pages
  /\ partial \in Seq(Pages)
  /\ nr_partial \in Nat
  /\ cpu_page \in Pages \cup {NoPage}
  /\ cpu_free \subseteq Object
  /\ out \subseteq Object
  /\ pc \in {"idle", "load_freelist", "deactive_slab", "new_slab", "shrink", "close", "closed"}
  /\ call \in {"none", "alloc", "shrink", "close"}
  /\ tail \in BOOLEAN

(* Every object of a slab is in one place: with a caller, on the cpu's freelist
   or on its slab's, also while deactive_slab moves them; and no caller holds
   an object whose slab was given back.                                    *)
ObjectsHaveOneOwner ==
  /\ \A p \in Pages : freelist[p] \subseteq ObjectsOf(p)
  /\ out \cup cpu_free \cup UNION {freelist[p] : p \in Pages} = UNION {ObjectsOf(p) : p \in Pages}
  /\ out \cap cpu_free = {}
  /\ \A p \in Pages : freelist[p] \cap (out \cup cpu_free) = {}

(* page->inuse, by which a slab is judged empty, is the number of objects that
   are not on its own freelist.                                            *)
InuseExact == \A p \in Pages : inuse[p] + Cardinality(freelist[p]) = objects[p]

(* The partial list has every slab but the cpu's that has free objects, once,
   and nr_partial is its length.  A full slab is found again by its first
   free, which must list it, and an emptied one is unlinked only if listed;
   both are judged by the slab's counters, which must be exact.            *)
ListsExact ==
  /\ InuseExact
  /\ ToSet(partial) = {p \in Slabs \ frozen : freelist[p] # {}}
  /\ Cardinality(ToSet(partial)) = Len(partial)
  /\ nr_partial = Len(partial)

(* The cpu slab is the one frozen slab, has the objects of the cpu's freelist,
   and is locked on the way through __slab_alloc and deactive_slab only: no
   path returns with a page lock held, nor takes one it already holds.     *)
CpuSlab ==
  /\ frozen = {cpu_page} \ {NoPage}
  /\ cpu_page \in Slabs \cup {NoPage}
  /\ \A o \in cpu_free : o[1] = cpu_page
  /\ locked = IF pc \in {"load_freelist", "deactive_slab"} THEN {cpu_page} ELSE {}

(* Where the CPU is in a call fixes what it has in hand: load_freelist and the
   search for a new slab find the cpu's freelist used up, deactive_slab within
   an allocation has a full slab, and shrink and close have no cpu slab.   *)
OnTheWay ==
  /\ pc = "idle" => call = "none"
  /\ pc \in {"load_freelist", "new_slab"} => call = "alloc" /\ cpu_free = {}
  /\ pc = "deactive_slab" =>
       call # "none" /\ (call = "alloc" => cpu_free = {} /\ freelist[cpu_page] = {})
  /\ pc \in {"shrink", "close"} => call = pc
  /\ pc \in {"load_freelist", "deactive_slab"} => cpu_page # NoPage
  /\ pc \in {"new_slab", "shrink", "close", "closed"} => cpu_page = NoPage

(* No empty slab is on the partial list but on the way from the flush of a
   shrink or a close to its walk, which always meets the one unfreeze_slab may
   keep there, of up to min_partial; a free gives an emptied slab back at once,
   whether it was listed or, with one object only, full before.            *)
NoEmptySlabsKept ==
  pc \notin {"shrink", "close"} => \A p \in ToSet(partial) : inuse[p] # 0

(* A closed cache has given back every slab that has no object in use. *)
CloseReleases == pc = "closed" => \A p \in Slabs : ObjectsOf(p) \cap out # {}

(* Objects, lists, counters, the cpu slab and its lock agree at every step of
   every call, and no empty slab is left behind between them.  It is inductive. *)
SlabsSound ==
  /\ TypeOK
  /\ ObjectsHaveOneOwner
  /\ ListsExact
  /\ CpuSlab
  /\ OnTheWay
  /\ NoEmptySlabsKept
  /\ CloseReleases

(* An allocation fails only when every object there is is handed out: no free
   object is left behind on a slab that no list leads to.                  *)
FailsExhausted ==
  pc = "new_slab" /\ pc' = "idle" => out = UNION {ObjectsOf(p) : p \in Pages}

(* kmem_cache_shrink leaves no empty slab, and the fullest slabs first. *)
Shrunk ==
  pc = "shrink" =>
    /\ \A p \in Slabs' : inuse'[p] # 0
    /\ \A i \in 1 .. Len(partial') - 1 : inuse'[partial'[i]] >= inuse'[partial'[i + 1]]

(* A call answers as its comment says: an allocation that fails has found no
   object anywhere, and a shrink leaves the fullest slabs first.           *)
AnswersRight == [][FailsExhausted /\ Shrunk]_vars

(* Every call of the allocator returns: the search for a slab does not come
   back to a slab that has nothing.                                        *)
CallsReturn == (pc \notin {"idle", "closed"}) ~> (pc \in {"idle", "closed"})

(* The cache implements an abstract store of objects. *)
Store == INSTANCE ObjectStore WITH
  backed <- UNION {ObjectsOf(p) : p \in Pages}

ImplementsStore == Store!Spec

=============================================================================
