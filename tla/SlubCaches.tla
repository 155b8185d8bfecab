------------------------------ MODULE SlubCaches ------------------------------
(***************************************************************************)
(* The caches of mm/slub.c: how a cache is laid out (size, alignment,      *)
(* order), the caches the boot makes, kmalloc's choice among them, and     *)
(* kmem_cache_create and kmem_cache_destroy with merging.  What happens to *)
(* the objects of one cache is module Slub.  The allocations a creation    *)
(* needs (a name, a structure, a node, a percpu area) may each fail.       *)
(***************************************************************************)
EXTENDS Integers, Sequences, FiniteSets, SequencesExt, FiniteSetsExt, Functions

CONSTANTS
  PAGE_SHIFT,      \* pages of 2^PAGE_SHIFT bytes
  MAX_ORDER,       \* the orders of the page allocator
  slub_max_order,  \* the highest order wanted for a slab
  Word,            \* sizeof(void *)
  CacheLine,       \* cache_line_size()
  MinAlign,        \* ARCH_SLAB_MINALIGN
  KmemSize,        \* kmem_size
  NodeSize,        \* sizeof(struct kmem_cache_node)
  Requests,        \* the caches asked for: [size, align, flags, ctor]
  AskedSizes,      \* the sizes asked of kmalloc
  MaxHandles,      \* bound: caches asked for at a time
  MaxLost          \* bound: structures lost

ASSUME CachesAssumption ==
  /\ {PAGE_SHIFT, MAX_ORDER, slub_max_order, MaxHandles, MaxLost} \subseteq Nat
  /\ {Word, CacheLine, MinAlign, KmemSize, NodeSize} \subseteq Nat \ {0}
  /\ \A req \in Requests :
       req.size > 0 /\ req.align \in Nat /\ req.flags \subseteq STRING /\ req.ctor \in BOOLEAN

VARIABLES
  slab_state,      \* DOWN, PARTIAL, UP
  kcache,          \* the caches, by their number
  slab_caches,     \* their list, head first
  kmalloc_caches,  \* the cache of every kmalloc index
  handles,         \* ghost: what the callers were given
  structs,         \* the names, nodes and percpu areas in existence
  lost,            \* ghost: those nothing refers to any more
  chosen            \* the last size asked of kmalloc and its index, until a creation

slubCachesVars == <<slab_state, kcache, slab_caches, kmalloc_caches, handles,
                    structs, lost, chosen>>

-----------------------------------------------------------------------------
(* The layout of a cache *)

RoundUp(x, to) == ((x + to - 1) \div to) * to
Log(x)         == CHOOSE i \in 0 .. 29 : 2 ^ i <= x /\ x < 2 ^ (i + 1)
LastSet(x)     == IF x = 0 THEN 0 ELSE Log(x) + 1
PageBytes(order) == 2 ^ (PAGE_SHIFT + order)
get_order(size)  == Min({o \in 0 .. 16 : size <= PageBytes(o)})

(* Above max_order when no order up to it will do. *)
slab_order(size, min_objects, max_order, fraction) ==
  LET first == Max({0, LastSet(min_objects * size - 1) - PAGE_SHIFT})
      fits  == {o \in first .. max_order :
                  /\ PageBytes(o) >= min_objects * size
                  /\ PageBytes(o) % size <= PageBytes(o) \div fraction}
  IN  IF fits # {} THEN Min(fits) ELSE Max({first, max_order + 1})

(* As many objects as possible up to eight, then as little waste. *)
calculate_order(size) ==
  LET most    == Min({8, PageBytes(slub_max_order) \div size})
      Good(n) == {slab_order(size, n, slub_max_order, f) : f \in {16, 8, 4}}
      First(n) == CHOOSE f \in {16, 8, 4} :
                    /\ slab_order(size, n, slub_max_order, f) <= slub_max_order
                    /\ \A g \in {16, 8, 4} : g > f =>
                         slab_order(size, n, slub_max_order, g) > slub_max_order
      several == {n \in 2 .. most : \E o \in Good(n) : o <= slub_max_order}
      single  == slab_order(size, 1, slub_max_order, 1)
      large   == slab_order(size, 1, MAX_ORDER, 1)
  IN  IF several # {}
      THEN LET n == Max(several) IN slab_order(size, n, slub_max_order, First(n))
      ELSE IF single <= slub_max_order THEN single
      ELSE IF large < MAX_ORDER THEN large ELSE -1

calculate_alignment(flags, align, size) ==
  LET lines == {CacheLine \div 2 ^ i : i \in 0 .. Log(CacheLine)}
      least == IF "HWCACHE_ALIGN" \in flags
               THEN Max({align, Max({l \in lines : 2 * size > l})}) ELSE align
  IN  RoundUp(Max({least, MinAlign}), Word)

(* Where the free pointer lies: behind the object if a free object's content
   must survive.                                                           *)
FreePointer(req) ==
  IF req.ctor \/ "DESTROY_BY_RCU" \in req.flags THEN RoundUp(req.size, Word) ELSE 0

calculate_sizes(req) ==
  LET inuse == RoundUp(req.size, Word)
      align == calculate_alignment(req.flags, req.align, req.size)
      size  == RoundUp(IF FreePointer(req) = 0 THEN inuse ELSE inuse + Word, align)
      order == calculate_order(size)
  IN  [objsize |-> req.size, size |-> size, align |-> align, inuse |-> inuse,
       offset |-> FreePointer(req), order |-> order,
       objects |-> IF order < 0 THEN 0 ELSE PageBytes(order) \div size,
       least |-> PageBytes(get_order(size)) \div size,
       min_partial |-> Max({5, Min({10, Log(size)})}),
       flags |-> req.flags, ctor |-> req.ctor, refcount |-> 1]

-----------------------------------------------------------------------------
(* The boot *)

BootRequest(size, flags) == [size |-> size, align |-> 0, flags |-> flags, ctor |-> FALSE]
KmallocRequest(size)     == [BootRequest(size, {}) EXCEPT !.align = MinAlign]

KmallocShifts == 3 .. PAGE_SHIFT + 1
KmallocIndices == {1, 2} \cup KmallocShifts
KmallocSize(i) == IF i = 1 THEN 96 ELSE IF i = 2 THEN 192 ELSE 2 ^ i

NothingAsked == [size |-> 0, index |-> 0]

(* Caches are numbered as they are made: 1 and 2 hold nodes and caches. *)
NewNumber == Min((1 .. Cardinality(DOMAIN kcache) + 1) \ DOMAIN kcache)

SlubCachesInit ==
  /\ slab_state = "DOWN"
  /\ kcache = [i \in {} |-> 0]
  /\ slab_caches = <<>>
  /\ kmalloc_caches = [i \in {} |-> 0]
  /\ handles = {}
  /\ structs = [name |-> 0, node |-> 0, cpu |-> 0]
  /\ lost = [name |-> 0, node |-> 0, cpu |-> 0]
  /\ chosen = NothingAsked

(* kmem_cache_init opens the cache of the nodes, whose first node is one of
   its own objects.                                                        *)
OpenNodeCache ==
  /\ slab_state = "DOWN"
  /\ kcache' = 1 :> calculate_sizes(BootRequest(NodeSize, {"HWCACHE_ALIGN", "PANIC"}))
  /\ structs' = [structs EXCEPT !.node = 1, !.cpu = 1]
  /\ slab_state' = "PARTIAL"
  /\ UNCHANGED <<slab_caches, kmalloc_caches, handles, lost, chosen>>

(* Then the cache of the caches; both are copied into objects of the second,
   listed, and kept out of merging (kmem_cache_bootstrap_fixup).           *)
OpenCacheCache ==
  /\ slab_state = "PARTIAL" /\ slab_caches = <<>>
  /\ LET own == calculate_sizes(BootRequest(KmemSize, {"HWCACHE_ALIGN", "PANIC"}))
     IN  kcache' = 1 :> [kcache[1] EXCEPT !.refcount = -1] @@ 2 :> [own EXCEPT !.refcount = -1]
  /\ slab_caches' = <<2, 1>>
  /\ structs' = [structs EXCEPT !.node = @ + 1, !.cpu = @ + 1]
  /\ UNCHANGED <<slab_state, kmalloc_caches, handles, lost, chosen>>

(* create_kmalloc_cache for every index in turn. *)
CreateKmallocCache ==
  /\ slab_state = "PARTIAL" /\ slab_caches # <<>>
  /\ KmallocIndices \ DOMAIN kmalloc_caches # {}
  /\ LET i == Min(KmallocIndices \ DOMAIN kmalloc_caches)
     IN  /\ kcache' = kcache @@ NewNumber :> calculate_sizes(KmallocRequest(KmallocSize(i)))
         /\ kmalloc_caches' = kmalloc_caches @@ i :> NewNumber
  /\ slab_caches' = <<NewNumber>> \o slab_caches
  /\ structs' = [structs EXCEPT !.node = @ + 1, !.cpu = @ + 1]
  /\ UNCHANGED <<slab_state, handles, lost, chosen>>

(* The caches are up; two of them get a copy of their name. *)
CachesUp ==
  /\ slab_state = "PARTIAL" /\ DOMAIN kmalloc_caches = KmallocIndices
  /\ slab_state' = "UP"
  /\ structs' = [structs EXCEPT !.name = 2]
  /\ UNCHANGED <<kcache, slab_caches, kmalloc_caches, handles, lost, chosen>>

-----------------------------------------------------------------------------
(* kmalloc's choice *)

(* size_index: below 192 bytes the caches are not all powers of two. *)
size_index(elem) ==
  IF elem = 0 THEN 3 ELSE IF elem = 1 THEN 4 ELSE IF elem <= 3 THEN 5
  ELSE IF elem <= 7 THEN 6 ELSE IF elem <= 11 THEN 1 ELSE IF elem <= 15 THEN 7 ELSE 2

get_slab(size) == IF size <= 192 THEN size_index((size - 1) \div 8) ELSE LastSet(size - 1)

(* kmalloc_index, for a size the compiler knows. *)
kmalloc_index(size) ==
  IF size > 64 /\ size <= 96 THEN 1 ELSE IF size > 128 /\ size <= 192 THEN 2
  ELSE Min({i \in KmallocShifts : size <= 2 ^ i})

(* kmalloc: __kmalloc, or the inline choice; larger sizes go to the pages. *)
Kmalloc ==
  /\ slab_state = "UP" /\ handles = {}
  /\ \E size \in AskedSizes :
       /\ size \in 1 .. 2 * PageBytes(0)
       /\ \/ chosen' = [size |-> size, index |-> get_slab(size)]
          \/ chosen' = [size |-> size, index |-> kmalloc_index(size)]
  /\ UNCHANGED <<slab_state, kcache, slab_caches, kmalloc_caches, handles, structs, lost>>

-----------------------------------------------------------------------------
(* Creating and destroying *)

NeverMerge(flags, ctor) == "DESTROY_BY_RCU" \in flags \/ ctor
MergeSame(flags) == flags \cap {"RECLAIM_ACCOUNT"}

(* slab_unmergeable *)
Unmergeable(s) == NeverMerge(s.flags, s.ctor) \/ s.refcount < 0

(* find_mergeable, in the order of the list. *)
Mergeable(req) ==
  LET inuse == RoundUp(req.size, Word)
      align == calculate_alignment(req.flags, req.align, inuse)
      size  == RoundUp(inuse, align)
      Same(i) == LET s == kcache[i] IN
                 /\ ~ Unmergeable(s)
                 /\ size <= s.size
                 /\ MergeSame(req.flags) = MergeSame(s.flags)
                 /\ s.size % align = 0
                 /\ s.size - size < Word
  IN  IF NeverMerge(req.flags, req.ctor) THEN <<>> ELSE SelectSeq(slab_caches, Same)

Handle(req, i) ==
  [req |-> req, cache |-> i, nr |-> Min((1 .. MaxHandles) \ {h.nr : h \in handles})]

(* kmem_cache_create finds a cache to share. *)
CreateMerges ==
  /\ slab_state = "UP" /\ Cardinality(handles) < MaxHandles
  /\ \E req \in Requests :
       LET found == Mergeable(req) IN
       /\ found # <<>>
       /\ kcache' = [kcache EXCEPT
            ![Head(found)].refcount = @ + 1,
            ![Head(found)].objsize  = Max({@, req.size}),
            ![Head(found)].inuse    = Max({@, RoundUp(req.size, Word)})]
       /\ handles' = handles \cup {Handle(req, Head(found))}
  /\ chosen' = NothingAsked
  /\ UNCHANGED <<slab_state, slab_caches, kmalloc_caches, structs, lost>>

Opens(req) == calculate_sizes(req).objects > 0

(* ... or makes one. *)
CreateNew ==
  /\ slab_state = "UP" /\ Cardinality(handles) < MaxHandles
  /\ \E req \in Requests :
       /\ Mergeable(req) = <<>> /\ Opens(req)
       /\ kcache' = kcache @@ NewNumber :> calculate_sizes(req)
       /\ handles' = handles \cup {Handle(req, NewNumber)}
  /\ slab_caches' = <<NewNumber>> \o slab_caches
  /\ structs' = [structs EXCEPT !.name = @ + 1, !.node = @ + 1, !.cpu = @ + 1]
  /\ chosen' = NothingAsked
  /\ UNCHANGED <<slab_state, kmalloc_caches, lost>>

(* What a failed kmem_cache_open leaves behind: it frees the node when there is
   no percpu area.                                                         *)
LeftByOpen == [name |-> 0, node |-> 0, cpu |-> 0]

(* Mutant: the name is not freed either. *)
NameStays == [LeftByOpen EXCEPT !.name = 1]

(* kmem_cache_create frees the structure and the name again. *)
LeftByCreate == LeftByOpen

(* kmem_cache_open fails: no order is large enough, or there is no node or no
   percpu area.  A caller with SLAB_PANIC is handed the freed structure: the
   panic only prints.                                                      *)
CreateFails ==
  /\ slab_state = "UP" /\ Cardinality(handles) < MaxHandles
  /\ \E req \in Requests :
       /\ Mergeable(req) = <<>>
       /\ handles' = IF "PANIC" \in req.flags THEN handles \cup {Handle(req, 0)} ELSE handles
  /\ structs' = [k \in DOMAIN structs |-> structs[k] + LeftByCreate[k]]
  /\ chosen' = NothingAsked
  /\ UNCHANGED <<slab_state, kcache, slab_caches, kmalloc_caches, lost>>

(* There is no memory for the structure: the name is not freed.  Without memory
   for the name, nothing has happened yet.                                 *)
CreateLosesName ==
  /\ slab_state = "UP" /\ lost.name < MaxLost
  /\ \E req \in Requests : Mergeable(req) = <<>>
  /\ structs' = [structs EXCEPT !.name = @ + 1]
  /\ lost' = [lost EXCEPT !.name = @ + 1]
  /\ chosen' = NothingAsked
  /\ UNCHANGED <<slab_state, kcache, slab_caches, kmalloc_caches, handles>>

(* Mutant: the cache is closed whoever else uses it. *)
ClosedAtOnce(s) == TRUE

(* The last user is gone. *)
Closed(s) == s.refcount = 1

(* kmem_cache_destroy.  Objects still in use keep the node structure from being
   freed, and nothing refers to it afterwards.                             *)
kmem_cache_destroy ==
  \E h \in handles, busy \in BOOLEAN :
    /\ h.cache # 0
    /\ busy => lost.node < MaxLost
    /\ handles' = handles \ {h}
    /\ IF Closed(kcache[h.cache])
       THEN /\ kcache' = Restrict(kcache, DOMAIN kcache \ {h.cache})
            /\ slab_caches' = Remove(slab_caches, h.cache)
            /\ structs' = [name |-> structs.name - 1, cpu |-> structs.cpu - 1,
                           node |-> IF busy THEN structs.node ELSE structs.node - 1]
            /\ lost' = IF busy THEN [lost EXCEPT !.node = @ + 1] ELSE lost
       ELSE /\ ~ busy
            /\ kcache' = [kcache EXCEPT ![h.cache].refcount = @ - 1]
            /\ UNCHANGED <<slab_caches, structs, lost>>
    /\ UNCHANGED <<slab_state, kmalloc_caches, chosen>>

SlubCachesNext ==
  \/ OpenNodeCache \/ OpenCacheCache \/ CreateKmallocCache \/ CachesUp
  \/ Kmalloc
  \/ CreateMerges \/ CreateNew \/ CreateFails \/ CreateLosesName
  \/ kmem_cache_destroy

-----------------------------------------------------------------------------
(* Properties *)

BootCaches == 2 + Cardinality(KmallocIndices)

(* kmalloc gets its object, by either way to choose, from the smallest of its
   caches that is large enough; and every slab of every cache holds what the
   cache says, also in the smallest order it falls back to.                *)
SlabsFit ==
  /\ chosen.size > 0 =>
       LET Room(i) == kcache[kmalloc_caches[i]].size IN
       /\ Room(chosen.index) >= chosen.size
       /\ \A i \in KmallocIndices : Room(i) >= chosen.size => Room(i) >= Room(chosen.index)
  /\ \A i \in DOMAIN kcache :
       LET s == kcache[i] IN
       /\ s.objects >= s.least /\ s.least >= 1
       /\ s.objects * s.size <= PageBytes(s.order) /\ s.order < MAX_ORDER

(* A cache that was created is good for its creator for as long as it is held,
   whoever it is shared with and whoever destroys his share: it exists and is
   on the list, an object has room for what was asked and its alignment, a free
   object's pointer leaves content alone that must survive, the count of its
   users is exact, and its slabs hold what it says.  Only a creation that
   asked to panic on failure may hand out a cache that is gone.            *)
CachesServe ==
  /\ SlabsFit
  /\ \A h \in handles : h.cache = 0 => "PANIC" \in h.req.flags
  /\ \A h \in handles : h.cache # 0 =>
       /\ h.cache \in DOMAIN kcache
       /\ LET s == kcache[h.cache] IN
          /\ s.size >= h.req.size /\ s.objsize >= h.req.size
          /\ h.req.align > 0 => s.size % h.req.align = 0
          /\ h.req.ctor => s.offset >= h.req.size /\ s.size >= s.offset + Word
          /\ s.refcount = Cardinality({g \in handles : g.cache = h.cache})
                          + (IF h.cache <= BootCaches THEN 1 ELSE 0)

(* Names, node structures and percpu areas belong to the listed caches, one
   each, however a creation failed half-way; only what the code loses (a name
   without a structure, the node of a cache closed with objects) is left.  *)
StructuresOwned ==
  slab_state = "UP" =>
    /\ ToSet(slab_caches) = DOMAIN kcache /\ IsInjective(slab_caches)
    /\ structs.node = Len(slab_caches) + lost.node
    /\ structs.cpu  = Len(slab_caches) + lost.cpu
    /\ structs.name = Len(slab_caches) - BootCaches + 2 + lost.name
===============================================================================
