----------------------------- MODULE SlubProofs -----------------------------
(***************************************************************************)
(* Proofs about the slab cache of module Slub, for any number of blocks of *)
(* pages, of objects in a slab, and any min_partial.                       *)
(***************************************************************************)
EXTENDS Slub, ListLemmas

-----------------------------------------------------------------------------
(* Walking the partial list *)

(* What is left of a list is the rest of its members, once each.           *)
LEMMA LeftByWalk ==
  ASSUME NEW S, NEW s \in Seq(S), NEW P
  PROVE  /\ Without(s, P) \in Seq(S)
         /\ ToSet(Without(s, P)) = ToSet(s) \ P
         /\ IsInjective(s) => IsInjective(Without(s, P))
<1> DEFINE n == Len(s)
           Walks(f) == f = [i \in 0 .. n |-> IF i = 0 THEN <<>>
                                             ELSE IF s[i] \in P THEN f[i - 1]
                                             ELSE Append(f[i - 1], s[i])]
           walk == CHOOSE f : Walks(f)
           step == [p \in (1 .. n) \X Seq(S) |->
                      IF s[p[1]] \in P THEN p[2] ELSE Append(p[2], s[p[1]])]
<1>1. n \in Nat /\ DOMAIN s = 1 .. n /\ \A i \in 1 .. n : s[i] \in S
  BY LenProperties
<1>2. Without(s, P) = walk[n]
  BY DEF Without
<1> HIDE DEF n
<1>3. step \in [(1 .. n) \X Seq(S) -> Seq(S)]
  <2> SUFFICES ASSUME NEW i \in 1 .. n, NEW t \in Seq(S) PROVE Append(t, s[i]) \in Seq(S)
    OBVIOUS
  <2> QED
    BY <1>1, AppendProperties
<1>4. \A i \in 1 .. n, t \in Seq(S) :
        step[<<i, t>>] = IF s[i] \in P THEN t ELSE Append(t, s[i])
  OBVIOUS
<1> HIDE DEF step
<1>5. PICK g \in [0 .. n -> Seq(S)] : Iterates(g, n, <<>>, step)
  <2>1. <<>> \in Seq(S)
    OBVIOUS
  <2> QED
    BY <1>1, <1>3, <2>1, Iteration
<1>6. ASSUME NEW i \in 0 .. n
      PROVE  g[i] = IF i = 0 THEN <<>>
                    ELSE IF s[i] \in P THEN g[i - 1] ELSE Append(g[i - 1], s[i])
  <2>1. CASE i = 0
    BY <1>5, <2>1 DEF Iterates
  <2>2. CASE i # 0
    <3>1. i \in 1 .. n /\ g[i - 1] \in Seq(S)
      BY <1>1, <1>5, <2>2
    <3> QED
      BY <1>4, <1>5, <2>2, <3>1 DEF Iterates
  <2> QED
    BY <2>1, <2>2
<1>7. Walks(g)
  BY <1>5, <1>6
<1>8. Walks(walk)
  <2> HIDE DEF Walks
  <2> QED
    BY <1>7
<1> HIDE DEF walk
<1>9. walk[0] = <<>>
  BY <1>1, <1>8
<1>10. \A i \in 1 .. n : walk[i] = IF s[i] \in P THEN walk[i - 1] ELSE Append(walk[i - 1], s[i])
  <2>1. \A i \in 0 .. n : walk[i] = IF i = 0 THEN <<>>
                                    ELSE IF s[i] \in P THEN walk[i - 1]
                                    ELSE Append(walk[i - 1], s[i])
    BY <1>8
  <2>2. \A i \in 1 .. n : i \in 0 .. n /\ i # 0
    BY <1>1
  <2> HIDE DEF Walks
  <2> QED
    BY <2>1, <2>2
<1> HIDE DEF Walks
<1> DEFINE Seen(k) == {s[i] : i \in 1 .. k}
           Good(k) == /\ walk[k] \in Seq(S)
                      /\ ToSet(walk[k]) = Seen(k) \ P
                      /\ IsInjective(s) => IsInjective(walk[k])
           T == {k \in 0 .. n : Good(k)}
<1>11. 0 \in T
  <2>1. <<>> \in Seq(S) /\ ToSet(<<>>) = {} /\ IsInjective(<<>>)
    BY EmptyList
  <2>2. Seen(0) = {}
    OBVIOUS
  <2> HIDE DEF Seen
  <2>3. Good(0)
    BY <1>9, <2>1, <2>2
  <2> QED
    BY <1>1, <2>3
<1>12. ASSUME NEW k \in 1 .. n, k - 1 \in T PROVE k \in T
  <2> DEFINE w == walk[k - 1]
  <2>1. Good(k - 1)
    BY <1>12
  <2>2. Seen(k) = Seen(k - 1) \cup {s[k]}
    <3>1. 1 .. k = (1 .. k - 1) \cup {k}
      BY <1>1
    <3> QED
      BY <3>1
  <2>3. CASE s[k] \in P
    <3>1. walk[k] = w
      BY <1>10, <2>3
    <3>2. Good(k)
      BY <2>1, <2>2, <2>3, <3>1
    <3> QED
      BY <3>2
  <2>4. CASE s[k] \notin P
    <3>1. walk[k] = Append(w, s[k]) /\ w \in Seq(S) /\ s[k] \in S
      BY <1>1, <1>10, <2>1, <2>4
    <3>2. IsInjective(s) => s[k] \notin Seen(k - 1)
      <4>1. ASSUME IsInjective(s), NEW i \in 1 .. k - 1, s[i] = s[k] PROVE FALSE
        <5>1. i \in DOMAIN s /\ k \in DOMAIN s /\ i # k
          BY <1>1
        <5> QED
          BY <4>1, <5>1 DEF IsInjective
      <4> QED
        BY <4>1
    <3> HIDE DEF w, Seen
    <3>3. /\ Append(w, s[k]) \in Seq(S) /\ ToSet(Append(w, s[k])) = ToSet(w) \cup {s[k]}
          /\ IsInjective(w) /\ s[k] \notin ToSet(w) => IsInjective(Append(w, s[k]))
      BY <3>1, Appended
    <3>4. w \in Seq(S) /\ ToSet(w) = Seen(k - 1) \ P /\ (IsInjective(s) => IsInjective(w))
      BY <2>1 DEF w
    <3>5. Good(k)
      BY <2>2, <2>4, <3>1, <3>2, <3>3, <3>4
    <3> QED
      BY <3>5
  <2> QED
    BY <2>3, <2>4
<1> HIDE DEF T
<1>13. n \in T
  <2>1. 0 .. n \subseteq T
    BY <1>1, <1>11, <1>12, InductionUpTo
  <2> QED
    BY <1>1, <2>1
<1>14. Seen(n) = ToSet(s)
  BY <1>1 DEF ToSet
<1> QED
  BY <1>2, <1>13, <1>14 DEF T

-----------------------------------------------------------------------------
(* Objects *)

LEMMA ObjectParts ==
  /\ \A o \in Object : o[1] \in Pages /\ o[2] \in 1 .. MaxObjects /\ o = <<o[1], o[2]>>
  /\ \A p \in Pages, i \in 1 .. MaxObjects :
       <<p, i>> \in Object /\ <<p, i>>[1] = p /\ <<p, i>>[2] = i
BY DEF Object

(* Membership in a slab, by the two parts of an object. *)
LEMMA ObjectsAtParts ==
  ASSUME NEW p \in Pages, NEW n \in 0 .. MaxObjects
  PROVE  /\ ObjectsAt(p, n) \subseteq Object
         /\ \A o \in Object : o \in ObjectsAt(p, n) <=> o[1] = p /\ o[2] <= n
<1>0. MaxObjects \in Nat
  BY CacheAssumption
<1>1. \A i \in 1 .. n : i \in 1 .. MaxObjects
  BY <1>0
<1>2. ObjectsAt(p, n) \subseteq Object
  BY <1>1, ObjectParts DEF ObjectsAt
<1>3. ASSUME NEW o \in ObjectsAt(p, n) PROVE o[1] = p /\ o[2] <= n
  <2>1. PICK i \in 1 .. n : o = <<p, i>>
    BY <1>3 DEF ObjectsAt
  <2> QED
    BY <2>1, <1>1, ObjectParts
<1>4. ASSUME NEW o \in Object, o[1] = p, o[2] <= n PROVE o \in ObjectsAt(p, n)
  <2>1. o = <<p, o[2]>> /\ o[2] \in 1 .. n
    BY <1>0, <1>4, ObjectParts
  <2> QED
    BY <2>1 DEF ObjectsAt
<1> QED
  BY <1>2, <1>3, <1>4

(* A slab of n objects has n of them. *)
LEMMA ObjectsCounted ==
  ASSUME NEW p, NEW n \in Nat
  PROVE  IsFiniteSet(ObjectsAt(p, n)) /\ Cardinality(ObjectsAt(p, n)) = n
<1> DEFINE f == [i \in 1 .. n |-> <<p, i>>]
<1>1. f \in Bijection(1 .. n, ObjectsAt(p, n))
  BY DEF ObjectsAt, Bijection, Injection, Surjection, IsInjective
<1>2. ExistsBijection(1 .. n, ObjectsAt(p, n))
  BY <1>1 DEF ExistsBijection
<1> QED
  BY <1>2, FS_CountingElements, FS_NatBijection

-----------------------------------------------------------------------------
(* The invariant, in the form the provers work with: ownership by the object,
   and the partial list as a sequence without repetitions.                 *)

OwnedByObject ==
  /\ \A p \in Pages : \A o \in freelist[p] : o[1] = p
  /\ \A o \in Object :
       /\ o[2] <= objects[o[1]] <=> (o \in out \/ o \in cpu_free \/ o \in freelist[o[1]])
       /\ ~ (o \in out /\ o \in cpu_free)
       /\ ~ (o \in freelist[o[1]] /\ (o \in out \/ o \in cpu_free))

Listed ==
  /\ IsInjective(partial)
  /\ ToSet(partial) = {p \in Slabs \ frozen : freelist[p] # {}}
  /\ nr_partial = Len(partial)

SInv ==
  /\ TypeOK
  /\ OwnedByObject
  /\ InuseExact
  /\ Listed
  /\ CpuSlab
  /\ OnTheWay
  /\ NoEmptySlabsKept
  /\ CloseReleases

LEMMA ObjectsBounded ==
  ASSUME TypeOK
  PROVE  /\ \A p \in Pages : objects[p] \in 0 .. MaxObjects
         /\ MaxObjects \in Nat /\ MinObjects \in 1 .. MaxObjects
BY CacheAssumption DEF TypeOK

LEMMA OwnershipByObject == TypeOK => (ObjectsHaveOneOwner <=> OwnedByObject)
<1> SUFFICES ASSUME TypeOK PROVE ObjectsHaveOneOwner <=> OwnedByObject
  OBVIOUS
<1>1. \A p \in Pages : objects[p] \in 0 .. MaxObjects
  BY ObjectsBounded
<1>2. \A p \in Pages : /\ ObjectsOf(p) \subseteq Object
                       /\ \A o \in Object : o \in ObjectsOf(p) <=> o[1] = p /\ o[2] <= objects[p]
  BY <1>1, ObjectsAtParts DEF ObjectsOf
<1>3. freelist \in [Pages -> SUBSET Object] /\ out \subseteq Object /\ cpu_free \subseteq Object
  BY DEF TypeOK
<1>4. \A o \in Object : o \in UNION {ObjectsOf(p) : p \in Pages} <=> o[2] <= objects[o[1]]
  BY <1>2, ObjectParts
<1>5. ASSUME ObjectsHaveOneOwner PROVE OwnedByObject
  <2>1. \A p \in Pages : \A o \in freelist[p] : o[1] = p
    BY <1>2, <1>3, <1>5 DEF ObjectsHaveOneOwner
  <2>2. \A o \in Object : o \in UNION {freelist[p] : p \in Pages} <=> o \in freelist[o[1]]
    BY <2>1, <1>3, ObjectParts
  <2>3. \A o \in Object :
          o \in UNION {ObjectsOf(p) : p \in Pages}
            <=> (o \in out \/ o \in cpu_free \/ o \in UNION {freelist[p] : p \in Pages})
    BY <1>5 DEF ObjectsHaveOneOwner
  <2>4. \A o \in Object : o[2] <= objects[o[1]]
          <=> (o \in out \/ o \in cpu_free \/ o \in freelist[o[1]])
    BY <1>4, <2>2, <2>3
  <2>5. \A o \in Object : /\ ~ (o \in out /\ o \in cpu_free)
                          /\ ~ (o \in freelist[o[1]] /\ (o \in out \/ o \in cpu_free))
    BY <1>5, ObjectParts DEF ObjectsHaveOneOwner
  <2> QED
    BY <2>1, <2>4, <2>5 DEF OwnedByObject
<1>6. ASSUME OwnedByObject PROVE ObjectsHaveOneOwner
  <2>1. \A p \in Pages : freelist[p] \subseteq ObjectsOf(p)
    <3> SUFFICES ASSUME NEW p \in Pages, NEW o \in freelist[p] PROVE o \in ObjectsOf(p)
      OBVIOUS
    <3>1. o \in Object /\ o[1] = p
      BY <1>3, <1>6 DEF OwnedByObject
    <3>2. o[2] <= objects[p]
      BY <1>6, <3>1 DEF OwnedByObject
    <3> QED
      BY <1>2, <3>1, <3>2
  <2>2. \A o \in Object : o \in UNION {freelist[p] : p \in Pages} <=> o \in freelist[o[1]]
    BY <1>3, <1>6, ObjectParts DEF OwnedByObject
  <2>3. out \cup cpu_free \cup UNION {freelist[p] : p \in Pages} = UNION {ObjectsOf(p) : p \in Pages}
    <3>1. UNION {ObjectsOf(p) : p \in Pages} \subseteq Object
      BY <1>2
    <3>2. out \cup cpu_free \cup UNION {freelist[p] : p \in Pages} \subseteq Object
      BY <1>3
    <3>3. \A o \in Object : o \in UNION {ObjectsOf(p) : p \in Pages}
            <=> o \in out \cup cpu_free \cup UNION {freelist[p] : p \in Pages}
      BY <1>4, <1>6, <2>2 DEF OwnedByObject
    <3> QED
      BY <3>1, <3>2, <3>3
  <2>4. out \cap cpu_free = {}
    BY <1>3, <1>6 DEF OwnedByObject
  <2>5. \A p \in Pages : freelist[p] \cap (out \cup cpu_free) = {}
    <3> SUFFICES ASSUME NEW p \in Pages, NEW o \in freelist[p] PROVE o \notin out \cup cpu_free
      OBVIOUS
    <3>1. o \in Object /\ o[1] = p
      BY <1>3, <1>6 DEF OwnedByObject
    <3> QED
      BY <1>6, <3>1 DEF OwnedByObject
  <2> QED
    BY <2>1, <2>3, <2>4, <2>5 DEF ObjectsHaveOneOwner
<1> QED
  BY <1>5, <1>6

(* The list has no repetitions when it is as long as its set of members. *)
LEMMA ListedIsExact == TypeOK => (ListsExact <=> InuseExact /\ Listed)
<1> SUFFICES ASSUME TypeOK PROVE ListsExact <=> InuseExact /\ Listed
  OBVIOUS
<1>1. partial \in Seq(Pages)
  BY DEF TypeOK
<1>2. Cardinality(ToSet(partial)) = Len(partial) => IsInjective(partial)
  BY <1>1, InjectiveOfLength
<1>3. IsInjective(partial) => Cardinality(ToSet(partial)) = Len(partial)
  BY <1>1, LengthOfInjective
<1> QED
  BY <1>2, <1>3 DEF ListsExact, Listed

LEMMA SoundInParts == SlabsSound <=> SInv
BY OwnershipByObject, ListedIsExact DEF SlabsSound, SInv

-----------------------------------------------------------------------------
(* What the invariant says of one slab *)

LEMMA OneSlab ==
  ASSUME SInv, NEW p \in Pages
  PROVE  /\ objects[p] \in 0 .. MaxObjects /\ inuse[p] \in 0 .. MaxObjects
         /\ freelist[p] \subseteq ObjectsOf(p) /\ freelist[p] \subseteq Object
         /\ ObjectsOf(p) \subseteq Object
         /\ \A o \in Object : o \in ObjectsOf(p) <=> o[1] = p /\ o[2] <= objects[p]
         /\ IsFiniteSet(freelist[p])
         /\ Cardinality(freelist[p]) \in Nat
         /\ Cardinality(freelist[p]) = 0 <=> freelist[p] = {}
         /\ inuse[p] + Cardinality(freelist[p]) = objects[p]
         /\ inuse[p] = 0 => freelist[p] = ObjectsOf(p)
<1>1. objects[p] \in 0 .. MaxObjects /\ inuse[p] \in 0 .. MaxObjects
  BY ObjectsBounded DEF SInv, TypeOK
<1>2. /\ ObjectsOf(p) \subseteq Object
      /\ \A o \in Object : o \in ObjectsOf(p) <=> o[1] = p /\ o[2] <= objects[p]
  BY <1>1, ObjectsAtParts DEF ObjectsOf
<1>3. freelist[p] \subseteq Object
  BY DEF SInv, TypeOK
<1>4. freelist[p] \subseteq ObjectsOf(p)
  BY <1>2, <1>3 DEF SInv, OwnedByObject
<1>5. IsFiniteSet(ObjectsOf(p)) /\ Cardinality(ObjectsOf(p)) = objects[p]
  BY <1>1, ObjectsCounted DEF ObjectsOf
<1>6. /\ IsFiniteSet(freelist[p])
      /\ Cardinality(ObjectsOf(p)) = Cardinality(freelist[p]) => ObjectsOf(p) = freelist[p]
  BY <1>4, <1>5, FS_Subset
<1>7. Cardinality(freelist[p]) \in Nat /\ (Cardinality(freelist[p]) = 0 <=> freelist[p] = {})
  BY <1>6, FS_CardinalityType, FS_EmptySet
<1>8. inuse[p] + Cardinality(freelist[p]) = objects[p]
  BY DEF SInv, InuseExact
<1>9. inuse[p] = 0 => freelist[p] = ObjectsOf(p)
  BY <1>1, <1>5, <1>6, <1>7, <1>8
<1> QED
  BY <1>1, <1>2, <1>3, <1>4, <1>6, <1>7, <1>8, <1>9

(* An object in use is counted, and the last of its slab leaves it empty. *)
LEMMA OneObject ==
  ASSUME SInv, NEW o \in Object, o \in out \/ o \in cpu_free
  PROVE  /\ o[1] \in Slabs /\ o[2] <= objects[o[1]]
         /\ inuse[o[1]] >= 1 /\ o \notin freelist[o[1]]
         /\ Cardinality(freelist[o[1]] \cup {o}) = Cardinality(freelist[o[1]]) + 1
         /\ inuse[o[1]] = 1 => freelist[o[1]] \cup {o} = ObjectsOf(o[1])
<1> DEFINE p == o[1]
<1>1. p \in Pages /\ o[2] \in 1 .. MaxObjects /\ MaxObjects \in Nat
  BY ObjectParts, CacheAssumption
<1>2. o[2] <= objects[p] /\ o \notin freelist[p]
  BY DEF SInv, OwnedByObject
<1>3. /\ objects[p] \in 0 .. MaxObjects /\ inuse[p] \in 0 .. MaxObjects
      /\ freelist[p] \subseteq ObjectsOf(p)
      /\ o \in ObjectsOf(p)
      /\ IsFiniteSet(freelist[p]) /\ Cardinality(freelist[p]) \in Nat
      /\ inuse[p] + Cardinality(freelist[p]) = objects[p]
  BY <1>1, <1>2, OneSlab
<1>4. IsFiniteSet(ObjectsOf(p)) /\ Cardinality(ObjectsOf(p)) = objects[p]
  BY <1>3, ObjectsCounted DEF ObjectsOf
<1>5. /\ IsFiniteSet(freelist[p] \cup {o})
      /\ Cardinality(freelist[p] \cup {o}) = Cardinality(freelist[p]) + 1
  BY <1>2, <1>3, FS_AddElement
<1>6. /\ Cardinality(freelist[p] \cup {o}) <= Cardinality(ObjectsOf(p))
      /\ Cardinality(ObjectsOf(p)) = Cardinality(freelist[p] \cup {o})
           => ObjectsOf(p) = freelist[p] \cup {o}
  BY <1>3, <1>4, FS_Subset
<1>7. inuse[p] >= 1 /\ objects[p] # 0
  BY <1>1, <1>2, <1>3, <1>4, <1>5, <1>6
<1>8. inuse[p] = 1 => freelist[p] \cup {o} = ObjectsOf(p)
  BY <1>3, <1>4, <1>5, <1>6
<1> QED
  BY <1>1, <1>2, <1>5, <1>7, <1>8 DEF Slabs

-----------------------------------------------------------------------------
(* The steps of an allocation *)

LEMMA AllocFastKeeps == SInv /\ AllocFast => SInv'
<1> SUFFICES ASSUME SInv, AllocFast PROVE SInv'
  OBVIOUS
<1>1. PICK o \in cpu_free : cpu_free' = cpu_free \ {o} /\ out' = out \cup {o}
  BY DEF AllocFast
<1>2. /\ pc = "idle" /\ pc' = pc /\ UNCHANGED <<objects, freelist, inuse, frozen, locked>>
      /\ UNCHANGED <<partial, nr_partial, cpu_page, call, tail>>
  BY DEF AllocFast, slabVars, listVars
<1>3. o \in Object
  BY DEF SInv, TypeOK
<1>4. TypeOK'
  BY <1>1, <1>2, <1>3 DEF SInv, TypeOK
<1>5. OwnedByObject'
  BY <1>1, <1>2, <1>3 DEF SInv, OwnedByObject
<1>6. InuseExact' /\ Listed' /\ NoEmptySlabsKept' /\ CloseReleases'
  BY <1>2 DEF SInv, InuseExact, Listed, NoEmptySlabsKept, CloseReleases, Slabs
<1>7. CpuSlab'
  BY <1>1, <1>2 DEF SInv, CpuSlab, Slabs
<1>8. OnTheWay'
  BY <1>1, <1>2 DEF SInv, OnTheWay
<1> QED
  BY <1>4, <1>5, <1>6, <1>7, <1>8 DEF SInv

LEMMA AllocSlowKeeps == SInv /\ AllocSlow => SInv'
<1> SUFFICES ASSUME SInv, AllocSlow PROVE SInv'
  OBVIOUS
<1>1. /\ pc = "idle" /\ cpu_free = {} /\ call' = "alloc"
      /\ UNCHANGED <<objects, freelist, inuse, frozen>>
      /\ UNCHANGED <<partial, nr_partial, cpu_page, cpu_free, out, tail>>
  BY DEF AllocSlow, listVars, cpuVars
<1>2. \/ cpu_page = NoPage /\ pc' = "new_slab" /\ locked' = locked
      \/ cpu_page # NoPage /\ pc' = "load_freelist" /\ locked' = locked \cup {cpu_page}
  BY DEF AllocSlow, slab_lock
<1>3. TypeOK'
  BY <1>1, <1>2 DEF SInv, TypeOK
<1>4. OwnedByObject'
  BY <1>1 DEF SInv, OwnedByObject
<1>5. InuseExact' /\ Listed' /\ NoEmptySlabsKept' /\ CloseReleases'
  BY <1>1, <1>2 DEF SInv, InuseExact, Listed, NoEmptySlabsKept, CloseReleases, Slabs
<1>6. CpuSlab'
  BY <1>1, <1>2 DEF SInv, CpuSlab, Slabs
<1>7. OnTheWay'
  BY <1>1, <1>2 DEF SInv, OnTheWay
<1> QED
  BY <1>3, <1>4, <1>5, <1>6, <1>7 DEF SInv

LEMMA LoadFreelistKeeps == SInv /\ LoadFreelist => SInv'
<1> SUFFICES ASSUME SInv, LoadFreelist PROVE SInv'
  OBVIOUS
<1>1. /\ pc = "load_freelist" /\ cpu_free = {} /\ call = "alloc"
      /\ cpu_page \in Pages /\ cpu_page \in Slabs /\ locked = {cpu_page} /\ frozen = {cpu_page}
      /\ UNCHANGED <<partial, nr_partial, cpu_page>>
  BY DEF LoadFreelist, SInv, OnTheWay, CpuSlab, TypeOK, listVars
<1>2. CASE /\ freelist[cpu_page] = {} /\ pc' = "deactive_slab" /\ tail' = TRUE
           /\ UNCHANGED <<objects, freelist, inuse, frozen, locked, cpu_free, out, call>>
  <2>1. TypeOK'
    BY <1>1, <1>2 DEF SInv, TypeOK
  <2>2. OwnedByObject'
    BY <1>2 DEF SInv, OwnedByObject
  <2>3. InuseExact' /\ Listed' /\ NoEmptySlabsKept' /\ CloseReleases'
    BY <1>1, <1>2 DEF SInv, InuseExact, Listed, NoEmptySlabsKept, CloseReleases, Slabs
  <2>4. CpuSlab'
    BY <1>1, <1>2 DEF SInv, CpuSlab, Slabs
  <2>5. OnTheWay'
    BY <1>1, <1>2 DEF SInv, OnTheWay
  <2> QED
    BY <2>1, <2>2, <2>3, <2>4, <2>5 DEF SInv
<1>3. CASE /\ \E o \in freelist[cpu_page] :
                cpu_free' = freelist[cpu_page] \ {o} /\ out' = out \cup {o}
           /\ inuse' = [inuse EXCEPT ![cpu_page] = objects[cpu_page]]
           /\ freelist' = [freelist EXCEPT ![cpu_page] = {}]
           /\ locked' = locked \ {cpu_page} /\ pc' = "idle" /\ call' = "none"
           /\ UNCHANGED <<objects, frozen, tail>>
  <2>1. PICK o \in freelist[cpu_page] :
          cpu_free' = freelist[cpu_page] \ {o} /\ out' = out \cup {o}
    BY <1>3
  <2>2. /\ freelist \in [Pages -> SUBSET Object] /\ inuse \in [Pages -> 0 .. MaxObjects]
        /\ o \in Object /\ objects[cpu_page] \in 0 .. MaxObjects
    BY <1>1, OneSlab DEF SInv, TypeOK
  <2>3. \A p \in Pages : p # cpu_page => freelist'[p] = freelist[p] /\ inuse'[p] = inuse[p]
    BY <1>3, <2>2
  <2>4. freelist'[cpu_page] = {} /\ inuse'[cpu_page] = objects[cpu_page]
    BY <1>1, <1>3, <2>2
  <2>5. TypeOK'
    BY <1>1, <1>3, <2>1, <2>2 DEF SInv, TypeOK
  <2>6. OwnedByObject'
    <3>1. \A p \in Pages : \A x \in freelist'[p] : x[1] = p
      BY <2>3, <2>4 DEF SInv, OwnedByObject
    <3>2. ASSUME NEW x \in Object
          PROVE  /\ x[2] <= objects'[x[1]]
                      <=> (x \in out' \/ x \in cpu_free' \/ x \in freelist'[x[1]])
                 /\ ~ (x \in out' /\ x \in cpu_free')
                 /\ ~ (x \in freelist'[x[1]] /\ (x \in out' \/ x \in cpu_free'))
      <4>1. /\ x[2] <= objects[x[1]] <=> (x \in out \/ x \in freelist[x[1]])
            /\ ~ (x \in freelist[x[1]] /\ x \in out)
            /\ (x \in freelist[cpu_page] => x[1] = cpu_page) /\ x[1] \in Pages
        BY <1>1, <2>2, ObjectParts DEF SInv, OwnedByObject
      <4>2. objects' = objects
        BY <1>3
      <4>3. CASE x[1] = cpu_page
        BY <1>1, <2>1, <2>4, <4>1, <4>2, <4>3
      <4>4. CASE x[1] # cpu_page
        BY <1>1, <2>1, <2>3, <4>1, <4>2, <4>4
      <4> QED
        BY <4>3, <4>4
    <3> QED
      BY <3>1, <3>2 DEF OwnedByObject
  <2>7. InuseExact'
    <3> SUFFICES ASSUME NEW p \in Pages
                 PROVE  inuse'[p] + Cardinality(freelist'[p]) = objects'[p]
      BY DEF InuseExact
    <3>1. CASE p = cpu_page
      BY <1>3, <2>2, <2>4, <3>1, FS_EmptySet
    <3>2. CASE p # cpu_page
      BY <1>3, <2>3, <3>2 DEF SInv, InuseExact
    <3> QED
      BY <3>1, <3>2
  <2>8. Listed'
    <3>1. Slabs' = Slabs /\ frozen' = frozen
      BY <1>3 DEF Slabs
    <3>2. \A p \in Slabs \ frozen : freelist'[p] = freelist[p]
      BY <1>1, <2>3 DEF Slabs
    <3> QED
      BY <1>1, <3>1, <3>2 DEF SInv, Listed
  <2>9. NoEmptySlabsKept' /\ CloseReleases'
    <3>1. \A p \in ToSet(partial) : p \in Pages /\ p # cpu_page /\ inuse[p] # 0
      BY <1>1 DEF SInv, Listed, Slabs, NoEmptySlabsKept
    <3> QED
      BY <1>1, <1>3, <2>3, <3>1 DEF NoEmptySlabsKept, CloseReleases
  <2>10. CpuSlab'
    BY <1>1, <1>3, <2>1 DEF SInv, CpuSlab, Slabs, OwnedByObject
  <2>11. OnTheWay'
    BY <1>3 DEF OnTheWay
  <2> QED
    BY <2>5, <2>6, <2>7, <2>8, <2>9, <2>10, <2>11 DEF SInv
<1> QED
  BY <1>2, <1>3 DEF LoadFreelist, slabVars, slab_unlock, CountAllInUse

-----------------------------------------------------------------------------
(* The steps of deactive_slab *)

LEMMA MergeFreelistKeeps == SInv /\ MergeFreelist => SInv'
<1> SUFFICES ASSUME SInv, MergeFreelist PROVE SInv'
  OBVIOUS
<1>1. PICK o \in cpu_free : /\ cpu_free' = cpu_free \ {o}
                            /\ freelist' = [freelist EXCEPT ![cpu_page] = @ \cup {o}]
  BY DEF MergeFreelist
<1>2. /\ pc = "deactive_slab" /\ pc' = pc /\ call' = call /\ tail' = FALSE
      /\ inuse' = [inuse EXCEPT ![cpu_page] = @ - 1]
      /\ UNCHANGED <<objects, frozen, locked, partial, nr_partial, cpu_page, out>>
  BY DEF MergeFreelist, listVars
<1>3. /\ cpu_page \in Pages /\ cpu_page \in Slabs /\ frozen = {cpu_page}
      /\ call \in {"shrink", "close"} /\ o \in Object /\ o[1] = cpu_page
  BY <1>2 DEF SInv, OnTheWay, CpuSlab, TypeOK
<1>4. /\ inuse[cpu_page] >= 1 /\ o \notin freelist[cpu_page]
      /\ Cardinality(freelist[cpu_page] \cup {o}) = Cardinality(freelist[cpu_page]) + 1
  BY <1>3, OneObject
<1>5. freelist \in [Pages -> SUBSET Object] /\ inuse \in [Pages -> 0 .. MaxObjects] /\ MaxObjects \in Nat
  BY CacheAssumption DEF SInv, TypeOK
<1>6. /\ freelist'[cpu_page] = freelist[cpu_page] \cup {o} /\ inuse'[cpu_page] = inuse[cpu_page] - 1
      /\ \A p \in Pages : p # cpu_page => freelist'[p] = freelist[p] /\ inuse'[p] = inuse[p]
  BY <1>1, <1>2, <1>3, <1>5
<1>7. TypeOK'
  <2>1. freelist' \in [Pages -> SUBSET Object]
    BY <1>1, <1>3, <1>5
  <2>2. inuse[cpu_page] - 1 \in 0 .. MaxObjects
    BY <1>3, <1>4, <1>5
  <2>3. inuse' \in [Pages -> 0 .. MaxObjects]
    BY <1>2, <1>5, <2>2
  <2> QED
    BY <1>1, <1>2, <2>1, <2>3 DEF SInv, TypeOK
<1>8. OwnedByObject'
  <2>1. \A p \in Pages : \A x \in freelist'[p] : x[1] = p
    BY <1>3, <1>6 DEF SInv, OwnedByObject
  <2>2. ASSUME NEW x \in Object
        PROVE  /\ x[2] <= objects'[x[1]]
                    <=> (x \in out' \/ x \in cpu_free' \/ x \in freelist'[x[1]])
               /\ ~ (x \in out' /\ x \in cpu_free')
               /\ ~ (x \in freelist'[x[1]] /\ (x \in out' \/ x \in cpu_free'))
    <3>1. /\ x[2] <= objects[x[1]] <=> (x \in out \/ x \in cpu_free \/ x \in freelist[x[1]])
          /\ ~ (x \in out /\ x \in cpu_free)
          /\ ~ (x \in freelist[x[1]] /\ (x \in out \/ x \in cpu_free))
          /\ x[1] \in Pages
      BY ObjectParts DEF SInv, OwnedByObject
    <3>2. objects' = objects /\ out' = out
      BY <1>2
    <3>3. CASE x = o
      BY <1>1, <1>3, <1>6, <3>1, <3>2, <3>3
    <3>4. CASE x # o
      <4>1. x \in freelist'[x[1]] <=> x \in freelist[x[1]]
        BY <1>6, <3>1, <3>4
      <4> QED
        BY <1>1, <3>1, <3>2, <3>4, <4>1
    <3> QED
      BY <3>3, <3>4
  <2> QED
    BY <2>1, <2>2 DEF OwnedByObject
<1>9. InuseExact'
  <2> SUFFICES ASSUME NEW p \in Pages
               PROVE  inuse'[p] + Cardinality(freelist'[p]) = objects'[p]
    BY DEF InuseExact
  <2>1. inuse[p] + Cardinality(freelist[p]) = objects[p] /\ Cardinality(freelist[p]) \in Nat
    BY OneSlab
  <2>2. inuse[p] \in 0 .. MaxObjects
    BY <1>5
  <2>3. CASE p = cpu_page
    BY <1>2, <1>4, <1>5, <1>6, <2>1, <2>2, <2>3
  <2>4. CASE p # cpu_page
    BY <1>2, <1>6, <2>1, <2>4
  <2> QED
    BY <2>3, <2>4
<1>10. Listed'
  <2>1. Slabs' = Slabs /\ frozen' = frozen
    BY <1>2 DEF Slabs
  <2>2. \A p \in Slabs \ frozen : freelist'[p] = freelist[p]
    BY <1>3, <1>6 DEF Slabs
  <2> QED
    BY <1>2, <2>1, <2>2 DEF SInv, Listed
<1>11. NoEmptySlabsKept' /\ CloseReleases'
  <2>1. \A p \in ToSet(partial) : p \in Pages /\ p # cpu_page /\ inuse[p] # 0
    BY <1>2, <1>3 DEF SInv, Listed, Slabs, NoEmptySlabsKept
  <2> QED
    BY <1>2, <1>6, <2>1 DEF NoEmptySlabsKept, CloseReleases
<1>12. CpuSlab'
  BY <1>1, <1>2 DEF SInv, CpuSlab, Slabs
<1>13. OnTheWay'
  BY <1>2, <1>3 DEF SInv, OnTheWay
<1> QED
  BY <1>7, <1>8, <1>9, <1>10, <1>11, <1>12, <1>13 DEF SInv

(* Slabs whose objects are all free are given back: what is left of a list
   without them is the list of the slabs that are left.                    *)
LEMMA DiscardKeeps ==
  ASSUME SInv, NEW P \in SUBSET Pages, discard_slab(P),
         \A p \in P : p \in Slabs,
         out' \subseteq out, cpu_free' = cpu_free,
         \A o \in Object : o[1] \in P => o \notin out' /\ o \notin cpu_free,
         \A o \in Object : o[1] \notin P /\ o \in out => o \in out'
  PROVE  /\ objects' \in [Pages -> {0, MinObjects, MaxObjects}]
         /\ freelist' \in [Pages -> SUBSET Object]
         /\ inuse' \in [Pages -> 0 .. MaxObjects]
         /\ OwnedByObject' /\ InuseExact'
         /\ Slabs' = Slabs \ P
         /\ \A p \in Pages \ P :
              objects'[p] = objects[p] /\ freelist'[p] = freelist[p] /\ inuse'[p] = inuse[p]
<1>1. /\ \A p \in Pages \ P :
           objects'[p] = objects[p] /\ freelist'[p] = freelist[p] /\ inuse'[p] = inuse[p]
      /\ \A p \in P : objects'[p] = 0 /\ freelist'[p] = {} /\ inuse'[p] = 0
  BY DEF discard_slab
<1>2. /\ objects' \in [Pages -> {0, MinObjects, MaxObjects}]
      /\ freelist' \in [Pages -> SUBSET Object]
      /\ inuse' \in [Pages -> 0 .. MaxObjects]
  BY CacheAssumption DEF discard_slab, SInv, TypeOK
<1>3. Slabs' = Slabs \ P
  BY <1>1 DEF Slabs
<1>4. OwnedByObject'
  <2>1. \A p \in Pages : \A x \in freelist'[p] : x[1] = p
    BY <1>1 DEF SInv, OwnedByObject
  <2>2. ASSUME NEW x \in Object
        PROVE  /\ x[2] <= objects'[x[1]]
                    <=> (x \in out' \/ x \in cpu_free' \/ x \in freelist'[x[1]])
               /\ ~ (x \in out' /\ x \in cpu_free')
               /\ ~ (x \in freelist'[x[1]] /\ (x \in out' \/ x \in cpu_free'))
    <3>1. /\ x[2] <= objects[x[1]] <=> (x \in out \/ x \in cpu_free \/ x \in freelist[x[1]])
          /\ ~ (x \in out /\ x \in cpu_free)
          /\ ~ (x \in freelist[x[1]] /\ (x \in out \/ x \in cpu_free))
      BY DEF SInv, OwnedByObject
    <3>2. x[1] \in Pages /\ x[2] \in 1 .. MaxObjects
      BY ObjectParts
    <3>3. CASE x[1] \in P
      <4>1. ~ (x[2] <= objects'[x[1]]) /\ x \notin freelist'[x[1]]
        BY <1>1, <3>2, <3>3, CacheAssumption
      <4> QED
        BY <3>3, <4>1
    <3>4. CASE x[1] \notin P
      <4>1. objects'[x[1]] = objects[x[1]] /\ freelist'[x[1]] = freelist[x[1]]
        BY <1>1, <3>2, <3>4
      <4>2. (x \in out <=> x \in out') /\ cpu_free' = cpu_free
        BY <3>4
      <4> QED
        BY <3>1, <4>1, <4>2
    <3> QED
      BY <3>3, <3>4
  <2> QED
    BY <2>1, <2>2 DEF OwnedByObject
<1>5. InuseExact'
  <2> SUFFICES ASSUME NEW p \in Pages
               PROVE  inuse'[p] + Cardinality(freelist'[p]) = objects'[p]
    BY DEF InuseExact
  <2>1. CASE p \in P
    <3>1. inuse'[p] = 0 /\ freelist'[p] = {} /\ objects'[p] = 0
      BY <1>1, <2>1
    <3>2. Cardinality({}) = 0
      BY FS_EmptySet
    <3> QED
      BY <3>1, <3>2
  <2>2. CASE p \notin P
    BY <1>1, <2>2 DEF SInv, InuseExact
  <2> QED
    BY <2>1, <2>2
<1> QED
  BY <1>1, <1>2, <1>3, <1>4, <1>5

(* A slab goes on the list, at either end. *)
LEMMA AddPartialLists ==
  ASSUME NEW atTail \in BOOLEAN, NEW p \in Pages, add_partial(p, atTail),
         partial \in Seq(Pages), IsInjective(partial), p \notin ToSet(partial),
         nr_partial = Len(partial)
  PROVE  /\ partial' \in Seq(Pages) /\ IsInjective(partial')
         /\ ToSet(partial') = ToSet(partial) \cup {p}
         /\ nr_partial' = Len(partial') /\ nr_partial' \in Nat
<1>1. nr_partial' = Len(partial) + 1 /\ Len(partial) \in Nat
  BY LenProperties DEF add_partial
<1>2. CASE atTail
  <2>1. partial' = Append(partial, p)
    BY <1>2 DEF add_partial
  <2> QED
    BY <1>1, <2>1, Appended
<1>3. CASE ~ atTail
  <2>1. partial' = <<p>> \o partial
    BY <1>3 DEF add_partial
  <2> QED
    BY <1>1, <2>1, Prepended
<1> QED
  BY <1>2, <1>3

LEMMA UnfreezeSlabKeeps == SInv /\ UnfreezeSlab => SInv'
<1> SUFFICES ASSUME SInv, UnfreezeSlab PROVE SInv'
  OBVIOUS
<1> DEFINE p == cpu_page
<1>1. /\ pc = "deactive_slab" /\ cpu_free = {} /\ cpu_page' = NoPage
      /\ frozen' = frozen \ {p} /\ locked' = locked \ {p}
      /\ pc' = IF call = "alloc" THEN "new_slab" ELSE call
      /\ UNCHANGED <<cpu_free, out, call, tail>>
  BY DEF UnfreezeSlab, slab_unlock
<1>2. /\ p \in Pages /\ p \in Slabs /\ frozen = {p} /\ locked = {p}
      /\ call \in {"alloc", "shrink", "close"}
      /\ call = "alloc" => freelist[p] = {}
      /\ p # NoPage
  BY <1>1 DEF SInv, OnTheWay, CpuSlab, TypeOK
<1>3. frozen' = {} /\ locked' = {} /\ pc' \in {"new_slab", "shrink", "close"}
      /\ (pc' \notin {"shrink", "close"} => call = "alloc")
  BY <1>1, <1>2
<1>4. CpuSlab'
  BY <1>1, <1>3 DEF CpuSlab
<1>5. OnTheWay'
  BY <1>1, <1>2, <1>3 DEF OnTheWay
<1>6. CloseReleases'
  BY <1>3 DEF CloseReleases
<1>7. /\ IsInjective(partial) /\ nr_partial = Len(partial) /\ partial \in Seq(Pages)
      /\ ToSet(partial) = {q \in Slabs \ frozen : freelist[q] # {}}
      /\ p \notin ToSet(partial)
      /\ inuse[p] = 0 => freelist[p] # {}
      /\ tail \in BOOLEAN
  <2>1. objects[p] # 0 /\ objects[p] \in Nat
    BY <1>2, OneSlab DEF Slabs
  <2>2. inuse[p] = 0 => freelist[p] # {}
    BY <1>2, <2>1, OneSlab
  <2> QED
    BY <1>2, <2>2 DEF SInv, Listed, TypeOK
<1>8. CASE /\ UNCHANGED <<objects, freelist, inuse>>
           /\ freelist[p] # {}
           /\ \E atTail \in BOOLEAN : add_partial(p, atTail)
  <2>1. /\ partial' \in Seq(Pages) /\ IsInjective(partial')
        /\ ToSet(partial') = ToSet(partial) \cup {p}
        /\ nr_partial' = Len(partial') /\ nr_partial' \in Nat
    BY <1>2, <1>7, <1>8, AddPartialLists
  <2>2. Slabs' = Slabs
    BY <1>8 DEF Slabs
  <2>3. ToSet(partial') = {q \in Slabs' \ frozen' : freelist'[q] # {}}
    BY <1>2, <1>3, <1>7, <1>8, <2>1, <2>2
  <2>4. Listed'
    BY <2>1, <2>3 DEF Listed
  <2>5. NoEmptySlabsKept'
    BY <1>2, <1>3, <1>8 DEF NoEmptySlabsKept
  <2>6. TypeOK'
    BY <1>1, <1>3, <1>8, <2>1 DEF SInv, TypeOK
  <2>7. OwnedByObject' /\ InuseExact'
    BY <1>1, <1>8 DEF SInv, OwnedByObject, InuseExact
  <2> QED
    BY <1>4, <1>5, <1>6, <2>4, <2>5, <2>6, <2>7 DEF SInv
<1>9. CASE inuse[p] = 0 /\ discard_slab({p}) /\ UNCHANGED listVars
  <2>1. freelist[p] = ObjectsOf(p) /\ \A o \in Object : o \in ObjectsOf(p) <=> o[1] = p /\ o[2] <= objects[p]
    BY <1>2, <1>9, OneSlab
  <2>2. ASSUME NEW o \in Object, o[1] = p PROVE o \notin out /\ o \notin cpu_free
    <3>1. inuse[p] >= 1 \/ (o \notin out /\ o \notin cpu_free)
      BY <2>2, OneObject
    <3> QED
      BY <1>9, <3>1
  <2>3. /\ {p} \in SUBSET Pages /\ \A q \in {p} : q \in Slabs
        /\ out' \subseteq out /\ cpu_free' = cpu_free
        /\ \A o \in Object : o[1] \in {p} => o \notin out' /\ o \notin cpu_free
        /\ \A o \in Object : o[1] \notin {p} /\ o \in out => o \in out'
    BY <1>1, <1>2, <2>2
  <2>4. /\ objects' \in [Pages -> {0, MinObjects, MaxObjects}]
        /\ freelist' \in [Pages -> SUBSET Object]
        /\ inuse' \in [Pages -> 0 .. MaxObjects]
        /\ OwnedByObject' /\ InuseExact'
        /\ Slabs' = Slabs \ {p}
        /\ \A q \in Pages \ {p} : freelist'[q] = freelist[q] /\ inuse'[q] = inuse[q]
    BY <1>9, <2>3, DiscardKeeps
  <2>5. partial' = partial /\ nr_partial' = nr_partial
    BY <1>9 DEF listVars
  <2>6. TypeOK'
    BY <1>1, <1>3, <2>4, <2>5 DEF SInv, TypeOK
  <2>7. ToSet(partial') = {q \in Slabs' \ frozen' : freelist'[q] # {}}
    BY <1>2, <1>3, <1>7, <2>4, <2>5 DEF Slabs
  <2>8. Listed'
    BY <1>7, <2>5, <2>7 DEF Listed
  <2>9. NoEmptySlabsKept'
    BY <1>2, <1>3, <1>7, <1>9 DEF NoEmptySlabsKept
  <2> QED
    BY <1>4, <1>5, <1>6, <2>4, <2>6, <2>8, <2>9 DEF SInv
<1>10. CASE /\ inuse[p] # 0 /\ freelist[p] = {}
            /\ UNCHANGED <<objects, freelist, inuse, partial, nr_partial>>
  <2>1. Slabs' = Slabs
    BY <1>10 DEF Slabs
  <2>2. ToSet(partial') = {q \in Slabs' \ frozen' : freelist'[q] # {}}
    BY <1>2, <1>3, <1>7, <1>10, <2>1
  <2>3. Listed'
    BY <1>7, <1>10, <2>2 DEF Listed
  <2>4. NoEmptySlabsKept'
    BY <1>1, <1>3, <1>10 DEF SInv, NoEmptySlabsKept
  <2>5. TypeOK'
    BY <1>1, <1>3, <1>10 DEF SInv, TypeOK
  <2>6. OwnedByObject' /\ InuseExact'
    BY <1>1, <1>10 DEF SInv, OwnedByObject, InuseExact
  <2> QED
    BY <1>4, <1>5, <1>6, <2>3, <2>4, <2>5, <2>6 DEF SInv
<1>11. \/ IsPartial(p) /\ add_partial(p, tail) /\ UNCHANGED <<objects, freelist, inuse>>
       \/ KeepEmpty(p) /\ add_partial(p, TRUE) /\ UNCHANGED <<objects, freelist, inuse>>
       \/ inuse[p] = 0 /\ discard_slab({p}) /\ UNCHANGED listVars
       \/ inuse[p] # 0 /\ ~ IsPartial(p) /\ UNCHANGED <<objects, freelist, inuse, listVars>>
  BY DEF UnfreezeSlab
<1> HIDE DEF p
<1> QED
  BY <1>7, <1>8, <1>9, <1>10, <1>11 DEF IsPartial, KeepEmpty, listVars

-----------------------------------------------------------------------------
(* The search for a new slab *)

(* A slab comes off the list. *)
LEMMA RemovePartialLists ==
  ASSUME NEW p \in ToSet(partial), remove_partial(p),
         partial \in Seq(Pages), IsInjective(partial), nr_partial = Len(partial)
  PROVE  /\ partial' \in Seq(Pages) /\ IsInjective(partial')
         /\ ToSet(partial') = ToSet(partial) \ {p}
         /\ nr_partial' = Len(partial') /\ nr_partial' \in Nat
<1>1. /\ partial' \in Seq(Pages) /\ Len(partial') = Len(partial) - 1
      /\ ToSet(partial') = ToSet(partial) \ {p} /\ IsInjective(partial')
  BY Removed DEF remove_partial
<1>2. nr_partial' = Len(partial')
  BY <1>1 DEF remove_partial
<1>3. Len(partial') \in Nat
  BY <1>1, LenProperties
<1> QED
  BY <1>1, <1>2, <1>3

LEMMA NewSlabFromPartialKeeps == SInv /\ NewSlabFromPartial => SInv'
<1> SUFFICES ASSUME SInv, NewSlabFromPartial PROVE SInv'
  OBVIOUS
<1>1. PICK p \in Pages : /\ PartialFound(p) /\ slab_lock(p) /\ remove_partial(p)
                         /\ frozen' = frozen \cup {p} /\ cpu_page' = p
  BY DEF NewSlabFromPartial
<1>2. /\ pc = "new_slab" /\ pc' = "load_freelist"
      /\ UNCHANGED <<objects, freelist, inuse, cpu_free, out, call, tail>>
  BY DEF NewSlabFromPartial
<1>3. /\ cpu_page = NoPage /\ cpu_free = {} /\ call = "alloc" /\ frozen = {} /\ locked = {}
  BY <1>2 DEF SInv, OnTheWay, CpuSlab
<1>4. p \in ToSet(partial) /\ partial \in Seq(Pages) /\ IsInjective(partial) /\ nr_partial = Len(partial)
  <2>1. partial \in Seq(Pages)
    BY DEF SInv, TypeOK
  <2> QED
    BY <1>1, <2>1, ToSetOfSeq DEF PartialFound, SInv, Listed
<1>5. /\ partial' \in Seq(Pages) /\ IsInjective(partial')
      /\ ToSet(partial') = ToSet(partial) \ {p}
      /\ nr_partial' = Len(partial') /\ nr_partial' \in Nat
  BY <1>1, <1>4, RemovePartialLists
<1>6. Slabs' = Slabs /\ frozen' = {p} /\ locked' = {p}
  BY <1>1, <1>2, <1>3 DEF Slabs, slab_lock
<1>7. p \in Slabs /\ p # NoPage
  BY <1>4, CacheAssumption DEF SInv, Listed
<1>8. TypeOK'
  BY <1>1, <1>2, <1>5, <1>6 DEF SInv, TypeOK
<1>9. OwnedByObject' /\ InuseExact'
  BY <1>2 DEF SInv, OwnedByObject, InuseExact
<1>10. Listed'
  <2>1. ToSet(partial) = {q \in Slabs : freelist[q] # {}}
    BY <1>3 DEF SInv, Listed
  <2>2. ToSet(partial') = {q \in Slabs' \ frozen' : freelist'[q] # {}}
    BY <1>2, <1>5, <1>6, <2>1
  <2> QED
    BY <1>5, <2>2 DEF Listed
<1>11. CpuSlab' /\ OnTheWay' /\ CloseReleases'
  BY <1>1, <1>2, <1>3, <1>6, <1>7 DEF CpuSlab, OnTheWay, CloseReleases
<1>12. NoEmptySlabsKept'
  BY <1>2, <1>5 DEF SInv, NoEmptySlabsKept
<1> QED
  BY <1>8, <1>9, <1>10, <1>11, <1>12 DEF SInv

LEMMA NewSlabFromPagesKeeps == SInv /\ NewSlabFromPages => SInv'
<1> SUFFICES ASSUME SInv, NewSlabFromPages PROVE SInv'
  OBVIOUS
<1>1. PICK p \in Pages \ Slabs, n \in {MaxObjects, MinObjects} :
        /\ objects'  = [objects EXCEPT ![p] = n]
        /\ freelist' = [freelist EXCEPT ![p] = ObjectsAt(p, n)]
        /\ inuse'    = [inuse EXCEPT ![p] = 0]
        /\ slab_lock(p) /\ frozen' = frozen \cup {p} /\ cpu_page' = p
  BY DEF NewSlabFromPages
<1>2. /\ pc = "new_slab" /\ pc' = "load_freelist"
      /\ UNCHANGED <<partial, nr_partial, cpu_free, out, call, tail>>
  BY DEF NewSlabFromPages, listVars
<1>3. cpu_page = NoPage /\ cpu_free = {} /\ call = "alloc" /\ frozen = {} /\ locked = {}
  BY <1>2 DEF SInv, OnTheWay, CpuSlab
<1>4. p # NoPage /\ n \in 1 .. MaxObjects /\ MaxObjects \in Nat /\ frozen' = {p} /\ locked' = {p}
  BY <1>1, <1>3, CacheAssumption DEF slab_lock
<1>5. /\ objects \in [Pages -> {0, MinObjects, MaxObjects}]
      /\ freelist \in [Pages -> SUBSET Object] /\ inuse \in [Pages -> 0 .. MaxObjects]
  BY DEF SInv, TypeOK
<1>6. /\ objects'[p] = n /\ freelist'[p] = ObjectsAt(p, n) /\ inuse'[p] = 0
      /\ \A q \in Pages : q # p =>
           objects'[q] = objects[q] /\ freelist'[q] = freelist[q] /\ inuse'[q] = inuse[q]
  BY <1>1, <1>5
<1>7. /\ ObjectsAt(p, n) \subseteq Object
      /\ \A o \in Object : o \in ObjectsAt(p, n) <=> o[1] = p /\ o[2] <= n
      /\ Cardinality(ObjectsAt(p, n)) = n
  <2>1. n \in 0 .. MaxObjects /\ n \in Nat
    BY <1>4
  <2> QED
    BY <2>1, ObjectsAtParts, ObjectsCounted
<1>8. objects[p] = 0 /\ freelist[p] = {}
  <2>1. objects[p] = 0
    BY DEF Slabs
  <2> QED
    BY <2>1, OneSlab, CacheAssumption
<1>9. Slabs' = Slabs \cup {p}
  BY <1>4, <1>6, <1>8 DEF Slabs
<1>10. TypeOK'
  <2>1. objects' \in [Pages -> {0, MinObjects, MaxObjects}]
    BY <1>1, <1>5
  <2>2. freelist' \in [Pages -> SUBSET Object]
    BY <1>1, <1>5, <1>7
  <2>3. inuse' \in [Pages -> 0 .. MaxObjects]
    BY <1>1, <1>4, <1>5
  <2> QED
    BY <1>1, <1>2, <1>4, <2>1, <2>2, <2>3 DEF SInv, TypeOK
<1>11. OwnedByObject'
  <2>1. \A q \in Pages : \A x \in freelist'[q] : x[1] = q
    BY <1>6, <1>7 DEF SInv, OwnedByObject
  <2>2. ASSUME NEW x \in Object
        PROVE  /\ x[2] <= objects'[x[1]]
                    <=> (x \in out' \/ x \in cpu_free' \/ x \in freelist'[x[1]])
               /\ ~ (x \in out' /\ x \in cpu_free')
               /\ ~ (x \in freelist'[x[1]] /\ (x \in out' \/ x \in cpu_free'))
    <3>1. /\ x[2] <= objects[x[1]] <=> (x \in out \/ x \in cpu_free \/ x \in freelist[x[1]])
          /\ ~ (x \in out /\ x \in cpu_free)
          /\ ~ (x \in freelist[x[1]] /\ (x \in out \/ x \in cpu_free))
      BY DEF SInv, OwnedByObject
    <3>2. x[1] \in Pages /\ x[2] \in 1 .. MaxObjects
      BY ObjectParts
    <3>3. CASE x[1] = p
      <4>1. x \notin out /\ x \notin cpu_free
        BY <1>4, <1>8, <3>1, <3>2, <3>3
      <4> QED
        BY <1>2, <1>6, <1>7, <3>3, <4>1
    <3>4. CASE x[1] # p
      BY <1>2, <1>6, <3>1, <3>2, <3>4
    <3> QED
      BY <3>3, <3>4
  <2> QED
    BY <2>1, <2>2 DEF OwnedByObject
<1>12. InuseExact'
  <2> SUFFICES ASSUME NEW q \in Pages
               PROVE  inuse'[q] + Cardinality(freelist'[q]) = objects'[q]
    BY DEF InuseExact
  <2>1. CASE q = p
    BY <1>4, <1>6, <1>7, <2>1
  <2>2. CASE q # p
    BY <1>6, <2>2 DEF SInv, InuseExact
  <2> QED
    BY <2>1, <2>2
<1>13. Listed'
  <2>1. ToSet(partial) = {q \in Slabs : freelist[q] # {}}
    BY <1>3 DEF SInv, Listed
  <2>2. Slabs' \ frozen' = Slabs /\ \A q \in Slabs : freelist'[q] = freelist[q]
    BY <1>4, <1>6, <1>9 DEF Slabs
  <2> QED
    BY <1>2, <2>1, <2>2 DEF SInv, Listed
<1>14. CpuSlab' /\ OnTheWay' /\ CloseReleases'
  BY <1>1, <1>2, <1>3, <1>4, <1>9 DEF CpuSlab, OnTheWay, CloseReleases
<1>15. NoEmptySlabsKept'
  <2>1. \A q \in ToSet(partial) : q \in Pages /\ q # p /\ inuse[q] # 0
    BY <1>2 DEF SInv, Listed, Slabs, NoEmptySlabsKept
  <2> QED
    BY <1>2, <1>6, <2>1 DEF NoEmptySlabsKept
<1> QED
  BY <1>10, <1>11, <1>12, <1>13, <1>14, <1>15 DEF SInv

LEMMA NewSlabFailsKeeps == SInv /\ NewSlabFails => SInv'
<1> SUFFICES ASSUME SInv, NewSlabFails PROVE SInv'
  OBVIOUS
<1>1. /\ pc = "new_slab" /\ pc' = "idle" /\ call' = "none"
      /\ UNCHANGED <<objects, freelist, inuse, frozen, locked>>
      /\ UNCHANGED <<partial, nr_partial, cpu_page, cpu_free, out, tail>>
  BY DEF NewSlabFails, slabVars, listVars, cpuVars
<1>2. TypeOK' /\ OwnedByObject' /\ InuseExact' /\ Listed'
  BY <1>1 DEF SInv, TypeOK, OwnedByObject, InuseExact, Listed, Slabs
<1>3. CpuSlab' /\ OnTheWay' /\ NoEmptySlabsKept' /\ CloseReleases'
  BY <1>1 DEF SInv, CpuSlab, OnTheWay, NoEmptySlabsKept, CloseReleases, Slabs
<1> QED
  BY <1>2, <1>3 DEF SInv

-----------------------------------------------------------------------------
(* Freeing *)

LEMMA FreeFastKeeps ==
  ASSUME NEW o \in Object PROVE SInv /\ FreeFast(o) => SInv'
<1> SUFFICES ASSUME SInv, FreeFast(o) PROVE SInv'
  OBVIOUS
<1>1. /\ pc = "idle" /\ o \in out /\ o[1] = cpu_page
      /\ cpu_free' = cpu_free \cup {o} /\ out' = out \ {o}
      /\ UNCHANGED <<objects, freelist, inuse, frozen, locked>>
      /\ UNCHANGED <<partial, nr_partial, cpu_page, pc, call, tail>>
  BY DEF FreeFast, slabVars, listVars
<1>2. TypeOK'
  BY <1>1 DEF SInv, TypeOK
<1>3. OwnedByObject'
  BY <1>1 DEF SInv, OwnedByObject
<1>4. InuseExact' /\ Listed' /\ NoEmptySlabsKept' /\ CloseReleases'
  BY <1>1 DEF SInv, InuseExact, Listed, NoEmptySlabsKept, CloseReleases, Slabs
<1>5. CpuSlab' /\ OnTheWay'
  BY <1>1 DEF SInv, CpuSlab, OnTheWay, Slabs
<1> QED
  BY <1>2, <1>3, <1>4, <1>5 DEF SInv

LEMMA FreeSlowKeeps ==
  ASSUME NEW o \in Object PROVE SInv /\ FreeSlow(o) => SInv'
<1> SUFFICES ASSUME SInv, FreeSlow(o) PROVE SInv'
  OBVIOUS
<1> DEFINE p == o[1]
<1>1. /\ pc = "idle" /\ o \in out /\ p # cpu_page /\ out' = out \ {o}
      /\ UNCHANGED <<frozen, locked, cpu_page, cpu_free, pc, call, tail>>
  BY DEF FreeSlow, cpuVars
<1>2. /\ p \in Pages /\ p \in Slabs /\ p \notin frozen
      /\ \A q \in ToSet(partial) : inuse[q] # 0
  BY <1>1, OneObject, ObjectParts DEF SInv, CpuSlab, NoEmptySlabsKept
<1>3. /\ inuse[p] >= 1 /\ o \notin freelist[p]
      /\ Cardinality(freelist[p] \cup {o}) = Cardinality(freelist[p]) + 1
      /\ inuse[p] = 1 => freelist[p] \cup {o} = ObjectsOf(p)
  BY <1>1, OneObject
<1>4. /\ IsInjective(partial) /\ nr_partial = Len(partial) /\ partial \in Seq(Pages)
      /\ nr_partial \in Nat
      /\ ToSet(partial) = {q \in Slabs \ frozen : freelist[q] # {}}
  BY DEF SInv, Listed, TypeOK
<1>5. p \in ToSet(partial) <=> freelist[p] # {}
  BY <1>2, <1>4
<1>6. /\ freelist \in [Pages -> SUBSET Object] /\ inuse \in [Pages -> 0 .. MaxObjects]
      /\ MaxObjects \in Nat
  BY CacheAssumption DEF SInv, TypeOK
<1>7. OnTheWay' /\ CloseReleases'
  BY <1>1 DEF SInv, OnTheWay, CloseReleases
<1>8. CASE /\ inuse[p] = 1
           /\ IF WasListed(p) THEN remove_partial(p) ELSE UNCHANGED listVars
           /\ discard_slab({p})
  <2>1. \A x \in Object : x[1] = p => x \notin out' /\ x \notin cpu_free
    <3> SUFFICES ASSUME NEW x \in Object, x[1] = p, x \in out' \/ x \in cpu_free PROVE FALSE
      OBVIOUS
    <3>1. x \in out \/ x \in cpu_free
      BY <1>1
    <3>2. x \in ObjectsOf(p) /\ x \notin freelist[p]
      BY <1>2, <3>1, OneObject, OneSlab
    <3>3. x = o
      BY <1>3, <1>8, <3>2
    <3>4. o \notin cpu_free
      BY <1>1 DEF SInv, CpuSlab
    <3> QED
      BY <1>1, <3>3, <3>4
  <2>2. /\ {p} \in SUBSET Pages /\ \A q \in {p} : q \in Slabs
        /\ out' \subseteq out /\ cpu_free' = cpu_free
        /\ \A x \in Object : x[1] \in {p} => x \notin out' /\ x \notin cpu_free
        /\ \A x \in Object : x[1] \notin {p} /\ x \in out => x \in out'
    BY <1>1, <1>2, <2>1
  <2>3. /\ objects' \in [Pages -> {0, MinObjects, MaxObjects}]
        /\ freelist' \in [Pages -> SUBSET Object]
        /\ inuse' \in [Pages -> 0 .. MaxObjects]
        /\ OwnedByObject' /\ InuseExact'
        /\ Slabs' = Slabs \ {p}
        /\ \A q \in Pages \ {p} : freelist'[q] = freelist[q] /\ inuse'[q] = inuse[q]
    BY <1>8, <2>2, DiscardKeeps
  <2>4. /\ partial' \in Seq(Pages) /\ IsInjective(partial')
        /\ ToSet(partial') = ToSet(partial) \ {p}
        /\ nr_partial' = Len(partial') /\ nr_partial' \in Nat
    <3>1. CASE WasListed(p)
      BY <1>4, <1>5, <1>8, <3>1, RemovePartialLists DEF WasListed
    <3>2. CASE ~ WasListed(p)
      <4>1. partial' = partial /\ nr_partial' = nr_partial
        BY <1>8, <3>2 DEF listVars
      <4> QED
        BY <1>4, <1>5, <3>2, <4>1 DEF WasListed
    <3> QED
      BY <3>1, <3>2
  <2>5. TypeOK'
    BY <1>1, <2>3, <2>4 DEF SInv, TypeOK
  <2>6. Listed'
    <3>1. ToSet(partial') = {q \in Slabs' \ frozen' : freelist'[q] # {}}
      BY <1>1, <1>4, <2>3, <2>4 DEF Slabs
    <3> QED
      BY <2>4, <3>1 DEF Listed
  <2>7. NoEmptySlabsKept'
    <3>1. \A q \in ToSet(partial') : q \in Pages \ {p} /\ inuse[q] # 0
      BY <1>2, <1>4, <2>4 DEF Slabs
    <3> QED
      BY <2>3, <3>1 DEF NoEmptySlabsKept
  <2>8. CpuSlab'
    BY <1>1, <2>3 DEF SInv, CpuSlab
  <2> QED
    BY <1>7, <2>3, <2>5, <2>6, <2>7, <2>8 DEF SInv
<1>9. CASE /\ inuse[p] # 1
           /\ freelist' = [freelist EXCEPT ![p] = @ \cup {o}]
           /\ inuse' = [inuse EXCEPT ![p] = @ - 1]
           /\ IF ~ WasListed(p) THEN add_partial(p, TRUE) ELSE UNCHANGED listVars
           /\ UNCHANGED objects
  <2>1. /\ freelist'[p] = freelist[p] \cup {o} /\ inuse'[p] = inuse[p] - 1
        /\ \A q \in Pages : q # p => freelist'[q] = freelist[q] /\ inuse'[q] = inuse[q]
    BY <1>2, <1>6, <1>9
  <2>2. Slabs' = Slabs
    BY <1>9 DEF Slabs
  <2>3. /\ partial' \in Seq(Pages) /\ IsInjective(partial')
        /\ ToSet(partial') = ToSet(partial) \cup {p}
        /\ nr_partial' = Len(partial') /\ nr_partial' \in Nat
    <3>1. CASE ~ WasListed(p)
      <4>1. add_partial(p, TRUE) /\ p \notin ToSet(partial)
        BY <1>5, <1>9, <3>1 DEF WasListed
      <4> QED
        BY <1>2, <1>4, <4>1, AddPartialLists
    <3>2. CASE WasListed(p)
      <4>1. partial' = partial /\ nr_partial' = nr_partial
        BY <1>9, <3>2 DEF listVars
      <4> QED
        BY <1>4, <1>5, <3>2, <4>1 DEF WasListed
    <3> QED
      BY <3>1, <3>2
  <2>4. TypeOK'
    <3>1. freelist' \in [Pages -> SUBSET Object]
      BY <1>6, <1>9
    <3>2. inuse[p] - 1 \in 0 .. MaxObjects
      BY <1>2, <1>3, <1>6
    <3>3. inuse' \in [Pages -> 0 .. MaxObjects]
      BY <1>6, <1>9, <3>2
    <3> QED
      BY <1>1, <1>9, <2>3, <3>1, <3>3 DEF SInv, TypeOK
  <2>5. OwnedByObject'
    <3>1. \A q \in Pages : \A x \in freelist'[q] : x[1] = q
      BY <1>2, <2>1 DEF SInv, OwnedByObject
    <3>2. ASSUME NEW x \in Object
          PROVE  /\ x[2] <= objects'[x[1]]
                      <=> (x \in out' \/ x \in cpu_free' \/ x \in freelist'[x[1]])
                 /\ ~ (x \in out' /\ x \in cpu_free')
                 /\ ~ (x \in freelist'[x[1]] /\ (x \in out' \/ x \in cpu_free'))
      <4>1. /\ x[2] <= objects[x[1]] <=> (x \in out \/ x \in cpu_free \/ x \in freelist[x[1]])
            /\ ~ (x \in out /\ x \in cpu_free)
            /\ ~ (x \in freelist[x[1]] /\ (x \in out \/ x \in cpu_free))
            /\ x[1] \in Pages
        BY ObjectParts DEF SInv, OwnedByObject
      <4>2. objects' = objects /\ out' = out \ {o} /\ cpu_free' = cpu_free
        BY <1>1, <1>9
      <4>3. CASE x = o
        BY <1>1, <2>1, <4>1, <4>2, <4>3
      <4>4. CASE x # o
        <5>1. x \in freelist'[x[1]] <=> x \in freelist[x[1]]
          BY <2>1, <4>1, <4>4
        <5> QED
          BY <4>1, <4>2, <4>4, <5>1
      <4> QED
        BY <4>3, <4>4
    <3> QED
      BY <3>1, <3>2 DEF OwnedByObject
  <2>6. InuseExact'
    <3> SUFFICES ASSUME NEW q \in Pages
                 PROVE  inuse'[q] + Cardinality(freelist'[q]) = objects'[q]
      BY DEF InuseExact
    <3>1. inuse[q] + Cardinality(freelist[q]) = objects[q] /\ Cardinality(freelist[q]) \in Nat
      BY OneSlab
    <3>2. inuse[q] \in 0 .. MaxObjects
      BY <1>6
    <3>3. CASE q = p
      <4>1. Cardinality(freelist'[q]) = Cardinality(freelist[q]) + 1
        BY <1>3, <2>1, <3>3
      <4>2. inuse'[q] = inuse[q] - 1 /\ objects'[q] = objects[q]
        BY <1>9, <2>1, <3>3
      <4>3. inuse[q] \in Int
        BY <1>6, <3>2
      <4> QED
        BY <3>1, <4>1, <4>2, <4>3
    <3>4. CASE q # p
      BY <1>9, <2>1, <3>1, <3>4
    <3> QED
      BY <3>3, <3>4
  <2>7. Listed'
    <3>1. ToSet(partial') = {q \in Slabs' \ frozen' : freelist'[q] # {}}
      BY <1>1, <1>2, <1>4, <2>1, <2>2, <2>3 DEF Slabs
    <3> QED
      BY <2>3, <3>1 DEF Listed
  <2>8. NoEmptySlabsKept'
    <3>1. inuse'[p] # 0
      BY <1>2, <1>3, <1>6, <1>9, <2>1
    <3>2. \A q \in ToSet(partial) : q \in Pages /\ inuse[q] # 0
      BY <1>2, <1>4 DEF Slabs
    <3>3. \A q \in ToSet(partial') : inuse'[q] # 0
      BY <2>1, <2>3, <3>1, <3>2
    <3> QED
      BY <3>3 DEF NoEmptySlabsKept
  <2>9. CpuSlab'
    BY <1>1, <2>2 DEF SInv, CpuSlab
  <2> QED
    BY <1>7, <2>4, <2>5, <2>6, <2>7, <2>8, <2>9 DEF SInv
<1> QED
  <2>1. \/ /\ inuse[p] = 1
           /\ IF WasListed(p) THEN remove_partial(p) ELSE UNCHANGED listVars
           /\ discard_slab({p})
        \/ /\ ~ LastObject(p)
           /\ freelist' = [freelist EXCEPT ![p] = @ \cup {o}]
           /\ inuse' = [inuse EXCEPT ![p] = @ - 1]
           /\ IF p \notin frozen /\ ~WasListed(p) THEN add_partial(p, TRUE) ELSE UNCHANGED listVars
           /\ UNCHANGED objects
    BY DEF FreeSlow
  <2>2. LastObject(p) <=> inuse[p] = 1
    BY <1>2 DEF LastObject
  <2> HIDE DEF p
  <2> QED
    BY <1>2, <1>8, <1>9, <2>1, <2>2

-----------------------------------------------------------------------------
(* Shrinking and closing *)

LEMMA FlushKeeps ==
  ASSUME NEW c \in {"shrink", "close"} PROVE SInv /\ Flush(c) => SInv'
<1> SUFFICES ASSUME SInv, Flush(c) PROVE SInv'
  OBVIOUS
<1>1. /\ pc = "idle" /\ call' = c
      /\ UNCHANGED <<objects, freelist, inuse, frozen>>
      /\ UNCHANGED <<partial, nr_partial, cpu_page, cpu_free, out>>
  BY DEF Flush, listVars, cpuVars
<1>2. \/ cpu_page = NoPage /\ pc' = c /\ locked' = locked /\ tail' = tail
      \/ cpu_page # NoPage /\ pc' = "deactive_slab" /\ locked' = locked \cup {cpu_page} /\ tail' = TRUE
  BY DEF Flush, slab_lock
<1>3. TypeOK'
  BY <1>1, <1>2 DEF SInv, TypeOK
<1>4. OwnedByObject' /\ InuseExact' /\ Listed'
  BY <1>1 DEF SInv, OwnedByObject, InuseExact, Listed, Slabs
<1>5. NoEmptySlabsKept' /\ CloseReleases'
  BY <1>1, <1>2 DEF SInv, NoEmptySlabsKept, CloseReleases
<1>6. CpuSlab'
  BY <1>1, <1>2 DEF SInv, CpuSlab, Slabs
<1>7. OnTheWay'
  BY <1>1, <1>2 DEF SInv, OnTheWay
<1> QED
  BY <1>3, <1>4, <1>5, <1>6, <1>7 DEF SInv

(* What shrink and close have at their walk of the list. *)
LEMMA Flushed ==
  ASSUME SInv, pc \in {"shrink", "close"}
  PROVE  /\ cpu_page = NoPage /\ cpu_free = {} /\ frozen = {} /\ locked = {}
         /\ ToSet(partial) = {q \in Slabs : freelist[q] # {}}
         /\ \A q \in Slabs : inuse[q] = 0 => q \in ToSet(partial)
<1>1. cpu_page = NoPage /\ frozen = {} /\ locked = {}
  BY DEF SInv, OnTheWay, CpuSlab
<1>2. cpu_free = {}
  <2> SUFFICES ASSUME NEW o \in cpu_free PROVE FALSE
    OBVIOUS
  <2>1. o \in Object /\ o[1] = NoPage
    BY <1>1 DEF SInv, CpuSlab, TypeOK
  <2> QED
    BY <2>1, ObjectParts, CacheAssumption
<1>3. ToSet(partial) = {q \in Slabs : freelist[q] # {}}
  BY <1>1 DEF SInv, Listed
<1>4. ASSUME NEW q \in Slabs, inuse[q] = 0 PROVE freelist[q] # {}
  <2>1. objects[q] # 0 /\ objects[q] \in Nat /\ q \in Pages
    BY OneSlab DEF Slabs
  <2> QED
    BY <1>4, <2>1, OneSlab
<1> QED
  BY <1>1, <1>2, <1>3, <1>4

(* Giving back the empty slabs E, all of those there are. *)
LEMMA GiveBackKeeps ==
  ASSUME SInv, pc \in {"shrink", "close"}, discard_slab(Empty),
         partial' \in Seq(Pages), IsInjective(partial'),
         ToSet(partial') = ToSet(partial) \ Empty,
         nr_partial' = nr_partial - Cardinality(Empty),
         UNCHANGED <<frozen, locked, cpu_page, cpu_free, out, tail>>
  PROVE  /\ objects' \in [Pages -> {0, MinObjects, MaxObjects}]
         /\ freelist' \in [Pages -> SUBSET Object]
         /\ inuse' \in [Pages -> 0 .. MaxObjects]
         /\ nr_partial' \in Nat
         /\ OwnedByObject' /\ InuseExact' /\ Listed'
         /\ Slabs' = Slabs \ Empty
         /\ \A q \in Slabs' : inuse'[q] = inuse[q] /\ inuse'[q] # 0
         /\ \A q \in ToSet(partial') : inuse'[q] = inuse[q] /\ inuse'[q] # 0
<1>1. /\ cpu_free = {} /\ frozen = {}
      /\ ToSet(partial) = {q \in Slabs : freelist[q] # {}}
      /\ \A q \in Slabs : inuse[q] = 0 => q \in ToSet(partial)
  BY Flushed
<1>2. Empty \in SUBSET Pages /\ \A q \in Empty : q \in Slabs /\ inuse[q] = 0
  BY <1>1 DEF Empty, Slabs
<1>3. ASSUME NEW o \in Object, o[1] \in Empty PROVE o \notin out' /\ o \notin cpu_free
  <2>1. inuse[o[1]] >= 1 \/ o \notin out
    BY <1>3, OneObject
  <2> QED
    BY <1>1, <1>2, <1>3, <2>1
<1>4. /\ objects' \in [Pages -> {0, MinObjects, MaxObjects}]
      /\ freelist' \in [Pages -> SUBSET Object]
      /\ inuse' \in [Pages -> 0 .. MaxObjects]
      /\ OwnedByObject' /\ InuseExact'
      /\ Slabs' = Slabs \ Empty
      /\ \A q \in Pages \ Empty : freelist'[q] = freelist[q] /\ inuse'[q] = inuse[q]
  BY <1>2, <1>3, DiscardKeeps
<1>5. Cardinality(ToSet(partial')) = Len(partial') /\ Cardinality(ToSet(partial)) = Len(partial)
      /\ IsFiniteSet(ToSet(partial))
  BY LengthOfInjective, ToSetOfSeq DEF SInv, Listed, TypeOK
<1>6. nr_partial' = Len(partial')
  <2>1. ToSet(partial) \cap Empty = Empty
    BY DEF Empty
  <2>2. Cardinality(ToSet(partial) \ Empty) = Cardinality(ToSet(partial)) - Cardinality(Empty)
    <3> DEFINE L == ToSet(partial)
    <3> HIDE DEF L
    <3>1. IsFiniteSet(L)
      BY <1>5 DEF L
    <3>2. Cardinality(L \ Empty) = Cardinality(L) - Cardinality(L \cap Empty)
      BY <3>1, FS_Difference
    <3>3. L \cap Empty = Empty
      BY <2>1 DEF L
    <3>4. Cardinality(L \ Empty) = Cardinality(L) - Cardinality(Empty)
      BY <3>2, <3>3
    <3> QED
      BY <3>4 DEF L
  <2> QED
    BY <1>5, <2>2 DEF SInv, Listed
<1>7. Len(partial') \in Nat
  BY LenProperties
<1>8. Listed'
  <2>1. \A q \in Slabs' : q \in Pages \ Empty
    BY <1>4 DEF Slabs
  <2>2. ToSet(partial') = {q \in Slabs' \ frozen' : freelist'[q] # {}}
    BY <1>1, <1>4, <2>1
  <2> QED
    BY <1>6, <2>2 DEF Listed
<1>9. \A q \in Slabs' : inuse'[q] = inuse[q] /\ inuse'[q] # 0
  BY <1>1, <1>4 DEF Empty, Slabs
<1>10. \A q \in ToSet(partial') : q \in Slabs'
  BY <1>1, <1>4
<1> QED
  BY <1>4, <1>6, <1>7, <1>8, <1>9, <1>10

ByInuse == {pq \in Pages \X Pages : inuse[pq[1]] >= inuse[pq[2]]}

(* What a shrink leaves of the list, and in which order. *)
LEMMA ShrunkList ==
  ASSUME SInv, Shrink
  PROVE  /\ partial' \in Seq(Pages) /\ IsInjective(partial')
         /\ ToSet(partial') = ToSet(partial) \ Empty
         /\ Related(partial', ByInuse)
         /\ nr_partial' = nr_partial - Cardinality(Empty)
         /\ discard_slab(Empty)
<1> DEFINE left == Without(partial, Empty)
           Others(i) == {p \in Pages : inuse[p] # i}
           bucket(i) == Reverse(Without(left, Others(i)))
           lists == [k \in 1 .. MaxObjects |-> bucket(MaxObjects - k)]
<1>1. Removable = Empty /\ ToSet(partial) = {q \in Slabs : freelist[q] # {}}
  BY Flushed DEF Removable, Empty, Shrink
<1>2. /\ nr_partial' = nr_partial - Cardinality(Empty)
      /\ discard_slab(Empty)
  BY <1>1 DEF Shrink
<1>3. partial' = FlattenSeq(lists)
  <2>1. partial' = FlattenSeq([k \in DOMAIN Buckets |-> bucket(Buckets[k])])
    BY <1>1 DEF Shrink
  <2>2. [k \in DOMAIN Buckets |-> bucket(Buckets[k])] = lists
    <3> HIDE DEF bucket
    <3> QED
      BY DEF Buckets
  <2> QED
    BY <2>1, <2>2
<1>4. left \in Seq(Pages) /\ ToSet(left) = ToSet(partial) \ Empty /\ IsInjective(left)
  <2>1. partial \in Seq(Pages) /\ IsInjective(partial)
    BY DEF SInv, TypeOK, Listed
  <2> QED
    BY <2>1, LeftByWalk
<1> HIDE DEF left
<1>5. ASSUME NEW i \in Int
      PROVE  /\ bucket(i) \in Seq(Pages) /\ IsInjective(bucket(i))
             /\ ToSet(bucket(i)) = {p \in ToSet(left) : inuse[p] = i}
  <2> DEFINE rest == Without(left, Others(i))
  <2>1. /\ rest \in Seq(Pages) /\ ToSet(rest) = ToSet(left) \ Others(i)
        /\ IsInjective(left) => IsInjective(rest)
    <3> HIDE DEF Others
    <3> QED
      BY <1>4, LeftByWalk
  <2>2. ToSet(left) \ Others(i) = {p \in ToSet(left) : inuse[p] = i}
    BY <1>4, ToSetOfSeq
  <2> HIDE DEF rest
  <2>3. /\ Reverse(rest) \in Seq(Pages) /\ ToSet(Reverse(rest)) = ToSet(rest)
        /\ IsInjective(rest) => IsInjective(Reverse(rest))
    BY <2>1, Reversed
  <2>4. bucket(i) = Reverse(rest)
    BY DEF rest
  <2> HIDE DEF bucket, Others
  <2> QED
    BY <1>4, <2>1, <2>2, <2>3, <2>4
<1>6. MaxObjects \in Nat /\ MaxObjects # 0
  BY CacheAssumption
<1> HIDE DEF bucket
<1>7. ASSUME NEW k \in 1 .. MaxObjects
      PROVE  /\ lists[k] \in Seq(Pages) /\ IsInjective(lists[k])
             /\ ToSet(lists[k]) = {p \in ToSet(left) : inuse[p] = MaxObjects - k}
  <2>1. MaxObjects - k \in Int /\ lists[k] = bucket(MaxObjects - k)
    BY <1>6
  <2> QED
    BY <1>5, <2>1
<1>8. Len(lists) = MaxObjects /\ lists \in Seq(Seq(Pages))
  <2>1. \A k \in 1 .. MaxObjects : lists[k] \in Seq(Pages)
    BY <1>7
  <2>2. lists = [k \in 1 .. MaxObjects |-> lists[k]]
    OBVIOUS
  <2> HIDE DEF lists
  <2>3. lists \in [1 .. MaxObjects -> Seq(Pages)]
    BY <2>1, <2>2
  <2> QED
    BY <1>6, <2>3, LenProperties
<1> HIDE DEF lists
<1>9. ASSUME NEW p \in ToSet(left)
      PROVE  p \in Pages /\ inuse[p] \in 1 .. MaxObjects - 1
  <2>1. p \in ToSet(partial) /\ p \notin Empty /\ p \in Pages /\ freelist[p] # {}
    BY <1>1, <1>4 DEF Slabs
  <2>2. inuse[p] # 0
    BY <2>1 DEF Empty
  <2>3. /\ objects[p] \in 0 .. MaxObjects /\ inuse[p] \in 0 .. MaxObjects
        /\ Cardinality(freelist[p]) \in Nat /\ Cardinality(freelist[p]) # 0
        /\ inuse[p] + Cardinality(freelist[p]) = objects[p]
    BY <2>1, OneSlab
  <2> QED
    BY <1>6, <2>1, <2>2, <2>3
<1>10. partial' \in Seq(Pages) /\ ToSet(partial') = ToSet(left)
  <2>1. /\ FlattenSeq(lists) \in Seq(Pages)
        /\ ToSet(FlattenSeq(lists)) = UNION {ToSet(lists[i]) : i \in 1 .. MaxObjects}
    BY <1>6, <1>8, Flattened
  <2>2. ASSUME NEW p \in ToSet(left) PROVE \E i \in 1 .. MaxObjects : p \in ToSet(lists[i])
    <3>1. inuse[p] \in 1 .. MaxObjects - 1
      BY <1>9
    <3>2. MaxObjects - inuse[p] \in 1 .. MaxObjects /\ inuse[p] = MaxObjects - (MaxObjects - inuse[p])
      BY <1>6, <3>1
    <3> QED
      BY <1>7, <3>2
  <2>3. \A i \in 1 .. MaxObjects : ToSet(lists[i]) \subseteq ToSet(left)
    BY <1>7
  <2> QED
    BY <1>3, <2>1, <2>2, <2>3
<1>11. IsInjective(partial')
  <2> DEFINE Apart == {pq \in Pages \X Pages : pq[1] # pq[2]}
  <2>1. \A i \in 1 .. MaxObjects : Related(lists[i], Apart)
    BY <1>7, InjectiveIsRelated
  <2>2. ASSUME NEW i \in 1 .. MaxObjects, NEW j \in 1 .. MaxObjects, i < j,
               NEW x \in ToSet(lists[i]), NEW y \in ToSet(lists[j])
        PROVE  <<x, y>> \in Apart
    <3>1. x \in Pages /\ y \in Pages /\ inuse[x] = MaxObjects - i /\ inuse[y] = MaxObjects - j
      BY <1>7, <1>9
    <3>2. MaxObjects - i # MaxObjects - j
      BY <1>6, <2>2
    <3> QED
      BY <3>1, <3>2
  <2> HIDE DEF Apart
  <2>3. Related(FlattenSeq(lists), Apart)
    BY <1>6, <1>8, <2>1, <2>2, RelatedFlattened
  <2> QED
    BY <1>3, <1>10, <2>3, InjectiveIsRelated DEF Apart
<1>12. Related(partial', ByInuse)
  <2>1. ASSUME NEW i \in 1 .. MaxObjects PROVE Related(lists[i], ByInuse)
    <3>1. lists[i] \in Seq(Pages)
      BY <1>7
    <3>2. \A a \in 1 .. Len(lists[i]) : lists[i][a] \in ToSet(lists[i])
      BY <3>1, LenProperties DEF ToSet
    <3>3. \A a \in 1 .. Len(lists[i]) : lists[i][a] \in Pages /\ inuse[lists[i][a]] = MaxObjects - i
      BY <1>7, <1>9, <3>2
    <3> SUFFICES ASSUME NEW a \in 1 .. Len(lists[i]), NEW b \in 1 .. Len(lists[i])
                 PROVE  <<lists[i][a], lists[i][b]>> \in ByInuse
      BY DEF Related
    <3>4. MaxObjects - i >= MaxObjects - i
      BY <1>6
    <3> QED
      BY <3>3, <3>4 DEF ByInuse
  <2>2. ASSUME NEW i \in 1 .. MaxObjects, NEW j \in 1 .. MaxObjects, i < j,
               NEW x \in ToSet(lists[i]), NEW y \in ToSet(lists[j])
        PROVE  <<x, y>> \in ByInuse
    <3>1. x \in Pages /\ y \in Pages /\ inuse[x] = MaxObjects - i /\ inuse[y] = MaxObjects - j
      BY <1>7, <1>9
    <3>2. MaxObjects - i >= MaxObjects - j
      BY <1>6, <2>2
    <3> QED
      BY <3>1, <3>2 DEF ByInuse
  <2> QED
    BY <1>3, <1>6, <1>8, <2>1, <2>2, RelatedFlattened
<1> QED
  BY <1>2, <1>4, <1>10, <1>11, <1>12

LEMMA ShrinkKeeps == SInv /\ Shrink => SInv'
<1> SUFFICES ASSUME SInv, Shrink PROVE SInv'
  OBVIOUS
<1>1. /\ pc = "shrink" /\ pc' = "idle" /\ call' = "none"
      /\ UNCHANGED <<frozen, locked, cpu_page, cpu_free, out, tail>>
  BY DEF Shrink, cpuVars
<1>2. /\ partial' \in Seq(Pages) /\ IsInjective(partial')
      /\ ToSet(partial') = ToSet(partial) \ Empty
      /\ nr_partial' = nr_partial - Cardinality(Empty)
      /\ discard_slab(Empty)
  BY ShrunkList
<1>3. /\ objects' \in [Pages -> {0, MinObjects, MaxObjects}]
      /\ freelist' \in [Pages -> SUBSET Object]
      /\ inuse' \in [Pages -> 0 .. MaxObjects]
      /\ nr_partial' \in Nat
      /\ OwnedByObject' /\ InuseExact' /\ Listed'
      /\ \A q \in ToSet(partial') : inuse'[q] = inuse[q] /\ inuse'[q] # 0
  BY <1>1, <1>2, GiveBackKeeps
<1>4. cpu_page = NoPage /\ cpu_free = {} /\ frozen = {} /\ locked = {}
  BY <1>1, Flushed
<1>5. TypeOK'
  BY <1>1, <1>2, <1>3 DEF SInv, TypeOK
<1>6. CpuSlab'
  BY <1>1, <1>4 DEF CpuSlab
<1>7. OnTheWay' /\ NoEmptySlabsKept' /\ CloseReleases'
  BY <1>1, <1>3 DEF OnTheWay, NoEmptySlabsKept, CloseReleases
<1> QED
  BY <1>3, <1>5, <1>6, <1>7 DEF SInv

LEMMA CloseKeeps == SInv /\ Close => SInv'
<1> SUFFICES ASSUME SInv, Close PROVE SInv'
  OBVIOUS
<1>1. /\ pc = "close" /\ pc' = "closed"
      /\ partial' = Without(partial, Empty)
      /\ nr_partial' = nr_partial - Cardinality(Empty)
      /\ discard_slab(Empty)
      /\ UNCHANGED <<frozen, locked, cpu_page, cpu_free, out, call, tail>>
  BY DEF Close, cpuVars
<1>2. /\ partial' \in Seq(Pages) /\ IsInjective(partial')
      /\ ToSet(partial') = ToSet(partial) \ Empty
  BY <1>1, LeftByWalk DEF SInv, TypeOK, Listed
<1>3. /\ objects' \in [Pages -> {0, MinObjects, MaxObjects}]
      /\ freelist' \in [Pages -> SUBSET Object]
      /\ inuse' \in [Pages -> 0 .. MaxObjects]
      /\ nr_partial' \in Nat
      /\ OwnedByObject' /\ InuseExact' /\ Listed'
      /\ \A q \in Slabs' : inuse'[q] = inuse[q] /\ inuse'[q] # 0
      /\ \A q \in ToSet(partial') : inuse'[q] = inuse[q] /\ inuse'[q] # 0
  BY <1>1, <1>2, GiveBackKeeps
<1>4. cpu_page = NoPage /\ cpu_free = {} /\ frozen = {} /\ locked = {}
  BY <1>1, Flushed
<1>5. TypeOK'
  BY <1>1, <1>2, <1>3 DEF SInv, TypeOK
<1>6. CpuSlab'
  BY <1>1, <1>4 DEF CpuSlab
<1>7. OnTheWay' /\ NoEmptySlabsKept'
  BY <1>1, <1>3, <1>4 DEF SInv, OnTheWay, NoEmptySlabsKept
<1>8. CloseReleases'
  <2> SUFFICES ASSUME NEW q \in Slabs' PROVE ObjectsOf(q)' \cap out' # {}
    BY DEF CloseReleases
  <2>1. q \in Pages /\ objects'[q] \in 0 .. MaxObjects /\ inuse'[q] # 0
    BY <1>3, CacheAssumption DEF Slabs
  <2>2. IsFiniteSet(ObjectsAt(q, objects'[q])) /\ Cardinality(ObjectsAt(q, objects'[q])) = objects'[q]
    BY <2>1, ObjectsCounted
  <2>3. inuse'[q] + Cardinality(freelist'[q]) = objects'[q]
    BY <1>3, <2>1 DEF InuseExact
  <2>4. inuse'[q] \in 0 .. MaxObjects /\ freelist'[q] \subseteq Object
    BY <1>3, <2>1
  <2>5. freelist'[q] # ObjectsAt(q, objects'[q])
    BY <2>1, <2>2, <2>3, <2>4
  <2>6. /\ ObjectsAt(q, objects'[q]) \subseteq Object
        /\ \A o \in Object : o \in ObjectsAt(q, objects'[q]) <=> o[1] = q /\ o[2] <= objects'[q]
    BY <2>1, ObjectsAtParts
  <2>7. \A o \in Object :
          o[2] <= objects'[o[1]] <=> (o \in out' \/ o \in cpu_free' \/ o \in freelist'[o[1]])
    BY <1>3 DEF OwnedByObject
  <2>8. \A o \in freelist'[q] : o \in Object /\ o[1] = q
    BY <1>3, <2>1, <2>4 DEF OwnedByObject
  <2>9. freelist'[q] \subseteq ObjectsAt(q, objects'[q])
    BY <2>6, <2>7, <2>8
  <2>10. PICK o \in ObjectsAt(q, objects'[q]) : o \notin freelist'[q]
    BY <2>5, <2>9
  <2>11. o \in out'
    BY <1>1, <1>4, <2>6, <2>7, <2>10
  <2> QED
    BY <2>10, <2>11 DEF ObjectsOf
<1> QED
  BY <1>3, <1>5, <1>6, <1>7, <1>8 DEF SInv

-----------------------------------------------------------------------------
(* The start *)

LEMMA InitEmptySound == Init /\ InitEmpty => SInv
<1> SUFFICES ASSUME Init, InitEmpty PROVE SInv
  OBVIOUS
<1>1. /\ objects = [p \in Pages |-> 0] /\ freelist = [p \in Pages |-> {}]
      /\ inuse = [p \in Pages |-> 0] /\ partial = <<>> /\ nr_partial = 0 /\ out = {}
  BY DEF InitEmpty
<1>2. /\ frozen = {} /\ locked = {} /\ cpu_page = NoPage /\ cpu_free = {}
      /\ pc = "idle" /\ call = "none" /\ tail = TRUE
  BY DEF Init
<1>3. MaxObjects \in Nat
  BY CacheAssumption
<1>4. \A p \in Pages : objects[p] = 0 /\ freelist[p] = {} /\ inuse[p] = 0
  BY <1>1
<1>5. Slabs = {}
  BY <1>4 DEF Slabs
<1>6. TypeOK
  <2>1. partial \in Seq(Pages)
    BY <1>1
  <2> QED
    BY <1>1, <1>2, <1>3, <2>1 DEF TypeOK
<1>7. OwnedByObject
  BY <1>1, <1>2, <1>4, ObjectParts DEF OwnedByObject
<1>8. InuseExact
  <2>1. Cardinality({}) = 0
    BY FS_EmptySet
  <2> QED
    BY <1>4, <2>1 DEF InuseExact
<1>9. Listed /\ NoEmptySlabsKept
  BY <1>1, <1>5, EmptyList DEF Listed, NoEmptySlabsKept
<1>10. CpuSlab /\ OnTheWay /\ CloseReleases
  BY <1>2 DEF CpuSlab, OnTheWay, CloseReleases
<1> QED
  BY <1>6, <1>7, <1>8, <1>9, <1>10 DEF SInv

LEMMA InitEarlySound == Init /\ InitEarly => SInv
<1> SUFFICES ASSUME Init, InitEarly PROVE SInv
  OBVIOUS
<1>1. PICK p \in Pages, n \in {MaxObjects, MinObjects} \ {1} :
        /\ objects  = [q \in Pages |-> IF q = p THEN n ELSE 0]
        /\ out      = {<<p, 1>>}
        /\ freelist = [q \in Pages |-> IF q = p THEN ObjectsAt(p, n) \ {<<p, 1>>} ELSE {}]
        /\ inuse    = [q \in Pages |-> IF q = p THEN 1 ELSE 0]
        /\ partial  = <<p>>
  BY DEF InitEarly
<1>2. /\ frozen = {} /\ locked = {} /\ cpu_page = NoPage /\ cpu_free = {}
      /\ pc = "idle" /\ call = "none" /\ tail = TRUE /\ nr_partial = 1
  BY DEF Init, InitEarly
<1>3. MaxObjects \in Nat /\ n \in 2 .. MaxObjects /\ 1 \in 1 .. MaxObjects /\ n \in Nat
  BY CacheAssumption
<1>4. /\ objects[p] = n /\ inuse[p] = 1 /\ freelist[p] = ObjectsAt(p, n) \ {<<p, 1>>}
      /\ \A q \in Pages : q # p => objects[q] = 0 /\ freelist[q] = {} /\ inuse[q] = 0
  BY <1>1
<1>5. /\ ObjectsAt(p, n) \subseteq Object
      /\ \A o \in Object : o \in ObjectsAt(p, n) <=> o[1] = p /\ o[2] <= n
      /\ <<p, 1>> \in Object /\ <<p, 1>>[1] = p /\ <<p, 1>>[2] = 1
  BY <1>3, ObjectsAtParts, ObjectParts
<1>6. <<p, 1>> \in ObjectsAt(p, n)
  BY <1>3, <1>5
<1>7. Slabs = {p}
  BY <1>3, <1>4 DEF Slabs
<1>8. /\ <<p>> \in Seq(Pages) /\ Len(<<p>>) = 1 /\ ToSet(<<p>>) = {p} /\ IsInjective(<<p>>)
  BY SingleList
<1>9. Cardinality(freelist[p]) = n - 1
  <2>1. IsFiniteSet(ObjectsAt(p, n)) /\ Cardinality(ObjectsAt(p, n)) = n
    BY <1>3, ObjectsCounted
  <2>2. Cardinality(ObjectsAt(p, n) \ {<<p, 1>>}) = Cardinality(ObjectsAt(p, n)) - 1
    BY <1>6, <2>1, FS_RemoveElement
  <2> QED
    BY <1>4, <2>1, <2>2
<1>10. freelist[p] # {}
  <2>1. n - 1 # 0
    BY <1>3
  <2>2. Cardinality(freelist[p]) # 0 /\ Cardinality({}) = 0
    BY <1>9, <2>1, FS_EmptySet
  <2> QED
    BY <2>2
<1>11. TypeOK
  <2>1. objects \in [Pages -> {0, MinObjects, MaxObjects}]
    BY <1>1
  <2>2. freelist \in [Pages -> SUBSET Object]
    BY <1>1, <1>5
  <2>3. inuse \in [Pages -> 0 .. MaxObjects]
    BY <1>1, <1>3
  <2> QED
    BY <1>1, <1>2, <1>5, <1>8, <2>1, <2>2, <2>3 DEF TypeOK
<1>12. OwnedByObject
  <2>1. \A q \in Pages : \A o \in freelist[q] : o[1] = q
    BY <1>4, <1>5
  <2>2. ASSUME NEW o \in Object
        PROVE  /\ o[2] <= objects[o[1]] <=> (o \in out \/ o \in cpu_free \/ o \in freelist[o[1]])
               /\ ~ (o \in out /\ o \in cpu_free)
               /\ ~ (o \in freelist[o[1]] /\ (o \in out \/ o \in cpu_free))
    <3>1. o[1] \in Pages /\ o[2] \in 1 .. MaxObjects
      BY ObjectParts
    <3>2. CASE o[1] = p
      BY <1>1, <1>2, <1>4, <1>5, <1>6, <3>2
    <3>3. CASE o[1] # p
      <4>1. objects[o[1]] = 0 /\ freelist[o[1]] = {}
        BY <1>4, <3>1, <3>3
      <4>2. o \notin out /\ o \notin cpu_free
        BY <1>1, <1>2, <1>5, <3>3
      <4>3. ~ (o[2] <= 0)
        BY <1>3, <3>1
      <4> QED
        BY <4>1, <4>2, <4>3
    <3> QED
      BY <3>2, <3>3
  <2> QED
    BY <2>1, <2>2 DEF OwnedByObject
<1>13. InuseExact
  <2> SUFFICES ASSUME NEW q \in Pages PROVE inuse[q] + Cardinality(freelist[q]) = objects[q]
    BY DEF InuseExact
  <2>1. CASE q = p
    <3>1. inuse[q] = 1 /\ objects[q] = n /\ Cardinality(freelist[q]) = n - 1
      BY <1>4, <1>9, <2>1
    <3>2. 1 + (n - 1) = n
      BY <1>3
    <3> QED
      BY <3>1, <3>2
  <2>2. CASE q # p
    BY <1>4, <2>2, FS_EmptySet
  <2> QED
    BY <2>1, <2>2
<1>14. Listed
  BY <1>1, <1>2, <1>7, <1>8, <1>10 DEF Listed
<1>15. NoEmptySlabsKept
  BY <1>1, <1>4, <1>8 DEF NoEmptySlabsKept
<1>16. CpuSlab /\ OnTheWay /\ CloseReleases
  BY <1>2 DEF CpuSlab, OnTheWay, CloseReleases
<1> QED
  BY <1>11, <1>12, <1>13, <1>14, <1>15, <1>16 DEF SInv

-----------------------------------------------------------------------------
(* The theorems *)

LEMMA InitSound == Init => SInv
BY InitEmptySound, InitEarlySound DEF Init

LEMMA StutterKeeps == SInv /\ UNCHANGED vars => SInv'
<1> SUFFICES ASSUME SInv, UNCHANGED vars PROVE SInv'
  OBVIOUS
<1>1. /\ UNCHANGED <<objects, freelist, inuse, frozen, locked, partial, nr_partial>>
      /\ UNCHANGED <<cpu_page, cpu_free, out, pc, call, tail>>
  BY DEF vars
<1>2. TypeOK' /\ OwnedByObject' /\ InuseExact'
  BY <1>1 DEF SInv, TypeOK, OwnedByObject, InuseExact
<1>3. Listed' /\ CpuSlab' /\ OnTheWay'
  BY <1>1 DEF SInv, Listed, CpuSlab, OnTheWay, Slabs
<1>4. NoEmptySlabsKept' /\ CloseReleases'
  BY <1>1 DEF SInv, NoEmptySlabsKept, CloseReleases, Slabs, ObjectsOf
<1> QED
  BY <1>2, <1>3, <1>4 DEF SInv

LEMMA NextSound == SInv /\ [Next]_vars => SInv'
<1> SUFFICES ASSUME SInv, [Next]_vars PROVE SInv'
  OBVIOUS
<1>1. CASE Call
  BY <1>1, AllocFastKeeps, AllocSlowKeeps, FreeFastKeeps, FreeSlowKeeps, FlushKeeps DEF Call
<1>2. CASE Step
  BY <1>2, LoadFreelistKeeps, MergeFreelistKeeps, UnfreezeSlabKeeps, NewSlabFromPartialKeeps,
     NewSlabFromPagesKeeps, NewSlabFailsKeeps, ShrinkKeeps, CloseKeeps DEF Step
<1>3. CASE UNCHANGED vars
  BY <1>3, StutterKeeps
<1> QED
  BY <1>1, <1>2, <1>3 DEF Next

(* In every state of the cache, at every step of a call: each object has one
   owner, page->inuse and nr_partial count what they say, the partial list has
   exactly the slabs that have something to give, the cpu slab is the one
   frozen and the one locked, no empty slab is left behind between calls, and
   kmem_cache_destroy keeps back no slab without an object in use.         *)
THEOREM SlabsAreSound == Spec => []SlabsSound
<1>1. Init => SInv
  BY InitSound
<1>2. SInv /\ [Next]_vars => SInv'
  BY NextSound
<1>3. SInv => SlabsSound
  BY SoundInParts
<1> QED
  BY <1>1, <1>2, <1>3, PTL DEF Spec

-----------------------------------------------------------------------------
(* What a call answers *)

LEMMA OnlyFailing == Next /\ pc = "new_slab" /\ pc' = "idle" => NewSlabFails
<1> SUFFICES ASSUME Next, pc = "new_slab", pc' = "idle" PROVE NewSlabFails
  OBVIOUS
<1>1. ~ Call
  BY DEF Call, AllocFast, AllocSlow, FreeFast, FreeSlow, Flush
<1>2. ~ LoadFreelist /\ ~ MergeFreelist /\ ~ UnfreezeSlab /\ ~ Shrink /\ ~ Close
  BY DEF LoadFreelist, MergeFreelist, UnfreezeSlab, Shrink, Close
<1>3. ~ NewSlabFromPartial /\ ~ NewSlabFromPages
  BY DEF NewSlabFromPartial, NewSlabFromPages
<1> QED
  BY <1>1, <1>2, <1>3 DEF Next, Step

LEMMA OnlyShrinking == Next /\ pc = "shrink" => Shrink
<1> SUFFICES ASSUME Next, pc = "shrink" PROVE Shrink
  OBVIOUS
<1>1. ~ Call
  BY DEF Call, AllocFast, AllocSlow, FreeFast, FreeSlow, Flush
<1>2. ~ LoadFreelist /\ ~ MergeFreelist /\ ~ UnfreezeSlab /\ ~ Close
  BY DEF LoadFreelist, MergeFreelist, UnfreezeSlab, Close
<1>3. ~ NewSlabFromPartial /\ ~ NewSlabFromPages /\ ~ NewSlabFails
  BY DEF NewSlabFromPartial, NewSlabFromPages, NewSlabFails
<1> QED
  BY <1>1, <1>2, <1>3 DEF Next, Step

(* The objects of slabs with these numbers of objects. *)
BackedBy(obj) == UNION {ObjectsAt(p, obj[p]) : p \in Pages}

LEMMA BackedByParts ==
  ASSUME NEW obj \in [Pages -> {0, MinObjects, MaxObjects}]
  PROVE  /\ BackedBy(obj) \subseteq Object
         /\ \A o \in Object : o \in BackedBy(obj) <=> o[2] <= obj[o[1]]
<1>1. \A p \in Pages : obj[p] \in 0 .. MaxObjects
  BY CacheAssumption
<1>2. \A p \in Pages : /\ ObjectsAt(p, obj[p]) \subseteq Object
                       /\ \A o \in Object : o \in ObjectsAt(p, obj[p]) <=> o[1] = p /\ o[2] <= obj[p]
  BY <1>1, ObjectsAtParts
<1> QED
  BY <1>2, ObjectParts DEF BackedBy

LEMMA FailsWhenExhausted == SInv /\ Next => FailsExhausted
<1> SUFFICES ASSUME SInv, Next, pc = "new_slab", pc' = "idle"
             PROVE  out = BackedBy(objects)
  BY DEF FailsExhausted, BackedBy, ObjectsOf
<1>1. NewSlabFails
  BY OnlyFailing
<1>2. cpu_page = NoPage /\ cpu_free = {} /\ frozen = {} /\ locked = {}
  BY DEF SInv, OnTheWay, CpuSlab
<1>3. /\ partial \in Seq(Pages) /\ nr_partial = Len(partial)
      /\ ToSet(partial) = {p \in Slabs : freelist[p] # {}}
  BY <1>2 DEF SInv, TypeOK, Listed
<1>4. Len(partial) = 0
  <2> SUFFICES ASSUME Len(partial) # 0 PROVE FALSE
    OBVIOUS
  <2>1. 1 \in 1 .. Len(partial) /\ partial[1] \in Pages
    BY <1>3, LenProperties
  <2>2. \A j \in 1 .. 1 - 1 : partial[j] \in locked
    OBVIOUS
  <2>3. PartialFound(partial[1])
    BY <1>2, <1>3, <2>1, <2>2 DEF PartialFound
  <2> QED
    BY <1>1, <2>1, <2>3 DEF NewSlabFails
<1>5. ToSet(partial) = {}
  <2>1. ToSet(partial) = {partial[i] : i \in 1 .. Len(partial)}
    BY <1>3, ToSetOfSeq
  <2>2. 1 .. Len(partial) = {}
    BY <1>4
  <2> QED
    BY <2>1, <2>2
<1>6. objects \in [Pages -> {0, MinObjects, MaxObjects}] /\ out \subseteq Object
  BY DEF SInv, TypeOK
<1>7. ASSUME NEW o \in Object PROVE o \in out <=> o[2] <= objects[o[1]]
  <2>1. o[1] \in Pages /\ o[2] \in 1 .. MaxObjects
    BY ObjectParts
  <2>2. o[2] <= objects[o[1]] <=> (o \in out \/ o \in cpu_free \/ o \in freelist[o[1]])
    BY DEF SInv, OwnedByObject
  <2>3. freelist[o[1]] = {}
    <3>1. CASE objects[o[1]] = 0
      BY <2>1, <3>1, OneSlab
    <3>2. CASE objects[o[1]] # 0
      BY <1>3, <1>5, <2>1, <3>2 DEF Slabs
    <3> QED
      BY <3>1, <3>2
  <2> QED
    BY <1>2, <2>2, <2>3
<1> QED
  BY <1>6, <1>7, BackedByParts

LEMMA ShrinkSorts == SInv /\ Next => Shrunk
<1> SUFFICES ASSUME SInv, Next, pc = "shrink" PROVE Shrunk
  BY DEF Shrunk
<1>0. Shrink
  BY OnlyShrinking
<1>1. /\ UNCHANGED <<frozen, locked, cpu_page, cpu_free, out, tail>>
  BY <1>0 DEF Shrink, cpuVars
<1>2. /\ partial' \in Seq(Pages) /\ IsInjective(partial')
      /\ ToSet(partial') = ToSet(partial) \ Empty
      /\ nr_partial' = nr_partial - Cardinality(Empty)
      /\ discard_slab(Empty)
      /\ Related(partial', ByInuse)
  BY <1>0, ShrunkList
<1>3. /\ \A q \in Slabs' : inuse'[q] # 0
      /\ \A q \in ToSet(partial') : inuse'[q] = inuse[q]
  BY <1>1, <1>2, GiveBackKeeps
<1>4. ASSUME NEW i \in 1 .. Len(partial') - 1
      PROVE  inuse'[partial'[i]] >= inuse'[partial'[i + 1]]
  <2>1. i \in 1 .. Len(partial') /\ i + 1 \in 1 .. Len(partial') /\ i < i + 1
    BY <1>2, LenProperties
  <2>2. partial'[i] \in ToSet(partial') /\ partial'[i + 1] \in ToSet(partial')
    BY <1>2, <2>1, ToSetOfSeq
  <2>3. <<partial'[i], partial'[i + 1]>> \in ByInuse
    BY <1>2, <2>1 DEF Related
  <2>4. inuse[partial'[i]] >= inuse[partial'[i + 1]]
    BY <2>3 DEF ByInuse
  <2> QED
    BY <1>3, <2>2, <2>4
<1> QED
  BY <1>3, <1>4 DEF Shrunk

(* An allocation that fails has found no free object on any slab of the cache,
   and kmem_cache_shrink leaves no empty slab and the fullest ones first.  *)
THEOREM CallsAnswerRight == Spec => AnswersRight
<1>1. Spec => []SInv
  BY InitSound, NextSound, PTL DEF Spec
<1>2. SInv /\ [Next]_vars => [FailsExhausted /\ Shrunk]_vars
  BY FailsWhenExhausted, ShrinkSorts
<1> QED
  BY <1>1, <1>2, PTL DEF Spec, AnswersRight

-----------------------------------------------------------------------------
(* Implementing the store *)

LEMMA BackedIs == UNION {ObjectsOf(p) : p \in Pages} = BackedBy(objects)
BY DEF ObjectsOf, BackedBy

LEMMA StoreInit == Init => Store!Init
<1> SUFFICES ASSUME Init PROVE Store!Init
  OBVIOUS
<1>1. SInv
  BY InitSound
<1>2. objects \in [Pages -> {0, MinObjects, MaxObjects}] /\ out \subseteq Object
  BY <1>1 DEF SInv, TypeOK
<1>3. \A o \in out : o \in BackedBy(objects)
  BY <1>1, <1>2, BackedByParts DEF SInv, OwnedByObject
<1>4. BackedBy(objects) \subseteq Object
  BY <1>2, BackedByParts
<1> QED
  BY <1>3, <1>4, BackedIs DEF Store!Init

(* What every step leaves true of the two states, and the step to be shown. *)
StoreBefore ==
  /\ BackedBy(objects) \subseteq Object
  /\ out \subseteq BackedBy(objects)
  /\ \A o \in Object : o \in BackedBy(objects) <=> o[2] <= objects[o[1]]

LEMMA BeforeStore == SInv => StoreBefore
<1> SUFFICES ASSUME SInv PROVE StoreBefore
  OBVIOUS
<1>1. objects \in [Pages -> {0, MinObjects, MaxObjects}] /\ out \subseteq Object
  BY DEF SInv, TypeOK
<1>2. \A o \in out : o \in BackedBy(objects)
  BY <1>1, BackedByParts DEF SInv, OwnedByObject
<1> QED
  BY <1>1, <1>2, BackedByParts DEF StoreBefore

LEMMA AfterStore == SInv' => StoreBefore'
<1> SUFFICES ASSUME SInv' PROVE StoreBefore'
  OBVIOUS
<1>1. objects' \in [Pages -> {0, MinObjects, MaxObjects}] /\ out' \subseteq Object
  BY DEF SInv, TypeOK
<1>2. /\ BackedBy(objects') \subseteq Object
      /\ \A o \in Object : o \in BackedBy(objects') <=> o[2] <= objects'[o[1]]
  BY <1>1, BackedByParts
<1>3. \A o \in out' : o \in BackedBy(objects')
  BY <1>1, <1>2 DEF SInv, OwnedByObject
<1>4. BackedBy(objects)' = BackedBy(objects')
  BY DEF BackedBy
<1> QED
  BY <1>2, <1>3, <1>4 DEF StoreBefore

(* One step of the store, in terms of the objects' memory. *)
StoreStep ==
  \/ BackedBy(objects') = BackedBy(objects) /\ out' = out
  \/ \E o \in Object :
       /\ o \in BackedBy(objects) \ out /\ out' = out \cup {o}
       /\ BackedBy(objects') = BackedBy(objects)
  \/ \E o \in out : /\ out' = out \ {o}
                    /\ BackedBy(objects') \subseteq BackedBy(objects)
                    /\ out' \subseteq BackedBy(objects')
  \/ \E S \in SUBSET Object : /\ S \cap BackedBy(objects) = {} /\ out' = out
                              /\ BackedBy(objects') = BackedBy(objects) \cup S
  \/ \E S \in SUBSET Object : /\ S \subseteq BackedBy(objects) \ out /\ out' = out
                              /\ BackedBy(objects') = BackedBy(objects) \ S

LEMMA StepOfStore ==
  ASSUME SInv, StoreStep
  PROVE  [Store!Next]_<<UNION {ObjectsOf(p) : p \in Pages}, out>>
<1> DEFINE b == UNION {ObjectsOf(p) : p \in Pages}
<1>1. b = BackedBy(objects) /\ b' = BackedBy(objects')
  BY DEF ObjectsOf, BackedBy
<1>2. out \subseteq Object
  BY DEF SInv, TypeOK
<1> HIDE DEF b
<1>3. \/ b' = b /\ out' = out
      \/ \E o \in Object : o \in b \ out /\ out' = out \cup {o} /\ b' = b
      \/ \E o \in Object : o \in out /\ out' = out \ {o} /\ b' \subseteq b /\ out' \subseteq b'
      \/ \E S \in SUBSET Object : S \cap b = {} /\ out' = out /\ b' = b \cup S
      \/ \E S \in SUBSET Object : S \subseteq b \ out /\ out' = out /\ b' = b \ S
  BY <1>1, <1>2 DEF StoreStep
<1> QED
  BY <1>3 DEF b, Store!Next, Store!Allocate, Store!Free, Store!Back, Store!Withdraw

(* Slabs given back take with them memory nobody holds. *)
LEMMA GivenBack ==
  ASSUME SInv, SInv', out' = out,
         \A p \in Pages : objects'[p] \in {0, objects[p]}
  PROVE  StoreStep
<1> DEFINE a == BackedBy(objects)
           b == BackedBy(objects')
<1>1. /\ a \subseteq Object /\ out \subseteq a
      /\ \A o \in Object : o \in a <=> o[2] <= objects[o[1]]
  BY BeforeStore DEF StoreBefore
<1>2. /\ b \subseteq Object /\ out' \subseteq b
      /\ \A o \in Object : o \in b <=> o[2] <= objects'[o[1]]
  <2>1. BackedBy(objects)' = b
    BY DEF BackedBy
  <2> QED
    BY <2>1, AfterStore DEF StoreBefore
<1>3. b \subseteq a
  <2> SUFFICES ASSUME NEW o \in Object, o \in b PROVE o \in a
    BY <1>2
  <2>1. o[1] \in Pages /\ o[2] \in 1 .. MaxObjects /\ MaxObjects \in Nat
    BY ObjectParts, CacheAssumption
  <2>2. o[2] <= objects'[o[1]] /\ ~ (o[2] <= 0)
    BY <1>2, <2>1
  <2>3. objects'[o[1]] = objects[o[1]]
    BY <2>1, <2>2
  <2> QED
    BY <1>1, <2>2, <2>3
<1> HIDE DEF a, b
<1>4. a \ b \in SUBSET Object /\ a \ b \subseteq a \ out /\ b = a \ (a \ b)
  BY <1>1, <1>2, <1>3
<1> QED
  BY <1>4 DEF StoreStep, a, b

LEMMA FreeingRefines ==
  ASSUME SInv, SInv', NEW o \in Object, FreeFast(o) \/ FreeSlow(o)
  PROVE  StoreStep
<1> DEFINE a == BackedBy(objects)
           b == BackedBy(objects')
<1>1. o \in out /\ out' = out \ {o}
  BY DEF FreeFast, FreeSlow
<1>2. ASSUME NEW p \in Pages PROVE objects'[p] \in {0, objects[p]}
  <2>1. CASE FreeFast(o)
    BY <2>1 DEF FreeFast, slabVars
  <2>2. CASE FreeSlow(o)
    BY <2>2 DEF FreeSlow, discard_slab
  <2> QED
    BY <2>1, <2>2
<1>3. \A x \in Object : x \in a <=> x[2] <= objects[x[1]]
  BY BeforeStore DEF StoreBefore
<1>4. /\ b \subseteq Object /\ out' \subseteq b
      /\ \A x \in Object : x \in b <=> x[2] <= objects'[x[1]]
  <2>1. BackedBy(objects)' = b
    BY DEF BackedBy
  <2> QED
    BY <2>1, AfterStore DEF StoreBefore
<1>5. b \subseteq a
  <2> SUFFICES ASSUME NEW x \in Object, x \in b PROVE x \in a
    BY <1>4
  <2>1. x[1] \in Pages /\ x[2] \in 1 .. MaxObjects /\ MaxObjects \in Nat
    BY ObjectParts, CacheAssumption
  <2>2. x[2] <= objects'[x[1]] /\ ~ (x[2] <= 0)
    BY <1>4, <2>1
  <2>3. objects'[x[1]] = objects[x[1]]
    BY <1>2, <2>1, <2>2
  <2> QED
    BY <1>3, <2>2, <2>3
<1> HIDE DEF a, b
<1> QED
  BY <1>1, <1>4, <1>5 DEF StoreStep, a, b

LEMMA NewMemoryRefines ==
  ASSUME SInv, NewSlabFromPages PROVE StoreStep
<1>1. PICK p \in Pages \ Slabs, n \in {MaxObjects, MinObjects} :
        objects' = [objects EXCEPT ![p] = n]
  BY DEF NewSlabFromPages
<1>2. out' = out
  BY DEF NewSlabFromPages
<1>3. objects \in [Pages -> {0, MinObjects, MaxObjects}]
  BY DEF SInv, TypeOK
<1>4. /\ objects' \in [Pages -> {0, MinObjects, MaxObjects}]
      /\ p \in Pages /\ objects[p] = 0 /\ objects'[p] = n
      /\ \A q \in Pages : q # p => objects'[q] = objects[q]
  BY <1>1, <1>3 DEF Slabs
<1> DEFINE a == BackedBy(objects)
           b == BackedBy(objects')
           S == ObjectsAt(p, n)
<1>5. a \subseteq Object /\ \A o \in Object : o \in a <=> o[2] <= objects[o[1]]
  BY <1>3, BackedByParts
<1>6. b \subseteq Object /\ \A o \in Object : o \in b <=> o[2] <= objects'[o[1]]
  BY <1>4, BackedByParts
<1>7. S \subseteq Object /\ \A o \in Object : o \in S <=> o[1] = p /\ o[2] <= n
  <2>1. n \in 0 .. MaxObjects
    BY CacheAssumption
  <2> QED
    BY <1>4, <2>1, ObjectsAtParts
<1> HIDE DEF a, b, S
<1>8. ASSUME NEW o \in Object PROVE /\ ~ (o \in S /\ o \in a)
                                    /\ o \in b <=> o \in a \/ o \in S
  <2>1. o[1] \in Pages /\ ~ (o[2] <= 0)
    <3>1. o[1] \in Pages /\ o[2] \in 1 .. MaxObjects /\ MaxObjects \in Nat
      BY ObjectParts, CacheAssumption
    <3> QED
      BY <3>1
  <2>2. CASE o[1] = p
    BY <1>4, <1>5, <1>6, <1>7, <2>1, <2>2
  <2>3. CASE o[1] # p
    BY <1>4, <1>5, <1>6, <1>7, <2>1, <2>3
  <2> QED
    BY <2>2, <2>3
<1>9. S \cap a = {} /\ b = a \cup S
  BY <1>5, <1>6, <1>7, <1>8
<1> QED
  BY <1>2, <1>7, <1>9 DEF StoreStep, a, b

LEMMA AllocatingRefines ==
  ASSUME SInv, AllocFast \/ LoadFreelist PROVE StoreStep
<1>1. objects' = objects
  BY DEF AllocFast, LoadFreelist, slabVars
<1>2. CASE out' = out
  BY <1>1, <1>2 DEF StoreStep
<1>3. CASE out' # out
  <2>1. PICK o : /\ o \in cpu_free \/ (pc = "load_freelist" /\ o \in freelist[cpu_page])
                 /\ out' = out \cup {o}
    BY <1>3 DEF AllocFast, LoadFreelist
  <2>2. pc = "load_freelist" => cpu_page \in Pages
    BY DEF SInv, OnTheWay, TypeOK
  <2>3. o \in Object /\ (o \in cpu_free \/ o \in freelist[o[1]])
    BY <2>1, <2>2 DEF SInv, TypeOK, OwnedByObject
  <2>4. o[2] <= objects[o[1]] /\ o \notin out
    BY <2>3 DEF SInv, OwnedByObject
  <2>5. o \in BackedBy(objects)
    BY <2>3, <2>4, BeforeStore DEF StoreBefore
  <2> QED
    BY <1>1, <2>1, <2>3, <2>4, <2>5 DEF StoreStep
<1> QED
  BY <1>2, <1>3

LEMMA StepRefinesStore ==
  SInv /\ [Next]_vars => [Store!Next]_<<UNION {ObjectsOf(p) : p \in Pages}, out>>
<1> SUFFICES ASSUME SInv, [Next]_vars PROVE StoreStep
  BY StepOfStore
<1>1. SInv'
  BY NextSound
<1>2. CASE objects' = objects /\ out' = out
  BY <1>2 DEF StoreStep
<1>3. CASE AllocFast \/ LoadFreelist
  BY <1>3, AllocatingRefines
<1>4. CASE \E o \in Object : FreeFast(o) \/ FreeSlow(o)
  BY <1>1, <1>4, FreeingRefines
<1>5. CASE NewSlabFromPages
  BY <1>5, NewMemoryRefines
<1>6. CASE UnfreezeSlab \/ Shrink \/ Close
  <2>1. out' = out /\ \A p \in Pages : objects'[p] \in {0, objects[p]}
    BY <1>6 DEF UnfreezeSlab, Shrink, Close, discard_slab
  <2> QED
    BY <1>1, <2>1, GivenBack
<1>7. CASE AllocSlow \/ (\E c \in {"shrink", "close"} : Flush(c))
  BY <1>2, <1>7 DEF AllocSlow, Flush
<1>8. CASE MergeFreelist \/ NewSlabFromPartial \/ NewSlabFails
  BY <1>2, <1>8 DEF MergeFreelist, NewSlabFromPartial, NewSlabFails, slabVars
<1>9. CASE UNCHANGED vars
  BY <1>2, <1>9 DEF vars
<1> QED
  BY <1>3, <1>4, <1>5, <1>6, <1>7, <1>8, <1>9 DEF Next, Call, Step

(* The cache is a store of objects: one it hands out has memory and no other
   holder, and the memory of a slab goes back to the page allocator only when
   no caller holds an object in it.                                        *)
THEOREM StoreImplemented == Spec => ImplementsStore
<1>1. Init => Store!Init
  BY StoreInit
<1>2. Spec => []SInv
  BY InitSound, NextSound, PTL DEF Spec
<1>3. SInv /\ [Next]_vars => [Store!Next]_<<UNION {ObjectsOf(p) : p \in Pages}, out>>
  BY StepRefinesStore
<1> QED
  BY <1>1, <1>2, <1>3, PTL DEF Spec, ImplementsStore, Store!Spec
=============================================================================
