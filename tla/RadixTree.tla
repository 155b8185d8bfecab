------------------------------ MODULE RadixTree -------------------------------
(***************************************************************************)
(* The radix tree of lib/radix-tree.c with its preloaded nodes.  A node is *)
(* named by the slots that lead to it from the root, so that growing the   *)
(* tree puts a slot zero before every name; the names of the bottom level  *)
(* stand for the items.                                                    *)
(*                                                                         *)
(* RADIX_TREE_MAP_MASK is the size of a node and not the size less one:    *)
(* the slot taken at a level is zero, or one past the slots, as the lowest *)
(* bit of the next level's digit says; the word there is the first of the  *)
(* tags, which nobody sets.  Tags are therefore left out, and so is the    *)
(* preload callback, since no CPU goes away.                               *)
(***************************************************************************)
EXTENDS Integers, Sequences, FiniteSets, SequencesExt, FiniteSetsExt

CONSTANTS
  MAP_SHIFT,    \* RADIX_TREE_MAP_SHIFT
  MAX_PATH,     \* RADIX_TREE_MAX_PATH
  Indices,      \* the indices callers use
  Items         \* what they insert

ASSUME RadixTreeAssumption ==
  /\ MAP_SHIFT \in Nat \ {0} /\ MAX_PATH \in Nat \ {0}
  /\ Indices \subseteq 0 .. 2 ^ (MAP_SHIFT * MAX_PATH) - 1
  /\ IsFiniteSet(Items)

VARIABLES
  height,       \* root->height
  nodes,        \* the nodes, by their paths
  items,        \* path -> item
  preloads,     \* radix_tree_preloads.nr
  content,      \* what callers have inserted: index -> item
  refused       \* whether an insertion was refused a node

radixVars == <<height, nodes, items, preloads, content, refused>>

MAP_MASK == 2 ^ MAP_SHIFT

radix_tree_maxindex(h) == 2 ^ (MAP_SHIFT * h) - 1

(* (index >> shift) & RADIX_TREE_MAP_MASK at height h: zero or MAP_MASK. *)
SlotAt(index, h) ==
  IF (index \div 2 ^ (MAP_SHIFT * (h - 1))) \div MAP_MASK % 2 = 1 THEN MAP_MASK ELSE 0

PathOf(index, h) == [level \in 1 .. h |-> SlotAt(index, h - level + 1)]

Children(node) == {q \in nodes \cup DOMAIN items : q # <<>> /\ Front(q) = node}

NoItems == [p \in {} |-> p]
Without(f, S) == [x \in DOMAIN f \ S |-> f[x]]

(* The tree below slot zero of so many new levels. *)
Deeper(p, levels) == [k \in 1 .. levels |-> 0] \o p
Lowered(levels)   == {Deeper(p, levels) : p \in nodes}
LoweredItems(levels) ==
  [p \in {Deeper(q, levels) : q \in DOMAIN items} |-> items[SubSeq(p, levels + 1, Len(p))]]

RadixInit ==
  /\ height = 0 /\ nodes = {} /\ items = NoItems
  /\ preloads = 0 /\ content = NoItems /\ refused = FALSE

(* radix_tree_preload gets some of the nodes that are missing, or all. *)
radix_tree_preload ==
  /\ preloads < MAX_PATH
  /\ preloads' \in preloads + 1 .. MAX_PATH
  /\ UNCHANGED <<height, nodes, items, content, refused>>

-----------------------------------------------------------------------------
(* radix_tree_insert *)

(* The height radix_tree_extend aims for. *)
Target(index) ==
  IF index <= radix_tree_maxindex(height) THEN height
  ELSE Min({h \in height + 1 .. MAX_PATH : index <= radix_tree_maxindex(h)})

RootEmpty == nodes = {} /\ items = NoItems

(* The levels the extension adds above what is there; none over an empty
   root, which is only given its height.                                   *)
Levels(index) == IF RootEmpty THEN 0 ELSE Target(index) - height

(* The nodes missing on the way down, topmost first. *)
Missing(index) ==
  LET path == PathOf(index, Target(index))
      have == Lowered(Levels(index))
              \cup {Deeper(<<>>, k) : k \in 0 .. Levels(index) - 1}
  IN SelectSeq([k \in 1 .. Len(path) |-> SubSeq(path, 1, k - 1)], LAMBDA p : p \notin have)

Needed(index) == Levels(index) + Len(Missing(index))

(* How many nodes an insertion may get: those preloaded without fail. *)
Got(need) == {n \in 0 .. need : n >= Min({need, preloads})}

Spend(got) == preloads' = Max({0, preloads - got})

(* The tree is raised by levels and has the first nodes of the way down. *)
Raise(levels, h, new) ==
  /\ height' = h
  /\ nodes' = Lowered(levels) \cup {Deeper(<<>>, k) : k \in 0 .. levels - 1} \cup ToSet(new)

Taken(index) ==
  PathOf(index, Target(index)) \in DOMAIN LoweredItems(Levels(index))

(* The nodes are there: the item goes in unless the slot is taken (-EEXIST). *)
InsertDone(index, item) ==
  /\ Raise(Levels(index), Target(index), Missing(index))
  /\ Spend(Needed(index))
  /\ IF Taken(index)
     THEN items' = LoweredItems(Levels(index)) /\ UNCHANGED content
     ELSE /\ items' = [p \in DOMAIN LoweredItems(Levels(index)) \cup {PathOf(index, Target(index))} |->
                         IF p = PathOf(index, Target(index)) THEN item
                         ELSE LoweredItems(Levels(index))[p]]
          /\ content' = [i \in DOMAIN content \cup {index} |-> IF i = index THEN item ELSE content[i]]
  /\ UNCHANGED refused

(* -ENOMEM after got nodes: a tree half raised, or with a bare branch. *)
InsertRefused(index, got) ==
  /\ IF got < Levels(index)
     THEN /\ Raise(got, height + got, <<>>)
          /\ items' = LoweredItems(got)
     ELSE /\ Raise(Levels(index), Target(index), SubSeq(Missing(index), 1, got - Levels(index)))
          /\ items' = LoweredItems(Levels(index))
  /\ Spend(got)
  /\ refused' = TRUE
  /\ UNCHANGED content

radix_tree_insert(index, item) ==
  \E got \in Got(Needed(index)) :
    IF got = Needed(index) THEN InsertDone(index, item) ELSE InsertRefused(index, got)

-----------------------------------------------------------------------------
(* radix_tree_delete *)

(* Mutant: the way up stops one node early. *)
EmptiedButTop(path) ==
  {p \in {SubSeq(path, 1, k) : k \in 1 .. Len(path) - 1} :
     \A k \in Len(p) .. Len(path) - 1 : Cardinality(Children(SubSeq(path, 1, k))) = 1}

(* The nodes on the path that hold nothing but the branch to the item. *)
Emptied(path) ==
  {p \in {SubSeq(path, 1, k) : k \in 0 .. Len(path) - 1} :
     \A k \in Len(p) .. Len(path) - 1 : Cardinality(Children(SubSeq(path, 1, k))) = 1}

(* radix_tree_delete of an index a caller has inserted.  The slot taken at
   the top is always zero, so that the root never has a second child and
   radix_tree_shrink is never called.                                      *)
radix_tree_delete(index) ==
  LET path == PathOf(index, height)
  IN /\ index <= radix_tree_maxindex(height) /\ path \in DOMAIN items
     /\ items' = Without(items, {path})
     /\ nodes' = nodes \ Emptied(path)
     /\ height' = IF path = <<>> \/ <<>> \in Emptied(path) THEN 0 ELSE height
     /\ content' = Without(content, {index})
     /\ UNCHANGED <<preloads, refused>>

RadixNext ==
  \/ radix_tree_preload
  \/ \E index \in Indices \ DOMAIN content, item \in Items : radix_tree_insert(index, item)
  \/ \E index \in DOMAIN content : radix_tree_delete(index)

-----------------------------------------------------------------------------
(* Whatever was inserted and deleted in between, and however often the tree
   was raised or an insertion was refused half way, an index inserted leads
   to its own item, and the tree has no item nobody inserted.  As long as no
   insertion was refused there is no bare branch: nodes go with their last
   item, and an empty tree is back to height zero.  (radix_tree_insert,
   radix_tree_extend, radix_tree_delete)                                   *)
TreeHoldsContent ==
  /\ \A i \in DOMAIN content :
       /\ i <= radix_tree_maxindex(height) /\ PathOf(i, height) \in DOMAIN items
       /\ items[PathOf(i, height)] = content[i]
  /\ Cardinality(DOMAIN items) = Cardinality(DOMAIN content)
  /\ \A p \in nodes : Len(p) < height /\ (p # <<>> => Front(p) \in nodes)
  /\ \A p \in DOMAIN items : Len(p) = height /\ (p # <<>> => Front(p) \in nodes)
  /\ ~refused => (\A p \in nodes : Children(p) # {}) /\ (RootEmpty => height = 0)

RadixSpec == RadixInit /\ [][RadixNext]_radixVars
===============================================================================
