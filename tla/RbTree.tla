-------------------------------- MODULE RbTree --------------------------------
(***************************************************************************)
(* The red-black tree of lib/rbtree.c as operators on a tree value: the    *)
(* links and colours of every node.  The two mirrored halves of each       *)
(* function in the code are one operator with the side as a parameter.     *)
(* Who is smaller than whom is up to the user, who links a node at the     *)
(* place it found and then calls rb_insert_color.                          *)
(***************************************************************************)
LOCAL INSTANCE Integers
LOCAL INSTANCE Sequences
LOCAL INSTANCE FiniteSets

CONSTANTS
  Nodes,  \* the struct rb_nodes
  NULL    \* the null pointer

Sides == {"left", "right"}
Other(d) == IF d = "left" THEN "right" ELSE "left"

Link == Nodes \cup {NULL}

(* struct rb_root and the struct rb_nodes. *)
Tree == [root : Link, child : [Nodes -> [Sides -> Link]], parent : [Nodes -> Link],
         red : SUBSET Nodes]

RB_ROOT == [root   |-> NULL,
            child  |-> [n \in Nodes |-> [d \in Sides |-> NULL]],
            parent |-> [n \in Nodes |-> NULL],
            red    |-> {}]

rb_is_black(t, n) == n = NULL \/ n \notin t.red

rb_set_parent(t, n, p) == IF n = NULL THEN t ELSE [t EXCEPT !.parent[n] = p]

SideOf(t, p, n) == IF t.child[p]["left"] = n THEN "left" ELSE "right"

(* The link that led from p, or from the root, to n leads to m. *)
Relink(t, p, n, m) ==
  IF p = NULL THEN [t EXCEPT !.root = m]
  ELSE [t EXCEPT !.child[p][SideOf(t, p, n)] = m]

(* __rb_rotate_left and __rb_rotate_right: n goes down on side d. *)
Rotate(t, n, d) ==
  LET up    == t.child[n][Other(d)]
      inner == t.child[up][d]
      t1    == [t EXCEPT !.child[n][Other(d)] = inner, !.child[up][d] = n,
                         !.parent[up] = t.parent[n]]
      t2    == rb_set_parent(t1, inner, n)
  IN rb_set_parent(Relink(t2, t.parent[n], n, up), n, up)

(* rb_link_node: a red leaf on side d of p. *)
rb_link_node(t, n, p, d) ==
  LET t1 == [t EXCEPT !.child[n] = [s \in Sides |-> NULL], !.parent[n] = p,
                      !.red = @ \cup {n}]
  IN IF p = NULL THEN [t1 EXCEPT !.root = n] ELSE [t1 EXCEPT !.child[p][d] = n]

Blacken(t, n) == IF n = NULL THEN t ELSE [t EXCEPT !.red = @ \ {n}]

BlackRoot(t) == Blacken(t, t.root)

rb_insert_color(tree, node) ==
  LET Fix[t \in Tree, n \in Nodes] ==
        LET p     == t.parent[n]
            g     == t.parent[p]
            d     == SideOf(t, g, p)
            uncle == t.child[g][Other(d)]
            bent  == t.child[p][Other(d)] = n
            top   == IF bent THEN n ELSE p
            t1    == IF bent THEN Rotate(t, p, d) ELSE t
        IN IF p = NULL \/ rb_is_black(t, p) THEN t
           ELSE IF ~rb_is_black(t, uncle)
                THEN Fix[[t EXCEPT !.red = (@ \ {uncle, p}) \cup {g}], g]
                ELSE Rotate([t1 EXCEPT !.red = (@ \ {top}) \cup {g}], g, Other(d))
  IN BlackRoot(Fix[tree, node])

(* __rb_erase_color: n, a child of p, is one black short. *)
EraseColor(tree, node, parent) ==
  LET Fix[t \in Tree, n \in Link, p \in Link] ==
        LET d     == SideOf(t, p, n)
            o     == t.child[p][Other(d)]
            t1    == IF rb_is_black(t, o) THEN t
                     ELSE Rotate([t EXCEPT !.red = (@ \ {o}) \cup {p}], p, d)
            o1    == t1.child[p][Other(d)]
            near  == t1.child[o1][d]
            t2    == IF rb_is_black(t1, t1.child[o1][Other(d)])
                     THEN Rotate([t1 EXCEPT !.red = (@ \ {near}) \cup {o1}], o1, Other(d))
                     ELSE t1
            o2    == t2.child[p][Other(d)]
            red   == (IF rb_is_black(t2, p) THEN t2.red \ {o2} ELSE t2.red \cup {o2})
                       \ {p, t2.child[o2][Other(d)]}
        IN IF ~rb_is_black(t, n) \/ n = t.root THEN Blacken(t, n)
           ELSE IF rb_is_black(t1, near) /\ rb_is_black(t1, t1.child[o1][Other(d)])
                THEN Fix[[t1 EXCEPT !.red = @ \cup {o1}], p, t1.parent[p]]
                ELSE BlackRoot(Rotate([t2 EXCEPT !.red = red], p, d))
  IN Fix[tree, node, parent]

(* The last node on side d below n. *)
Outermost(t, n, d) ==
  LET Go[m \in Nodes] == IF t.child[m][d] = NULL THEN m ELSE Go[t.child[m][d]]
  IN Go[n]

rb_first(t) == IF t.root = NULL THEN NULL ELSE Outermost(t, t.root, "left")
rb_last(t)  == IF t.root = NULL THEN NULL ELSE Outermost(t, t.root, "right")

(* The neighbour of n on side d: below it, or the first ancestor that has n on
   its other side.                                                         *)
Neighbour(t, n, d) ==
  LET Climb[m \in Nodes] ==
        LET p == t.parent[m]
        IN IF p = NULL \/ t.child[p][d] # m THEN p ELSE Climb[p]
  IN IF t.child[n][d] # NULL THEN Outermost(t, t.child[n][d], Other(d)) ELSE Climb[n]

rb_next(t, n) == Neighbour(t, n, "right")
rb_prev(t, n) == Neighbour(t, n, "left")

(* A node taken out and given back looks like one never used. *)
Forget(t, n) ==
  [t EXCEPT !.child[n] = [s \in Sides |-> NULL], !.parent[n] = NULL, !.red = @ \ {n}]

(* rb_erase of a node with at most one child: the child takes its place. *)
EraseOne(t, n) ==
  LET c  == IF t.child[n]["left"] = NULL THEN t.child[n]["right"] ELSE t.child[n]["left"]
      p  == t.parent[n]
      t1 == Relink(rb_set_parent(t, c, p), p, n, c)
  IN IF n \in t.red THEN t1 ELSE EraseColor(t1, c, p)

(* rb_erase of a node with two children: its successor, taken from its own
   place, takes the node's, colour included.                               *)
EraseTwo(t, n) ==
  LET y    == Outermost(t, t.child[n]["right"], "left")
      c    == t.child[y]["right"]
      p    == IF t.parent[y] = n THEN y ELSE t.parent[y]
      t1   == Relink(t, t.parent[n], n, y)
      t2   == IF p = y THEN t1
              ELSE rb_set_parent(
                     [rb_set_parent(t1, c, p) EXCEPT
                        !.child[p]["left"] = c, !.child[y]["right"] = t.child[n]["right"]],
                     t.child[n]["right"], y)
      t3   == [t2 EXCEPT !.parent[y] = t.parent[n], !.child[y]["left"] = t.child[n]["left"],
                         !.red = IF n \in t.red THEN @ \cup {y} ELSE @ \ {y}]
      t4   == rb_set_parent(t3, t.child[n]["left"], y)
  IN IF y \in t.red THEN t4 ELSE EraseColor(t4, c, p)

rb_erase(t, n) ==
  Forget(IF NULL \in {t.child[n]["left"], t.child[n]["right"]}
         THEN EraseOne(t, n) ELSE EraseTwo(t, n), n)

-----------------------------------------------------------------------------
(* What the tree is *)

(* The nodes in order, as rb_first and rb_next visit them. *)
InOrder(t) ==
  LET From[n \in Link, k \in 0 .. Cardinality(Nodes)] ==
        IF n = NULL \/ k = 0 THEN <<>> ELSE <<n>> \o From[rb_next(t, n), k - 1]
  IN From[rb_first(t), Cardinality(Nodes)]

InTree(t) == {n \in Nodes : n = t.root \/ t.parent[n] # NULL}

(* Links agree in both directions, no red node has a red parent, and every path
   to a missing child has as many black nodes.                             *)
RedBlack(t) ==
  LET Blacks[n \in Link] ==
        IF n = NULL THEN 0 ELSE (IF n \in t.red THEN 0 ELSE 1) + Blacks[t.parent[n]]
  IN /\ t.root \notin t.red
     /\ \A n \in InTree(t), d \in Sides :
          t.child[n][d] # NULL =>
            /\ t.parent[t.child[n][d]] = n
            /\ ~({n, t.child[n][d]} \subseteq t.red)
     /\ \A n \in InTree(t) : n # t.root => n \in {t.child[t.parent[n]][d] : d \in Sides}
     /\ \A m, n \in InTree(t) :
          NULL \in {t.child[m][d] : d \in Sides} /\ NULL \in {t.child[n][d] : d \in Sides}
            => Blacks[m] = Blacks[n]
=============================================================================
