---------------------------- MODULE ObjectStore ----------------------------
(***************************************************************************)
(* What a cache of objects promises its callers: an object handed out is   *)
(* backed by memory and nobody else's, and memory is given back only when  *)
(* no object in it is handed out.                                          *)
(***************************************************************************)
CONSTANT Object

VARIABLES
  backed,   \* the objects that have memory
  out       \* the objects callers hold

Init == backed \subseteq Object /\ out \subseteq backed

Allocate(o) == o \in backed \ out /\ out' = out \cup {o} /\ UNCHANGED backed

(* The memory of the last object may go with it. *)
Free(o) ==
  /\ o \in out
  /\ out' = out \ {o}
  /\ backed' \subseteq backed
  /\ out' \subseteq backed'

Back(S) == S \cap backed = {} /\ backed' = backed \cup S /\ UNCHANGED out

Withdraw(S) ==
  /\ S \subseteq backed \ out
  /\ backed' = backed \ S
  /\ UNCHANGED out

Next ==
  \/ \E o \in Object : Allocate(o) \/ Free(o)
  \/ \E S \in SUBSET Object : Back(S) \/ Withdraw(S)

Spec == Init /\ [][Next]_<<backed, out>>

=============================================================================
