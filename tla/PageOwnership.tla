--------------------------- MODULE PageOwnership ---------------------------
(***************************************************************************)
(* What the page allocator promises its callers, whatever its free lists   *)
(* look like: a block handed out is aligned to its order, lies inside the  *)
(* zone and shares no page with bootmem's pages or with a block that       *)
(* anyone still holds, and it stays handed out until the last of its       *)
(* references is put.                                                      *)
(***************************************************************************)
EXTENDS Integers

CONSTANTS Pages, Orders, Size, NotHead

VARIABLES
  withheld,   \* the pages the boot memory allocator has not given up
  holder,     \* head of a block in use |-> its order, else NotHead
  refs        \* head of a block in use |-> its references, else 0

Block(p, o) == p .. p + Size[o] - 1

InUse == UNION {Block(p, holder[p]) : p \in {q \in Pages : holder[q] # NotHead}}

Init ==
  /\ withheld = Pages
  /\ holder   = [p \in Pages |-> NotHead]
  /\ refs     = [p \in Pages |-> 0]

GiveUp(p, o) ==
  /\ Block(p, o) \subseteq withheld
  /\ withheld' = withheld \ Block(p, o)
  /\ UNCHANGED <<holder, refs>>

Allocate(p, o) ==
  /\ p % Size[o] = 0
  /\ Block(p, o) \subseteq Pages \ (withheld \cup InUse)
  /\ holder' = [holder EXCEPT ![p] = o]
  /\ refs'   = [refs EXCEPT ![p] = 1]
  /\ UNCHANGED withheld

Get(p) ==
  /\ holder[p] # NotHead
  /\ refs' = [refs EXCEPT ![p] = @ + 1]
  /\ UNCHANGED <<withheld, holder>>

Put(p) ==
  /\ holder[p] # NotHead
  /\ refs'   = [refs EXCEPT ![p] = @ - 1]
  /\ holder' = IF refs[p] = 1 THEN [holder EXCEPT ![p] = NotHead] ELSE holder
  /\ UNCHANGED withheld

Next ==
  \E p \in Pages :
    \/ \E o \in Orders : GiveUp(p, o) \/ Allocate(p, o)
    \/ Get(p)
    \/ Put(p)

Spec == Init /\ [][Next]_<<withheld, holder, refs>>

=============================================================================
