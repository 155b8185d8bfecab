----------------------------- MODULE RangeStore -----------------------------
(***************************************************************************)
(* What the early memory manager promises: a set of addresses that are     *)
(* memory, a set that is reserved, and calls that either do exactly what   *)
(* was asked or fail and change nothing.  A range that is allocated is     *)
(* memory, aligned, and was not reserved before.                           *)
(***************************************************************************)
EXTENDS Integers

CONSTANTS Limit,    \* addresses are 0 .. Limit - 1
          Aligns    \* the alignments callers ask for

VARIABLES memory, reserved, last

Span(base, size) == base .. base + size - 1

Failed == [op |-> "failed", base |-> 0, size |-> 0]

Init ==
  /\ memory = {}
  /\ reserved = {}
  /\ last = [op |-> "none", base |-> 0, size |-> 0]

Add(base, size) ==
  /\ memory' = memory \cup Span(base, size)
  /\ last' = [op |-> "add", base |-> base, size |-> size]
  /\ UNCHANGED reserved

Reserve(base, size) ==
  /\ reserved' = reserved \cup Span(base, size)
  /\ last' = [op |-> "reserve", base |-> base, size |-> size]
  /\ UNCHANGED memory

Allocate(base, size, align) ==
  /\ size % align = 0
  /\ base % align = 0
  /\ base # 0
  /\ Span(base, size) \subseteq memory \ reserved
  /\ reserved' = reserved \cup Span(base, size)
  /\ last' = [op |-> "alloc", base |-> base, size |-> size]
  /\ UNCHANGED memory

Free(base, size) ==
  /\ Span(base, size) \subseteq reserved
  /\ reserved' = reserved \ Span(base, size)
  /\ last' = [op |-> "free", base |-> base, size |-> size]
  /\ UNCHANGED memory

Fail ==
  /\ last' = Failed
  /\ UNCHANGED <<memory, reserved>>

Next ==
  \/ \E base \in 0 .. Limit - 1, size \in 1 .. Limit :
       \/ Add(base, size)
       \/ Reserve(base, size)
       \/ \E align \in Aligns : Allocate(base, size, align)
       \/ Free(base, size)
  \/ Fail

Spec == Init /\ [][Next]_<<memory, reserved, last>>

=============================================================================
