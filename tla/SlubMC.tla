------------------------------- MODULE SlubMC -------------------------------
(* A cache with three blocks of pages to live in. *)
EXTENDS Slub

CONSTANTS a, b, c

MCPages == {a, b, c}
=============================================================================
