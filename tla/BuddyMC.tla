------------------------------ MODULE BuddyMC ------------------------------
(***************************************************************************)
(* Small zones for TLC.                                                    *)
(***************************************************************************)
EXTENDS Buddy

MCSize == [o \in 0 .. MaxOrder |-> 2 ^ o]

(* One pageblock, all of it valid. *)
MCFullZone == 4 .. 7

(* A zone that starts and ends inside a pageblock and has a hole. *)
MCHoleZone == {6, 7, 8, 9, 10, 11, 13}

=============================================================================
