----------------------------- MODULE MemblockMC -----------------------------
(* Small early-memory managers, with the page directory inside the first     *)
(* bank: one whose tables have room for everything, and one whose tables     *)
(* fill up, where banks touch, repeat and are refused.                       *)
EXTENDS Memblock

MCBanks == <<Region(0, 6), Region(8, 4)>>
MCAdjacentBanks == <<Region(0, 4), Region(0, 4), Region(4, 4), Region(10, 2)>>
MCPgDir == Region(2, 1)

MCMachines == {[max_regions |-> 9, banks |-> MCBanks],
               [max_regions |-> 4, banks |-> MCAdjacentBanks]}
MCSmallMachines == {[max_regions |-> 4, banks |-> MCBanks]}

=============================================================================
