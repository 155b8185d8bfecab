----------------------------- MODULE BootmemMC -----------------------------
(* Nodes with a hole, a page directory that ends inside its page, and the    *)
(* bitmap: one of two and a half words, with a bank beyond the end of low    *)
(* memory, and one that starts inside a word, where no word of the bitmap    *)
(* may be released as one block.                                             *)
EXTENDS Bootmem

MCReserved == <<[base |-> 26, size |-> 1], [base |-> 32, size |-> 2]>>

MCAlignedNode ==
  [min_pfn |-> 8, low_pfn |-> 18, map_pages |-> {8}, reserved |-> MCReserved,
   memory |-> <<[base |-> 16, size |-> 12], [base |-> 30, size |-> 6], [base |-> 40, size |-> 4]>>]

MCUnalignedNode ==
  [min_pfn |-> 9, low_pfn |-> 18, map_pages |-> {7}, reserved |-> MCReserved,
   memory |-> <<[base |-> 18, size |-> 10], [base |-> 30, size |-> 6]>>]

MCNodes == {MCAlignedNode, MCUnalignedNode}
MCAlignedNodes == {MCAlignedNode}
=============================================================================
