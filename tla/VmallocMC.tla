------------------------------- MODULE VmallocMC -------------------------------
(* Vmalloc alone, in a small window and with blocks of memory only. *)
EXTENDS Vmalloc

MCFrames == 101 .. 105
=============================================================================
