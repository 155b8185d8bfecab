------------------------------- MODULE Services -------------------------------
(***************************************************************************)
(* The services that share no state: the percpu allocator, the mappings of *)
(* high memory, memory pools, the radix tree, the caches of slub, the      *)
(* virtual addresses of vmalloc, the boot and the conversions of text.  A  *)
(* behaviour exercises one of them, so that the states of all are the sum  *)
(* of the states of each, not their product.                               *)
(***************************************************************************)
EXTENDS Percpu, Highmem, Mempool, RadixTree, SlubCaches, Vmalloc, Boot, Text

VARIABLE part   \* the service exercised

servicesVars == <<pcpuVars, highmemVars, mempoolVars, radixVars, slubCachesVars,
                  vmallocVars, bootVars, textVars, part>>

ServicesInit ==
  /\ part \in {"percpu", "highmem", "mempool", "radix", "caches", "vmalloc", "boot", "text"}
  /\ PercpuInit /\ HighmemInit /\ MempoolInit /\ RadixInit /\ SlubCachesInit
  /\ VmallocInit /\ BootInit /\ TextInit

ServicesNext ==
  /\ UNCHANGED part
  /\ \/ part = "percpu" /\ PercpuNext
        /\ UNCHANGED <<highmemVars, mempoolVars, radixVars, slubCachesVars,
                       vmallocVars, bootVars, textVars>>
     \/ part = "highmem" /\ HighmemNext
        /\ UNCHANGED <<pcpuVars, mempoolVars, radixVars, slubCachesVars,
                       vmallocVars, bootVars, textVars>>
     \/ part = "mempool" /\ MempoolNext
        /\ UNCHANGED <<pcpuVars, highmemVars, radixVars, slubCachesVars,
                       vmallocVars, bootVars, textVars>>
     \/ part = "radix" /\ RadixNext
        /\ UNCHANGED <<pcpuVars, highmemVars, mempoolVars, slubCachesVars,
                       vmallocVars, bootVars, textVars>>
     \/ part = "caches" /\ SlubCachesNext
        /\ UNCHANGED <<pcpuVars, highmemVars, mempoolVars, radixVars,
                       vmallocVars, bootVars, textVars>>
     \/ part = "vmalloc" /\ VmallocNext
        /\ UNCHANGED <<pcpuVars, highmemVars, mempoolVars, radixVars,
                       slubCachesVars, bootVars, textVars>>
     \/ part = "boot" /\ BootNext
        /\ UNCHANGED <<pcpuVars, highmemVars, mempoolVars, radixVars,
                       slubCachesVars, vmallocVars, textVars>>
     \/ part = "text" /\ TextNext
        /\ UNCHANGED <<pcpuVars, highmemVars, mempoolVars, radixVars,
                       slubCachesVars, vmallocVars, bootVars>>

(* map_new_virtual runs to its end: nothing else runs on the machine. *)
ServicesSpec ==
  ServicesInit /\ [][ServicesNext]_servicesVars /\ HighmemFairness
===============================================================================
