----------------------------- MODULE AddressSpace ----------------------------
(***************************************************************************)
(* What mm/vmm.h promises: a map from virtual to physical pages, in which  *)
(* a step enters one page or takes one out and leaves the others alone.    *)
(***************************************************************************)
CONSTANT NULL
VARIABLE mapping

Map(v, p) == mapping' = [mapping EXCEPT ![v] = p]
Unmap(v)  == mapping' = [mapping EXCEPT ![v] = NULL]
=============================================================================
