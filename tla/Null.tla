--------------------------------- MODULE Null ---------------------------------
(* The null pointer, as in lists, nodes and page table entries.            *)
CONSTANT NULL
=============================================================================
