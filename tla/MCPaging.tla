------------------------------- MODULE MCPaging -------------------------------
(***************************************************************************)
(* Tables of two entries (sixteen pages) for Paging.  The ranges are two   *)
(* neighbours of one page table, the second of them alone, so that it can  *)
(* be mapped to two physical pages, and a page of another directory.       *)
(***************************************************************************)
EXTENDS Paging

EightTables == 1..8

\* The kernel's image, apart from the direct map.
Image == <<[virt |-> 4, n |-> 1, phys |-> 1]>>

Neighbours == {[virt |-> 0, n |-> 2], [virt |-> 1, n |-> 1], [virt |-> 4, n |-> 1]}

=============================================================================
