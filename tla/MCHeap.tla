------------------------------- MODULE MCHeap -------------------------------
(* A heap of a few nodes, for TLC. *)
EXTENDS HeapProps

(* 0 is the least request, 5 and 17 leave gaps between unaligned nodes.    *)
MCSizes == {0, 5, 17}
MCCallocArgs == {<<2, 3>>}
=============================================================================
