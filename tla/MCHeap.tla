------------------------------- MODULE MCHeap -------------------------------
(* Heap with six nodes: the smallest heap in which the last node, put in   *)
(* the place of another, may have to go up.                                *)
EXTENDS Heap

=============================================================================
