------------------------------- MODULE MCHeap -------------------------------
(* Heap for TLC: room for four small blocks, and sizes for which a node is  *)
(* split, is taken whole because no header fits behind, grows in place,     *)
(* shrinks and moves.                                                       *)
EXTENDS Heap
=============================================================================
