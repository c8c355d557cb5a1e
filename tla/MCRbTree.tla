------------------------------ MODULE MCRbTree ------------------------------
(* RbTree for TLC, where keys are equal: five entities, and a node to      *)
(* spare for one that is inserted twice.                                   *)
EXTENDS RbTree

MCFew == 1 .. 5
MCEqual == <<1, 2, 2, 3, 3>>
MCFewNodes == 1 .. 6
=============================================================================
