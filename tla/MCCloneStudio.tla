--------------------------- MODULE MCCloneStudio ---------------------------
(* The clone page with interchangeable calls of start. *)
EXTENDS CloneStudio, TLC

Symmetry == Permutations(Take)
=============================================================================
