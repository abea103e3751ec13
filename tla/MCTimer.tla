------------------------------ MODULE MCTimer ------------------------------
(* Timer with the symmetry of its descriptors.                             *)
EXTENDS Timer, TLC

Symmetry == Permutations(Fds)
=============================================================================
