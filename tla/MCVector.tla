------------------------------ MODULE MCVector ------------------------------
(* Model checking of Vector on small instances. *)
EXTENDS Vector, TLC

Symmetry == Permutations(Vectors)
=============================================================================
