------------------------------ MODULE MCPhoto ------------------------------
(***************************************************************************)
(* Photo for TLC: connections are interchangeable.                         *)
(***************************************************************************)
EXTENDS Photo, TLC

Symmetry == Permutations(Conns)
=============================================================================
