--------------------------- MODULE MCOutputBuffer ---------------------------
(* Instances of OutputBuffer for TLC. *)
EXTENDS OutputBuffer, TLC

Symmetry == Permutations(Run)
============================================================================
