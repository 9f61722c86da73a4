------------------------------- MODULE MCHealer -------------------------------
(* Instances of Healer for TLC. *)
EXTENDS Healer, TLC

\* The checks are interchangeable: no action and no property names one.
Symmetry == Permutations(Checks)
=============================================================================
