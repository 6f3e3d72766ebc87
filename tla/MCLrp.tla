-------------------------------- MODULE MCLrp -------------------------------
(* The images an app may have are all alike. *)
EXTENDS Lrp, TLC

Symmetry == Permutations(Images)
=============================================================================
