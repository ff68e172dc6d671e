------------------------------ MODULE MCMoiArc -------------------------------
(* Instances of MoiArc for TLC. *)
EXTENDS MoiArc, TLC

HandleSymmetry == Permutations(Handles) \cup Permutations(Objects)
=============================================================================
