----------------------------- MODULE MCListing -----------------------------
(* The two runs of the instance are interchangeable: no action or property *)
(* tells one from the other.                                               *)
EXTENDS Listing, TLC

RunSymmetry == Permutations(Run)
=============================================================================
