----------------------------- MODULE MCWatches -----------------------------
(***************************************************************************)
(* Small instances of Watches for TLC.  Requests (and the tokens named     *)
(* after them), addresses, clients and known products are interchangeable. *)
(***************************************************************************)
EXTENDS Watches, TLC

Symmetry == Permutations(Request) \cup Permutations(Email) \cup Permutations(Client)
              \cup Permutations(Known)
=============================================================================
