------------------------------ MODULE MCNodeSync ------------------------------
(* Small instances of NodeSync for TLC. *)
EXTENDS NodeSync, TLC
Symmetry == Permutations(Users) \union Permutations(Streams)
=============================================================================
