----------------------------- MODULE MCProxyPool -----------------------------
(* Small instances of ProxyPool for TLC. *)
EXTENDS ProxyPool
Symmetry == Permutations(Threads) \union Permutations(Contents)
=============================================================================
