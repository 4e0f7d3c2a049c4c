---------------------------- MODULE MCUserLifecycle ----------------------------
(* Small instances of UserLifecycle for TLC: an inbound on each of two nodes. *)
EXTENDS UserLifecycle, TLC
CONSTANTS u1, u2, s1, s2, i1, i2, n1, n2
MCNodeOf == (i1 :> n1) @@ (i2 :> n2)
=============================================================================
