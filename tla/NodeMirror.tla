------------------------------ MODULE NodeMirror ------------------------------
(***************************************************************************)
(* What the panel promises about the user table of a node, whatever client *)
(* connects it: the database only moves forward, and the node comes to     *)
(* another table in two ways only.  It learns a committed configuration of *)
(* a single user, or it is given a whole snapshot: the database as it was  *)
(* at one moment, never a mixture of two moments.                          *)
(*                                                                         *)
(* NodeSync implements it with queues, tasks and calls.                    *)
(***************************************************************************)
EXTENDS Naturals

CONSTANT Users
VARIABLES
  db,     \* newest committed configuration of each user
  table,  \* configuration the node serves for each user, 0 for none
  taken   \* snapshots of the database that were not given to the node yet

Nothing == [u \in Users |-> 0]

Init ==
  /\ db \in [Users -> Nat]
  /\ table \in [Users -> Nat]
  /\ \A u \in Users : table[u] <= db[u]
  /\ taken = {Nothing}

(* A configuration of a user is committed; the node learns of it later. *)
Commit(u) ==
  /\ db' = [db EXCEPT ![u] = @ + 1]
  /\ UNCHANGED <<table, taken>>

(* A snapshot is taken, or dropped. *)
Take ==
  /\ taken' \subseteq taken \union {db, Nothing}
  /\ UNCHANGED <<db, table>>

(* The node learns a committed configuration of one user. *)
Learn(u) ==
  /\ \E v \in 0..db[u] : table' = [table EXCEPT ![u] = v]
  /\ UNCHANGED <<db, taken>>

(* The node is given a snapshot, or forgets its users. *)
Replace ==
  /\ table' \in taken \union {Nothing}
  /\ taken' \subseteq taken \union {Nothing}
  /\ UNCHANGED db

Next == (\E u \in Users : Commit(u) \/ Learn(u)) \/ Take \/ Replace
Spec == Init /\ [][Next]_<<db, table, taken>>
=============================================================================
