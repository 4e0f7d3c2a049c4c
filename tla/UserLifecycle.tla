----------------------------- MODULE UserLifecycle -----------------------------
(***************************************************************************)
(* Users, their services, and what the nodes are told about them.          *)
(*                                                                         *)
(* A user is active when it is enabled, not removed, not expired and below *)
(* its data limit; it is activated when the nodes are meant to serve it.   *)
(* The first follows from the clock and the traffic, the second is a       *)
(* column that request handlers and periodic jobs must keep up with it,    *)
(* telling every node concerned as they go (operations.update_user).       *)
(* Handlers and jobs are coroutines of one event loop that do not await in *)
(* between, so each is one step.                                           *)
(*                                                                         *)
(* told[n][u] is the configuration node n was given last; NodeSync models  *)
(* how it gets there.  nodes are the registered nodes whose client is      *)
(* synchronised.                                                           *)
(***************************************************************************)
EXTENDS Integers

CONSTANTS
  Users,      \* rows of the users table
  Services, Inbounds, Nodes,
  NodeOf,     \* the node of each inbound
  Loose,      \* of LooseOps, those that may happen
  MaxTraffic, \* bound: traffic a user may use, and the largest data limit
  MaxKey      \* bound: keys given to a user

(* What leaves a node or a flag behind, wherever it happens. *)
LooseOps == {"reset_all", "delete_expired", "remove_service", "move_unreviewed"}

ASSUME UserLifecycleAssumption ==
  /\ NodeOf \in [Inbounds -> Nodes]
  /\ Loose \subseteq LooseOps
  /\ MaxTraffic \in Nat
  /\ MaxKey \in Nat

VARIABLES
  row,       \* "free": not created; "live"; "removed": kept without a username
  enabled,   \* the users with that column set
  activated, \* the same
  expiry,    \* expire_strategy, with the expire_date of a fixed one
  used,      \* used_traffic
  limit,     \* data_limit, 0 for none
  online,    \* users whose online_at is not before their last edit
  services,  \* services of each user
  inbounds,  \* inbounds of each service
  key,
  nodes,
  told

flagVars == <<row, enabled, activated>>
limitVars == <<expiry, used, limit, online>>
linkVars == <<services, inbounds, key>>
vars == <<flagVars, limitVars, linkVars, nodes, told>>

Expiries == {"never", "hold", "future", "past"}
Config == [key : Nat, tags : SUBSET Inbounds]
Gone == [key |-> 0, tags |-> {}]

Live == {u \in Users : row[u] = "live"}

data_limit_reached(u) == limit[u] # 0 /\ used[u] >= limit[u]
expired(u) == expiry[u] = "past"

(* The users for which is_active holds. *)
Active == {u \in Live \intersect enabled : ~expired(u) /\ ~data_limit_reached(u)}

(* The inbounds of a user, through its services, and what it is served with on
   each node. *)
InboundsOf == [u \in Users |-> UNION {inbounds[s] : s \in services[u]}]
Serve == [n \in Nodes |-> [u \in Users |->
  LET tags == {i \in InboundsOf[u] : NodeOf[i] = n} IN
  IF tags = {} THEN Gone ELSE [key |-> key[u], tags |-> tags]]]

(* What list_users has for each node. *)
Listed == [n \in Nodes |-> [u \in Users |-> IF u \in activated THEN Serve[n][u] ELSE Gone]]

(* update_user for each user of S, after the handler changed the rows: the
   nodes of the user's inbounds and of the old ones get its configuration, or,
   for the users of gone, are told to drop it. *)
UpdateUser(S, old, gone) ==
  told' = [n \in Nodes |-> [u \in Users |->
    IF /\ u \in S /\ n \in nodes
       /\ \E i \in InboundsOf'[u] \union old : NodeOf[i] = n
    THEN IF u \in gone THEN Gone ELSE Serve'[n][u]
    ELSE told[n][u]]]

TypeOK ==
  /\ row \in [Users -> {"free", "live", "removed"}]
  /\ enabled \subseteq Users
  /\ activated \subseteq Users
  /\ expiry \in [Users -> Expiries]
  /\ used \in [Users -> 0..MaxTraffic]
  /\ limit \in [Users -> 0..MaxTraffic]
  /\ online \subseteq Users
  /\ services \in [Users -> SUBSET Services]
  /\ inbounds \in [Services -> SUBSET Inbounds]
  /\ key \in [Users -> 1..MaxKey + 1]
  /\ nodes \subseteq Nodes
  /\ told \in [Nodes -> [Users -> Config]]

Init ==
  /\ row = [u \in Users |-> "free"]
  /\ enabled = {}
  /\ activated = {}
  /\ expiry = [u \in Users |-> "never"]
  /\ used = [u \in Users |-> 0]
  /\ limit = [u \in Users |-> 0]
  /\ online = {}
  /\ services = [u \in Users |-> {}]
  /\ inbounds \in [Services -> SUBSET Inbounds]
  /\ key = [u \in Users |-> 1]
  /\ nodes = {}
  /\ told = [n \in Nodes |-> [u \in Users |-> Gone]]

-----------------------------------------------------------------------------
(* Request handlers of one user *)

(* create_user leaves activated at its default, whatever the dates say. *)
AddUser(u) ==
  /\ row[u] = "free"
  /\ row' = [row EXCEPT ![u] = "live"]
  /\ enabled' = enabled \union {u}
  /\ activated' = activated \union {u}
  /\ \E e \in Expiries : expiry' = [expiry EXCEPT ![u] = e]
  /\ \E l \in 0..MaxTraffic : limit' = [limit EXCEPT ![u] = l]
  /\ \E S \in SUBSET Services : services' = [services EXCEPT ![u] = S]
  /\ UNCHANGED <<used, online, inbounds, key, nodes>>
  /\ UpdateUser({u}, {}, {})

(* Mutant: the flag is not brought up to date. *)
ModifyUser_NoFlag(u) ==
  /\ row[u] = "live"
  /\ \E e \in Expiries : expiry' = [expiry EXCEPT ![u] = e]
  /\ \E l \in 0..MaxTraffic : limit' = [limit EXCEPT ![u] = l]
  /\ \E S \in SUBSET Services :
       /\ S = services[u] \/ "move_unreviewed" \in Loose \/ u \notin activated \ Active
       /\ services' = [services EXCEPT ![u] = S]
  /\ online' = online \ {u}
  /\ UNCHANGED <<row, enabled, activated, used, inbounds, key, nodes>>
  /\ IF (InboundsOf[u] # InboundsOf'[u] /\ u \in Active') \/ ~(u \in Active <=> u \in Active')
     THEN UpdateUser({u}, InboundsOf[u], IF u \in Active' THEN {} ELSE {u})
     ELSE UNCHANGED told

(* The nodes are told, and the flag set, when the user's activity changed or
   the inbounds of an active user did. *)
ModifyUser(u) ==
  /\ row[u] = "live"
  /\ \E e \in Expiries : expiry' = [expiry EXCEPT ![u] = e]
  /\ \E l \in 0..MaxTraffic : limit' = [limit EXCEPT ![u] = l]
  /\ \E S \in SUBSET Services :
       /\ S = services[u] \/ "move_unreviewed" \in Loose \/ u \notin activated \ Active
       /\ services' = [services EXCEPT ![u] = S]
  /\ online' = online \ {u}
  /\ UNCHANGED <<row, enabled, used, inbounds, key, nodes>>
  /\ IF (InboundsOf[u] # InboundsOf'[u] /\ u \in Active') \/ ~(u \in Active <=> u \in Active')
     THEN /\ UpdateUser({u}, InboundsOf[u], IF u \in Active' THEN {} ELSE {u})
          /\ activated' = (activated \ {u}) \union ({u} \intersect Active')
     ELSE UNCHANGED <<activated, told>>

(* Mutant: the row stays activated. *)
RemoveUser_KeepsFlag(u) ==
  /\ row[u] = "live"
  /\ row' = [row EXCEPT ![u] = "removed"]
  /\ UNCHANGED <<enabled, activated, limitVars, linkVars, nodes>>
  /\ UpdateUser({u}, {}, {u})

RemoveUser(u) ==
  /\ row[u] = "live"
  /\ row' = [row EXCEPT ![u] = "removed"]
  /\ activated' = activated \ {u}
  /\ UNCHANGED <<enabled, limitVars, linkVars, nodes>>
  /\ UpdateUser({u}, {}, {u})

(* Mutant: the limit is taken off the usage. *)
ResetUsage_Subtracts(u) ==
  /\ row[u] = "live"
  /\ used' = [used EXCEPT ![u] = @ - limit[u]]
  /\ UNCHANGED <<row, enabled, expiry, limit, online, linkVars, nodes>>
  /\ IF u \in Active' /\ u \notin Active
     THEN UpdateUser({u}, {}, {}) /\ activated' = activated \union {u}
     ELSE UNCHANGED <<activated, told>>

(* reset_user_data_usage, of the route and of the job: a user that was not
   active and now is comes back. *)
ResetUsage(u) ==
  /\ row[u] = "live"
  /\ used' = [used EXCEPT ![u] = 0]
  /\ UNCHANGED <<row, enabled, expiry, limit, online, linkVars, nodes>>
  /\ IF u \in Active' /\ u \notin Active
     THEN UpdateUser({u}, {}, {}) /\ activated' = activated \union {u}
     ELSE UNCHANGED <<activated, told>>

EnableUser(u) ==
  /\ row[u] = "live" /\ u \notin enabled
  /\ enabled' = enabled \union {u}
  /\ UNCHANGED <<row, limitVars, linkVars, nodes>>
  /\ IF u \in Active'
     THEN UpdateUser({u}, {}, {}) /\ activated' = activated \union {u}
     ELSE UNCHANGED <<activated, told>>

DisableUser(u) ==
  /\ row[u] = "live" /\ u \in enabled
  /\ enabled' = enabled \ {u}
  /\ activated' = activated \ {u}
  /\ UNCHANGED <<row, limitVars, linkVars, nodes>>
  /\ UpdateUser({u}, {}, {u})

(* The node is told to drop the user, then gets the new key. *)
RevokeSub(u) ==
  /\ row[u] = "live"
  /\ key[u] <= MaxKey
  /\ key' = [key EXCEPT ![u] = @ + 1]
  /\ UNCHANGED <<flagVars, limitVars, services, inbounds, nodes>>
  /\ IF u \in Active THEN UpdateUser({u}, {}, {}) ELSE UNCHANGED told

-----------------------------------------------------------------------------
(* Request handlers of many users *)

(* reset_users_data_usage *)
ResetAll ==
  /\ "reset_all" \in Loose
  /\ \E S \in SUBSET Users : used' = [u \in Users |-> IF u \in S THEN 0 ELSE used[u]]
  /\ UNCHANGED <<flagVars, expiry, limit, online, linkVars, nodes, told>>

(* delete_expired, for the users of an administrator. *)
DeleteExpired ==
  \E S \in SUBSET {u \in Live : expired(u)} :
    /\ S # {}
    /\ "delete_expired" \in Loose \/ S \intersect activated = {}
    /\ row' = [u \in Users |-> IF u \in S THEN "removed" ELSE row[u]]
    /\ activated' = activated \ S
    /\ UNCHANGED <<enabled, limitVars, linkVars, nodes, told>>

(* disable_users of an administrator: those it owns. *)
DisableUsers ==
  \E S \in SUBSET (Live \intersect enabled) :
    /\ S # {}
    /\ enabled' = enabled \ S
    /\ activated' = activated \ S
    /\ UNCHANGED <<row, limitVars, linkVars, nodes>>
    /\ UpdateUser(S \intersect activated, {}, S)

(* enable_users of an administrator. *)
EnableUsers ==
  \E S \in SUBSET (Live \ enabled) :
    /\ S # {}
    /\ enabled' = enabled \union S
    /\ UNCHANGED <<row, limitVars, linkVars, nodes>>
    /\ activated' = activated \union (S \intersect Active')
    /\ UpdateUser(S \intersect Active', {}, {})

(* Mutant: the nodes are told of every user of the service. *)
ModifyService_All(s) ==
  \E I \in SUBSET Inbounds :
    /\ inbounds' = [inbounds EXCEPT ![s] = I]
    /\ UNCHANGED <<flagVars, limitVars, services, key, nodes>>
    /\ UpdateUser({u \in Users : s \in services[u]}, inbounds[s], {})

(* Mutant: the nodes of the old inbounds are not told. *)
ModifyService_NewOnly(s) ==
  \E I \in SUBSET Inbounds :
    /\ inbounds' = [inbounds EXCEPT ![s] = I]
    /\ UNCHANGED <<flagVars, limitVars, services, key, nodes>>
    /\ UpdateUser({u \in activated : s \in services[u]}, {}, {})

(* modify_service tells the nodes of every activated user of the service. *)
ModifyService(s) ==
  \E I \in SUBSET Inbounds :
    /\ inbounds' = [inbounds EXCEPT ![s] = I]
    /\ UNCHANGED <<flagVars, limitVars, services, key, nodes>>
    /\ UpdateUser({u \in activated : s \in services[u]}, inbounds[s], {})

(* remove_service: the rows that link it go with it, no node is told. *)
RemoveService(s) ==
  /\ "remove_service" \in Loose
  /\ inbounds' = [inbounds EXCEPT ![s] = {}]
  /\ services' = [u \in Users |-> services[u] \ {s}]
  /\ UNCHANGED <<flagVars, limitVars, key, nodes, told>>

-----------------------------------------------------------------------------
(* Periodic jobs and the clock *)

(* Mutant: the flag is cleared, the nodes are not told. *)
ReviewInactive_NoUpdate ==
  LET S == (Live \intersect activated) \ Active IN
  /\ S # {}
  /\ activated' = activated \ S
  /\ UNCHANGED <<row, enabled, limitVars, linkVars, nodes, told>>

(* review_users, first loop: users that stopped being active. *)
ReviewInactive ==
  LET S == (Live \intersect activated) \ Active IN
  /\ S # {}
  /\ activated' = activated \ S
  /\ UNCHANGED <<row, enabled, limitVars, linkVars, nodes>>
  /\ UpdateUser(S, {}, S)

(* Mutant: that the user was online is not looked at. *)
ReviewOnHold_Deadline(D) ==
  LET hold == {u \in Active : expiry[u] = "hold"}
      S == D \intersect hold IN
  /\ S # {}
  /\ expiry' = [u \in Users |-> IF u \in S THEN "future" ELSE expiry[u]]
  /\ UNCHANGED <<flagVars, used, limit, online, linkVars, nodes, told>>

(* review_users, second loop: on-hold users that were used, and those of D,
   whose activation deadline has passed. *)
ReviewOnHold(D) ==
  LET hold == {u \in Active : expiry[u] = "hold"}
      S == {u \in hold : u \in D \union online} IN
  /\ S # {}
  /\ expiry' = [u \in Users |-> IF u \in S THEN "future" ELSE expiry[u]]
  /\ UNCHANGED <<flagVars, used, limit, online, linkVars, nodes, told>>

(* record_user_usages *)
RecordUsage(u) ==
  /\ row[u] # "free"
  /\ used[u] < MaxTraffic
  /\ used' = [used EXCEPT ![u] = @ + 1]
  /\ online' = online \union {u}
  /\ UNCHANGED <<flagVars, expiry, limit, linkVars, nodes, told>>

(* The clock passes an expire_date. *)
Expire(u) ==
  /\ expiry[u] = "future"
  /\ expiry' = [expiry EXCEPT ![u] = "past"]
  /\ UNCHANGED <<flagVars, used, limit, online, linkVars, nodes, told>>

-----------------------------------------------------------------------------
(* A node is added, or its client synchronises again: it gets all users. *)
NodeSynced(n) ==
  /\ nodes' = nodes \union {n}
  /\ told' = [told EXCEPT ![n] = Listed[n]]
  /\ UNCHANGED <<flagVars, limitVars, linkVars>>

(* A node is removed or disabled, or its client lost it. *)
NodeLost(n) ==
  /\ n \in nodes
  /\ nodes' = nodes \ {n}
  /\ UNCHANGED <<flagVars, limitVars, linkVars, told>>

-----------------------------------------------------------------------------
UserRequest(u) ==
  \/ AddUser(u) \/ ModifyUser(u) \/ RemoveUser(u) \/ ResetUsage(u)
  \/ EnableUser(u) \/ DisableUser(u) \/ RevokeSub(u)
BulkRequest ==
  \/ ResetAll \/ DeleteExpired \/ DisableUsers \/ EnableUsers
  \/ \E s \in Services : ModifyService(s) \/ RemoveService(s)

Next ==
  \/ \E u \in Users : UserRequest(u) \/ RecordUsage(u) \/ Expire(u)
  \/ BulkRequest
  \/ ReviewInactive
  \/ \E D \in SUBSET Users : ReviewOnHold(D)
  \/ \E n \in Nodes : NodeSynced(n) \/ NodeLost(n)

Spec == Init /\ [][Next]_vars

(* The scheduler runs the review job at its interval. *)
FairSpec == Spec /\ WF_vars(ReviewInactive) /\ WF_vars(ReviewOnHold({}))

(* The panel is restarted, or its nodes synchronise again, every now and then. *)
RestartSpec == FairSpec /\ \A n \in Nodes : WF_vars(NodeSynced(n))

-----------------------------------------------------------------------------
(* Properties *)

(* Whoever is active is activated: every handler and job that lets a user come
   back also sets the flag the nodes' user lists are read by. *)
ActiveIsActivated == Active \subseteq activated

(* A node that is synchronised serves what list_users would give it now: each
   change was passed on to every node that it concerns, also those a user left.
   A key revoked while the user is not active may wait until it is. *)
Agreement ==
  \A n \in nodes, u \in Users :
    /\ told[n][u].tags = Listed[n][u].tags
    /\ u \in Active => told[n][u].key = Listed[n][u].key

(* A removed user is served by no synchronised node. *)
RemovedIsGone ==
  \A n \in nodes, u \in Users : row[u] = "removed" => told[n][u] = Gone

(* A user is handed to a node only while it is activated or active: what is
   spawned for a whole service or a whole administrator leaves out the users
   that were cut off. *)
OnlyServedAreHanded ==
  [][\A n \in Nodes, u \in Users :
       told'[n][u] \notin {told[n][u], Gone} => u \in activated' \union Active']_vars

(* Nobody keeps being served for long after the limit, the date, an
   administrator or a removal cut it off. *)
InactiveLeaves ==
  \A u \in Users :
    u \notin Active ~> (u \in Active \/ \A n \in nodes : told[n][u] = Gone)

(* An on-hold user that was used starts counting its days. *)
HoldStarts ==
  \A u \in Users :
    expiry[u] = "hold" /\ u \in online \intersect Active
      ~> (expiry[u] # "hold" \/ u \notin online \intersect Active)

(* An active user with inbounds on a node gets to be served there. *)
ActiveIsServed ==
  \A u \in Users, n \in Nodes :
    u \in Active /\ Serve[n][u] # Gone
      ~> (u \notin Active \/ Serve[n][u] = Gone \/ n \notin nodes \/ told[n][u] = Serve[n][u])
=============================================================================
