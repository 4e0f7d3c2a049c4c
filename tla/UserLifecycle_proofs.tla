-------------------------- MODULE UserLifecycle_proofs --------------------------
(***************************************************************************)
(* Proofs about UserLifecycle, for every number of users, services,        *)
(* inbounds and nodes.  The operations of Loose are the ones that break    *)
(* what is proved, so each theorem names those it does without.            *)
(***************************************************************************)
EXTENDS UserLifecycle, TLAPS

USE UserLifecycleAssumption

-----------------------------------------------------------------------------
(* Types *)

LEMMA GoneType == Gone \in Config
  BY DEF Gone, Config

(* The rows, without what the nodes were told. *)
RowsOK ==
  /\ row \in [Users -> {"free", "live", "removed"}]
  /\ enabled \subseteq Users
  /\ activated \subseteq Users
  /\ expiry \in [Users -> Expiries]
  /\ used \in [Users -> 0..MaxTraffic]
  /\ limit \in [Users -> 0..MaxTraffic]
  /\ online \subseteq Users
  /\ services \in [Users -> SUBSET Services]
  /\ inbounds \in [Services -> SUBSET Inbounds]
  /\ key \in [Users -> 1..MaxKey + 1]
  /\ nodes \subseteq Nodes

(* What is served is a configuration with inbounds, or nothing. *)
ServeOK ==
  \A n \in Nodes, u \in Users :
    /\ Serve[n][u] \in Config
    /\ Serve[n][u].tags = {i \in InboundsOf[u] : NodeOf[i] = n}
    /\ Serve[n][u].tags = {} => Serve[n][u] = Gone

LEMMA ServeType == RowsOK => ServeOK
<1> SUFFICES ASSUME RowsOK, NEW n \in Nodes, NEW u \in Users
             PROVE  /\ Serve[n][u] \in Config
                    /\ Serve[n][u].tags = {i \in InboundsOf[u] : NodeOf[i] = n}
                    /\ Serve[n][u].tags = {} => Serve[n][u] = Gone
  BY DEF ServeOK
<1>1. InboundsOf[u] \subseteq Inbounds
  BY DEF RowsOK, InboundsOf
<1>2. key[u] \in Nat
  BY DEF RowsOK
<1> DEFINE tags == {i \in InboundsOf[u] : NodeOf[i] = n}
<1>3. CASE tags = {}
  BY <1>3, GoneType DEF Serve, Gone
<1>4. CASE tags # {}
  <2>1. Serve[n][u] = [key |-> key[u], tags |-> tags]
    BY <1>4 DEF Serve
  <2>2. QED
    BY <1>1, <1>2, <1>4, <2>1 DEF Config
<1>5. QED
  BY <1>3, <1>4

LEMMA ServeTypePrime == RowsOK' => ServeOK'
  BY ServeType, PTL

(* update_user tells nodes configurations. *)
LEMMA UpdateUserType ==
  ASSUME TypeOK, RowsOK', NEW S, NEW old, NEW gone, UpdateUser(S, old, gone)
  PROVE  TypeOK'
<1>1. \A n \in Nodes, u \in Users : Serve'[n][u] \in Config
  BY ServeTypePrime DEF ServeOK
<1>2. \A n \in Nodes, u \in Users : told[n][u] \in Config
  BY DEF TypeOK
<1>3. told' \in [Nodes -> [Users -> Config]]
  BY <1>1, <1>2, GoneType DEF UpdateUser
<1>4. QED
  BY <1>3 DEF RowsOK, TypeOK

LEMMA TypeStep == TypeOK /\ [Next]_vars => TypeOK'
<1> SUFFICES ASSUME TypeOK, [Next]_vars PROVE TypeOK'
  OBVIOUS
<1>a. ASSUME RowsOK', told' = told PROVE TypeOK'
  BY <1>a DEF TypeOK, RowsOK
<1>b. TypeOK => RowsOK
  BY DEF TypeOK, RowsOK
<1> USE DEF flagVars, limitVars, linkVars
<1>1. ASSUME NEW u \in Users, AddUser(u) PROVE TypeOK'
  <2>1. RowsOK'
    BY <1>1, <1>b DEF AddUser, RowsOK
  <2>2. QED
    BY <1>1, <2>1, UpdateUserType DEF AddUser
<1>2. ASSUME NEW u \in Users, ModifyUser(u) PROVE TypeOK'
  <2>2. activated' \subseteq Users
    <3>1. CASE u \in Active'
      BY <1>2, <3>1 DEF ModifyUser, TypeOK
    <3>2. CASE u \notin Active'
      BY <1>2, <3>2 DEF ModifyUser, TypeOK
    <3>3. QED
      BY <3>1, <3>2
  <2>3. RowsOK'
    BY <1>2, <1>b, <2>2 DEF ModifyUser, RowsOK
  <2>4. \/ UpdateUser({u}, InboundsOf[u], IF u \in Active' THEN {} ELSE {u})
        \/ told' = told
    BY <1>2 DEF ModifyUser
  <2>5. QED
    BY <1>a, <2>3, <2>4, UpdateUserType
<1>3. ASSUME NEW u \in Users, RemoveUser(u) PROVE TypeOK'
  <2>1. RowsOK'
    BY <1>3, <1>b DEF RemoveUser, RowsOK
  <2>2. QED
    BY <1>3, <2>1, UpdateUserType DEF RemoveUser
<1>4. ASSUME NEW u \in Users, ResetUsage(u) PROVE TypeOK'
  <2>a. activated' \subseteq Users /\ used' \in [Users -> 0..MaxTraffic]
    BY <1>4 DEF ResetUsage, TypeOK
  <2>1. RowsOK'
    BY <1>4, <1>b, <2>a DEF ResetUsage, RowsOK
  <2>2. UpdateUser({u}, {}, {}) \/ told' = told
    BY <1>4 DEF ResetUsage
  <2>3. QED
    BY <1>a, <2>1, <2>2, UpdateUserType
<1>5. ASSUME NEW u \in Users, EnableUser(u) PROVE TypeOK'
  <2>1. RowsOK'
    BY <1>5, <1>b DEF EnableUser, RowsOK
  <2>2. UpdateUser({u}, {}, {}) \/ told' = told
    BY <1>5 DEF EnableUser
  <2>3. QED
    BY <1>a, <2>1, <2>2, UpdateUserType
<1>6. ASSUME NEW u \in Users, DisableUser(u) PROVE TypeOK'
  <2>1. RowsOK'
    BY <1>6, <1>b DEF DisableUser, RowsOK
  <2>2. QED
    BY <1>6, <2>1, UpdateUserType DEF DisableUser
<1>7. ASSUME NEW u \in Users, RevokeSub(u) PROVE TypeOK'
  <2>1. key' \in [Users -> 1..MaxKey + 1]
    BY <1>7 DEF RevokeSub, TypeOK
  <2>2. RowsOK'
    BY <1>7, <1>b, <2>1 DEF RevokeSub, RowsOK
  <2>3. UpdateUser({u}, {}, {}) \/ told' = told
    BY <1>7 DEF RevokeSub
  <2>4. QED
    BY <1>a, <2>2, <2>3, UpdateUserType
<1>8. CASE ResetAll
  <2>1. used' \in [Users -> 0..MaxTraffic]
    BY <1>8 DEF ResetAll, TypeOK
  <2>2. RowsOK'
    BY <1>8, <1>b, <2>1 DEF ResetAll, RowsOK
  <2>3. QED
    BY <1>8, <1>a, <2>2 DEF ResetAll
<1>9. CASE DeleteExpired
  <2>1. RowsOK'
    BY <1>9, <1>b DEF DeleteExpired, RowsOK
  <2>2. QED
    BY <1>9, <1>a, <2>1 DEF DeleteExpired
<1>10. CASE DisableUsers
  <2>1. RowsOK'
    BY <1>10, <1>b DEF DisableUsers, RowsOK
  <2>2. QED
    BY <1>10, <2>1, UpdateUserType DEF DisableUsers
<1>11. CASE EnableUsers
  <2>1. PICK S \in SUBSET (Live \ enabled) :
          /\ enabled' = enabled \union S
          /\ activated' = activated \union (S \intersect Active')
          /\ UNCHANGED <<row, limitVars, linkVars, nodes>>
          /\ UpdateUser(S \intersect Active', {}, {})
    BY <1>11 DEF EnableUsers
  <2>2. S \subseteq Users
    BY DEF Live
  <2>3. RowsOK'
    BY <1>b, <2>1, <2>2 DEF RowsOK
  <2>4. QED
    BY <2>1, <2>3, UpdateUserType
<1>12. ASSUME NEW s \in Services, ModifyService(s) PROVE TypeOK'
  <2>1. RowsOK'
    BY <1>12, <1>b DEF ModifyService, RowsOK
  <2>2. QED
    BY <1>12, <2>1, UpdateUserType DEF ModifyService
<1>13. ASSUME NEW s \in Services, RemoveService(s) PROVE TypeOK'
  <2>1. RowsOK'
    BY <1>13, <1>b DEF RemoveService, RowsOK
  <2>2. QED
    BY <1>13, <1>a, <2>1 DEF RemoveService
<1>14. CASE ReviewInactive
  <2>1. RowsOK'
    BY <1>14, <1>b DEF ReviewInactive, RowsOK
  <2>2. QED
    BY <1>14, <2>1, UpdateUserType DEF ReviewInactive
<1>15. ASSUME NEW D \in SUBSET Users, ReviewOnHold(D) PROVE TypeOK'
  <2>1. RowsOK'
    BY <1>15, <1>b DEF ReviewOnHold, RowsOK, Expiries
  <2>2. QED
    BY <1>15, <1>a, <2>1 DEF ReviewOnHold
<1>16. ASSUME NEW u \in Users, RecordUsage(u) PROVE TypeOK'
  <2>1. used' \in [Users -> 0..MaxTraffic]
    BY <1>16 DEF RecordUsage, TypeOK
  <2>2. RowsOK'
    BY <1>16, <1>b, <2>1 DEF RecordUsage, RowsOK
  <2>3. QED
    BY <1>16, <1>a, <2>2 DEF RecordUsage
<1>17. ASSUME NEW u \in Users, Expire(u) PROVE TypeOK'
  <2>1. RowsOK'
    BY <1>17, <1>b DEF Expire, RowsOK, Expiries
  <2>2. QED
    BY <1>17, <1>a, <2>1 DEF Expire
<1>18. ASSUME NEW n \in Nodes, NodeSynced(n) PROVE TypeOK'
  <2>1. Listed[n] \in [Users -> Config]
    <3>1. \A u \in Users : Serve[n][u] \in Config
      BY <1>b, ServeType DEF ServeOK
    <3>2. Listed[n] = [u \in Users |-> IF u \in activated THEN Serve[n][u] ELSE Gone]
      BY DEF Listed
    <3>3. QED
      BY <3>1, <3>2, GoneType
  <2>2. told' \in [Nodes -> [Users -> Config]]
    BY <1>18, <2>1 DEF NodeSynced, TypeOK
  <2>3. QED
    BY <1>18, <2>2 DEF NodeSynced, TypeOK
<1>19. ASSUME NEW n \in Nodes, NodeLost(n) PROVE TypeOK'
  BY <1>19 DEF NodeLost, TypeOK
<1>20. CASE UNCHANGED vars
  BY <1>20 DEF vars, TypeOK
<1>21. QED
  BY <1>1, <1>2, <1>3, <1>4, <1>5, <1>6, <1>7, <1>8, <1>9, <1>10, <1>11, <1>12, <1>13,
     <1>14, <1>15, <1>16, <1>17, <1>18, <1>19, <1>20
  DEF Next, UserRequest, BulkRequest

(* Rows, limits, flags and what the nodes were told keep their types. *)
THEOREM UserTypeCorrect == Spec => []TypeOK
<1>1. Init => TypeOK
  <2> SUFFICES ASSUME Init PROVE TypeOK
    OBVIOUS
  <2>1. told \in [Nodes -> [Users -> Config]]
    BY GoneType DEF Init
  <2>2. key \in [Users -> 1..MaxKey + 1]
    BY DEF Init
  <2>3. used \in [Users -> 0..MaxTraffic] /\ limit \in [Users -> 0..MaxTraffic]
    BY DEF Init
  <2>4. QED
    BY <2>1, <2>2, <2>3 DEF Init, TypeOK, Expiries
<1>2. QED
  BY <1>1, TypeStep, PTL DEF Spec

-----------------------------------------------------------------------------
(* Flags *)

(* Rows that are not live are not activated. *)
DeadAreCut == \A u \in activated : row[u] = "live"

(* Whether a user is active depends on its own columns only. *)
LEMMA ActiveSame ==
  ASSUME NEW v \in Users,
         row'[v] = row[v], v \in enabled' <=> v \in enabled, expiry'[v] = expiry[v],
         used'[v] = used[v], limit'[v] = limit[v]
  PROVE  v \in Active' <=> v \in Active
  BY DEF Active, Live, expired, data_limit_reached

(* A step that changes no column a user is active by, and cuts nobody. *)
LEMMA FlagsKept ==
  ASSUME ActiveIsActivated, DeadAreCut, UNCHANGED <<flagVars, expiry, used, limit>>
  PROVE  ActiveIsActivated' /\ DeadAreCut' /\ Active' = Active
<1>1. Active' = Active
  BY DEF flagVars, Active, Live, expired, data_limit_reached
<1>2. QED
  BY <1>1 DEF ActiveIsActivated, DeadAreCut, flagVars

(* Every handler and job that lets a user come back sets its flag. *)
LEMMA FlagsStep ==
  "reset_all" \notin Loose /\ TypeOK /\ ActiveIsActivated /\ DeadAreCut /\ [Next]_vars
    => ActiveIsActivated' /\ DeadAreCut'
<1> SUFFICES ASSUME "reset_all" \notin Loose, TypeOK, ActiveIsActivated, DeadAreCut, [Next]_vars
             PROVE  ActiveIsActivated' /\ DeadAreCut'
  OBVIOUS
<1> DEFINE P == ActiveIsActivated' /\ DeadAreCut'
<1>a. /\ Active \subseteq Users /\ activated \subseteq Users
      /\ Active' = {u \in Users : u \in Active'}
  BY DEF Active, Live, TypeOK
<1> USE DEF flagVars, limitVars, linkVars, ActiveIsActivated, DeadAreCut, TypeOK
<1>1. ASSUME NEW u \in Users, AddUser(u) PROVE P
  <2>1. \A v \in Users \ {u} : v \in Active' <=> v \in Active
    BY <1>1, ActiveSame DEF AddUser
  <2>2. QED
    BY <1>1, <1>a, <2>1 DEF AddUser
<1>2. ASSUME NEW u \in Users, ModifyUser(u) PROVE P
  <2>1. \A v \in Users \ {u} : v \in Active' <=> v \in Active
    BY <1>2, ActiveSame DEF ModifyUser
  <2>2. /\ row' = row /\ row[u] = "live"
        /\ \/ activated' = (activated \ {u}) \union ({u} \intersect Active')
           \/ activated' = activated /\ (u \in Active <=> u \in Active')
    BY <1>2 DEF ModifyUser
  <2>3. QED
    BY <1>a, <2>1, <2>2
<1>3. ASSUME NEW u \in Users, RemoveUser(u) PROVE P
  <2>1. \A v \in Users \ {u} : v \in Active' <=> v \in Active
    BY <1>3, ActiveSame DEF RemoveUser
  <2>2. u \notin Active'
    BY <1>3 DEF RemoveUser, Active, Live
  <2>3. QED
    BY <1>3, <1>a, <2>1, <2>2 DEF RemoveUser
<1>4. ASSUME NEW u \in Users, ResetUsage(u) PROVE P
  <2>1. \A v \in Users \ {u} : v \in Active' <=> v \in Active
    BY <1>4, ActiveSame DEF ResetUsage
  <2>2. /\ row' = row /\ row[u] = "live"
        /\ \/ activated' = activated \union {u}
           \/ activated' = activated /\ (u \in Active' => u \in Active)
    BY <1>4 DEF ResetUsage
  <2>3. QED
    BY <1>a, <2>1, <2>2
<1>5. ASSUME NEW u \in Users, EnableUser(u) PROVE P
  <2>1. \A v \in Users \ {u} : v \in Active' <=> v \in Active
    BY <1>5, ActiveSame DEF EnableUser
  <2>2. /\ row' = row /\ row[u] = "live"
        /\ \/ activated' = activated \union {u}
           \/ activated' = activated /\ u \notin Active'
    BY <1>5 DEF EnableUser
  <2>3. QED
    BY <1>a, <2>1, <2>2
<1>6. ASSUME NEW u \in Users, DisableUser(u) PROVE P
  <2>1. \A v \in Users \ {u} : v \in Active' <=> v \in Active
    BY <1>6, ActiveSame DEF DisableUser
  <2>2. u \notin Active'
    BY <1>6 DEF DisableUser, Active, Live
  <2>3. QED
    BY <1>6, <1>a, <2>1, <2>2 DEF DisableUser
<1>7. ASSUME NEW u \in Users, RevokeSub(u) PROVE P
  BY <1>7, FlagsKept DEF RevokeSub
<1>8. ~ResetAll
  BY DEF ResetAll
<1>9. CASE DeleteExpired
  <2>1. PICK S \in SUBSET Live :
          /\ row' = [u \in Users |-> IF u \in S THEN "removed" ELSE row[u]]
          /\ activated' = activated \ S
          /\ UNCHANGED <<enabled, limitVars>>
    BY <1>9 DEF DeleteExpired
  <2>2. \A v \in Users : v \in Active' => v \in Active \ S
    BY <2>1 DEF Active, Live, expired, data_limit_reached
  <2>3. QED
    BY <1>a, <2>1, <2>2
<1>10. CASE DisableUsers
  <2>1. PICK S \in SUBSET Live :
          /\ enabled' = enabled \ S
          /\ activated' = activated \ S
          /\ UNCHANGED <<row, limitVars>>
    BY <1>10 DEF DisableUsers
  <2>2. \A v \in Users : v \in Active' => v \in Active \ S
    BY <2>1 DEF Active, Live, expired, data_limit_reached
  <2>3. QED
    BY <1>a, <2>1, <2>2
<1>11. CASE EnableUsers
  <2>1. PICK S \in SUBSET Live :
          /\ enabled' = enabled \union S
          /\ activated' = activated \union (S \intersect Active')
          /\ UNCHANGED <<row, limitVars>>
    BY <1>11 DEF EnableUsers
  <2>2. \A v \in Users : v \in Active' => v \in Active \/ v \in S
    BY <2>1 DEF Active, Live, expired, data_limit_reached
  <2>3. QED
    BY <1>a, <2>1, <2>2 DEF Live
<1>12. ASSUME NEW s \in Services, ModifyService(s) \/ RemoveService(s) PROVE P
  BY <1>12, FlagsKept DEF ModifyService, RemoveService
<1>13. CASE ReviewInactive
  <2>1. \A v \in Users : v \in Active' <=> v \in Active
    BY <1>13, ActiveSame DEF ReviewInactive
  <2>2. QED
    BY <1>13, <1>a, <2>1 DEF ReviewInactive
<1>14. ASSUME NEW D \in SUBSET Users, ReviewOnHold(D) PROVE P
  <2>1. /\ UNCHANGED <<flagVars, used, limit>>
        /\ \A v \in Users : expiry'[v] = expiry[v] \/ v \in Active
    BY <1>14 DEF ReviewOnHold
  <2>2. \A v \in Users : v \in Active' => v \in Active
    BY <2>1, ActiveSame
  <2>3. QED
    BY <1>a, <2>1, <2>2
<1>15. ASSUME NEW u \in Users, RecordUsage(u) PROVE P
  <2>1. \A v \in Users \ {u} : v \in Active' <=> v \in Active
    BY <1>15, ActiveSame DEF RecordUsage
  <2>2. u \in Active' => u \in Active
    BY <1>15 DEF RecordUsage, Active, Live, expired, data_limit_reached
  <2>3. QED
    BY <1>15, <1>a, <2>1, <2>2 DEF RecordUsage
<1>16. ASSUME NEW u \in Users, Expire(u) PROVE P
  <2>1. \A v \in Users \ {u} : v \in Active' <=> v \in Active
    BY <1>16, ActiveSame DEF Expire
  <2>2. u \notin Active'
    BY <1>16 DEF Expire, Active, Live, expired
  <2>3. QED
    BY <1>16, <1>a, <2>1, <2>2 DEF Expire
<1>17. ASSUME NEW n \in Nodes, NodeSynced(n) \/ NodeLost(n) PROVE P
  BY <1>17, FlagsKept DEF NodeSynced, NodeLost
<1>18. CASE UNCHANGED vars
  BY <1>18, FlagsKept DEF vars
<1>19. QED
  BY <1>1, <1>2, <1>3, <1>4, <1>5, <1>6, <1>7, <1>8, <1>9, <1>10, <1>11, <1>12, <1>13,
     <1>14, <1>15, <1>16, <1>17, <1>18
  DEF Next, UserRequest, BulkRequest

(* Without the reset of everybody's usage, whoever is active is activated. *)
THEOREM ActiveActivated ==
  "reset_all" \notin Loose => (Spec => []ActiveIsActivated)
<1> SUFFICES ASSUME "reset_all" \notin Loose PROVE Spec => []ActiveIsActivated
  OBVIOUS
<1>1. Init => ActiveIsActivated /\ DeadAreCut
  BY DEF Init, ActiveIsActivated, DeadAreCut, Active, Live
<1>2. TypeOK /\ ActiveIsActivated /\ DeadAreCut /\ [Next]_vars
        => ActiveIsActivated' /\ DeadAreCut'
  BY FlagsStep
<1>3. QED
  BY <1>1, <1>2, UserTypeCorrect, PTL DEF Spec

-----------------------------------------------------------------------------
(* What the nodes are told *)

(* A node is only told inbounds of its own, and drops a user as a whole. *)
Normal ==
  \A n \in Nodes, u \in Users :
    /\ told[n][u].tags = {} => told[n][u] = Gone
    /\ \A i \in told[n][u].tags : NodeOf[i] = n

(* The step leaves what the nodes should serve u as it is. *)
Quiet(v) ==
  \A n \in Nodes :
    /\ Listed'[n][v].tags = Listed[n][v].tags
    /\ v \in Active' => v \in Active /\ Listed'[n][v].key = Listed[n][v].key

LEMMA ListedIs ==
  ASSUME NEW n \in Nodes, NEW v \in Users
  PROVE  Listed[n][v] = IF v \in activated THEN Serve[n][v] ELSE Gone
BY DEF Listed

LEMMA ListedIsPrime ==
  ASSUME NEW n \in Nodes, NEW v \in Users
  PROVE  Listed'[n][v] = IF v \in activated' THEN Serve'[n][v] ELSE Gone
BY DEF Listed

LEMMA InboundsSame ==
  ASSUME NEW v \in Users, services'[v] = services[v], inbounds' = inbounds
  PROVE  InboundsOf'[v] = InboundsOf[v]
BY DEF InboundsOf

LEMMA ServeSame ==
  ASSUME NEW n \in Nodes, NEW v \in Users, InboundsOf'[v] = InboundsOf[v], key'[v] = key[v]
  PROVE  Serve'[n][v] = Serve[n][v]
BY DEF Serve

(* What makes a step quiet for a user: its inbounds, its key and its flag stay,
   or it is cut off before and after. *)
LEMMA QuietSame ==
  ASSUME NEW v \in Users, InboundsOf'[v] = InboundsOf[v], key'[v] = key[v],
         v \in activated' <=> v \in activated, v \in Active' => v \in Active
  PROVE  Quiet(v)
BY ListedIs, ListedIsPrime, ServeSame DEF Quiet

LEMMA QuietCut ==
  ASSUME NEW v \in Users, v \notin activated, v \notin activated', v \notin Active'
  PROVE  Quiet(v)
BY ListedIs, ListedIsPrime DEF Quiet

(* A step that tells no node anything must be quiet for every user. *)
LEMMA RestAgrees ==
  ASSUME Agreement, Normal, told' = told, nodes' \subseteq nodes, nodes \subseteq Nodes,
         \A v \in Users : Quiet(v)
  PROVE  Agreement' /\ Normal'
<1>1. Normal'
  BY DEF Normal
<1>2. ASSUME NEW n \in nodes', NEW v \in Users
      PROVE  /\ told'[n][v].tags = Listed'[n][v].tags
             /\ v \in Active' => told'[n][v].key = Listed'[n][v].key
  BY <1>2 DEF Agreement, Quiet
<1>3. QED
  BY <1>1, <1>2 DEF Agreement

(* update_user brings the nodes to what they should serve, when it is called
   for every user the step is not quiet for, with the inbounds each one left. *)
LEMMA UpdateAgrees ==
  ASSUME TypeOK, TypeOK', Normal, Agreement, nodes' = nodes,
         NEW S \in SUBSET Users, NEW old, NEW gone, UpdateUser(S, old, gone),
         \A v \in S : v \notin activated \/ InboundsOf[v] \subseteq InboundsOf'[v] \union old,
         \A v \in S : v \in gone <=> v \notin activated',
         \A v \in Users \ S : Quiet(v)
  PROVE  Agreement' /\ Normal'
<1>a. ServeOK /\ ServeOK'
  BY ServeType, ServeTypePrime DEF TypeOK, RowsOK
<1>b. nodes \subseteq Nodes
  BY DEF TypeOK
<1> DEFINE touched(n, v) == \E i \in InboundsOf'[v] \union old : NodeOf[i] = n
<1>1. ASSUME NEW n \in Nodes, NEW v \in Users
      PROVE  told'[n][v] = IF v \in S /\ n \in nodes /\ touched(n, v)
                             THEN IF v \in gone THEN Gone ELSE Serve'[n][v]
                             ELSE told[n][v]
  BY DEF UpdateUser
<1> HIDE DEF touched
<1>2. Normal'
  <2> SUFFICES ASSUME NEW n \in Nodes, NEW v \in Users
               PROVE  /\ told'[n][v].tags = {} => told'[n][v] = Gone
                      /\ \A i \in told'[n][v].tags : NodeOf[i] = n
    BY DEF Normal
  <2>1. told'[n][v] = Gone \/ told'[n][v] = Serve'[n][v] \/ told'[n][v] = told[n][v]
    BY <1>1
  <2>2. Gone.tags = {}
    BY DEF Gone
  <2>3. QED
    BY <1>a, <2>1, <2>2 DEF Normal, ServeOK
<1>3. ASSUME NEW n \in nodes, NEW v \in S, touched(n, v) PROVE told'[n][v] = Listed'[n][v]
  BY <1>1, <1>3, <1>b, ListedIsPrime
<1>4. ASSUME NEW n \in nodes, NEW v \in S, ~touched(n, v) PROVE told'[n][v] = Listed'[n][v]
  <2>1. told'[n][v] = told[n][v] /\ n \in Nodes
    BY <1>1, <1>4, <1>b
  <2>2. told[n][v].tags \subseteq InboundsOf'[v] \union old
    <3>1. told[n][v].tags = Listed[n][v].tags
      BY DEF Agreement
    <3>2. Listed[n][v] = Gone \/ (v \in activated /\ Listed[n][v] = Serve[n][v])
      BY <2>1, ListedIs
    <3>3. QED
      BY <1>a, <2>1, <3>1, <3>2 DEF ServeOK, Gone
  <2>3. told[n][v].tags = {}
    BY <1>4, <2>1, <2>2 DEF touched, Normal
  <2>4. Serve'[n][v].tags = {i \in InboundsOf'[v] : NodeOf[i] = n}
    BY <1>a, <2>1 DEF ServeOK
  <2>5. Serve'[n][v].tags = {}
    BY <1>4, <2>4 DEF touched
  <2>6. Serve'[n][v] = Gone
    BY <1>a, <2>1, <2>5 DEF ServeOK
  <2>7. told[n][v] = Gone
    BY <2>1, <2>3 DEF Normal
  <2>8. QED
    BY <2>1, <2>6, <2>7, ListedIsPrime
<1>5. ASSUME NEW n \in nodes, NEW v \in Users \ S
      PROVE  /\ told'[n][v].tags = Listed'[n][v].tags
             /\ v \in Active' => told'[n][v].key = Listed'[n][v].key
  <2>1. told'[n][v] = told[n][v] /\ n \in Nodes
    BY <1>1, <1>b
  <2>2. QED
    BY <2>1 DEF Agreement, Quiet
<1>6. QED
  BY <1>2, <1>3, <1>4, <1>5 DEF Agreement

(* Without the operations of Loose, every step is quiet for a user or tells the
   nodes concerned. *)
LEMMA AgreementStep ==
  Loose = {} /\ TypeOK /\ TypeOK' /\ ActiveIsActivated /\ ActiveIsActivated' /\ DeadAreCut
    /\ Normal /\ Agreement /\ [Next]_vars
    => Agreement' /\ Normal'
<1> SUFFICES ASSUME Loose = {}, TypeOK, TypeOK', ActiveIsActivated, ActiveIsActivated',
                    DeadAreCut, Normal, Agreement, [Next]_vars
             PROVE  Agreement' /\ Normal'
  OBVIOUS
<1> DEFINE P == Agreement' /\ Normal'
<1>a. nodes \subseteq Nodes
  BY DEF TypeOK
<1>b. Active \subseteq Users /\ Active' \subseteq Users
  BY DEF Active, Live
<1> USE DEF flagVars, limitVars, linkVars
<1>1. ASSUME NEW u \in Users, AddUser(u) PROVE P
  <2>1. u \notin activated /\ u \in activated'
    BY <1>1 DEF AddUser, DeadAreCut
  <2>2. \A v \in Users \ {u} : Quiet(v)
    BY <1>1, ActiveSame, InboundsSame, QuietSame DEF AddUser, TypeOK
  <2>3. UpdateUser({u}, {}, {}) /\ nodes' = nodes
    BY <1>1 DEF AddUser
  <2>4. QED
    BY <2>1, <2>2, <2>3, UpdateAgrees
<1>2. ASSUME NEW u \in Users, ModifyUser(u) PROVE P
  <2>1. \A v \in Users \ {u} : Quiet(v)
    <3> SUFFICES ASSUME NEW v \in Users, v # u PROVE Quiet(v)
      OBVIOUS
    <3>1. v \in activated' <=> v \in activated
      BY <1>2 DEF ModifyUser
    <3>2. services'[v] = services[v] /\ inbounds' = inbounds /\ key' = key
      BY <1>2 DEF ModifyUser, TypeOK
    <3>3. v \in Active' <=> v \in Active
      BY <1>2, ActiveSame DEF ModifyUser, TypeOK
    <3>4. QED
      BY <3>1, <3>2, <3>3, InboundsSame, QuietSame
  <2>2. nodes' = nodes /\ key' = key
    BY <1>2 DEF ModifyUser
  <2>3. CASE (InboundsOf[u] # InboundsOf'[u] /\ u \in Active') \/ ~(u \in Active <=> u \in Active')
    <3>1. /\ UpdateUser({u}, InboundsOf[u], IF u \in Active' THEN {} ELSE {u})
          /\ activated' = (activated \ {u}) \union ({u} \intersect Active')
      BY <1>2, <2>3 DEF ModifyUser
    <3>2. u \in (IF u \in Active' THEN {} ELSE {u}) <=> u \notin activated'
      BY <3>1
    <3>3. QED
      BY <2>1, <2>2, <3>1, <3>2, UpdateAgrees
  <2>4. CASE /\ InboundsOf[u] = InboundsOf'[u] \/ u \notin Active'
             /\ u \in Active <=> u \in Active'
    <3>1. activated' = activated /\ told' = told
      BY <1>2, <2>4 DEF ModifyUser
    <3>2. CASE u \in activated
      <4>1. inbounds' = inbounds
        BY <1>2 DEF ModifyUser
      <4>2. u \notin Active => services'[u] = services[u]
        BY <1>2, <3>2 DEF ModifyUser, TypeOK
      <4>3. InboundsOf'[u] = InboundsOf[u]
        BY <2>4, <4>1, <4>2, InboundsSame
      <4>4. Quiet(u)
        BY <2>2, <2>4, <3>1, <4>3, QuietSame
      <4>5. QED
        BY <1>a, <2>1, <2>2, <3>1, <4>4, RestAgrees
    <3>3. CASE u \notin activated
      <4>1. Quiet(u)
        BY <2>4, <3>1, <3>3, QuietCut DEF ActiveIsActivated
      <4>2. QED
        BY <1>a, <2>1, <2>2, <3>1, <4>1, RestAgrees
    <3>4. QED
      BY <3>2, <3>3
  <2>5. QED
    BY <2>3, <2>4
<1>3. ASSUME NEW u \in Users, RemoveUser(u) PROVE P
  <2>1. services' = services /\ inbounds' = inbounds /\ key' = key /\ nodes' = nodes
    BY <1>3 DEF RemoveUser
  <2>2. \A v \in Users \ {u} : Quiet(v)
    BY <1>3, <2>1, ActiveSame, InboundsSame, QuietSame DEF RemoveUser, TypeOK
  <2>3. UpdateUser({u}, {}, {u}) /\ u \notin activated'
    BY <1>3 DEF RemoveUser
  <2>4. InboundsOf'[u] = InboundsOf[u]
    BY <2>1, InboundsSame
  <2>5. QED
    BY <2>1, <2>2, <2>3, <2>4, UpdateAgrees
<1>4. ASSUME NEW u \in Users, ResetUsage(u) \/ EnableUser(u) PROVE P
  <2>1. services' = services /\ inbounds' = inbounds /\ key' = key /\ nodes' = nodes
    BY <1>4 DEF ResetUsage, EnableUser
  <2>2. \/ activated' = activated \union {u} /\ UpdateUser({u}, {}, {})
        \/ activated' = activated /\ told' = told /\ (u \in Active' => u \in Active)
    BY <1>4 DEF ResetUsage, EnableUser
  <2>3. \A v \in Users \ {u} : Quiet(v)
    <3> SUFFICES ASSUME NEW v \in Users, v # u PROVE Quiet(v)
      OBVIOUS
    <3>1. v \in Active' <=> v \in Active
      BY <1>4, ActiveSame DEF ResetUsage, EnableUser, TypeOK
    <3>2. QED
      BY <2>1, <2>2, <3>1, InboundsSame, QuietSame
  <2>4. InboundsOf'[u] = InboundsOf[u]
    BY <2>1, InboundsSame
  <2>5. CASE activated' = activated \union {u} /\ UpdateUser({u}, {}, {})
    BY <2>1, <2>3, <2>4, <2>5, UpdateAgrees
  <2>6. CASE activated' = activated /\ told' = told /\ (u \in Active' => u \in Active)
    <3>1. Quiet(u)
      BY <2>1, <2>4, <2>6, QuietSame
    <3>2. QED
      BY <1>a, <2>1, <2>3, <2>6, <3>1, RestAgrees
  <2>7. QED
    BY <2>2, <2>5, <2>6
<1>5. ASSUME NEW u \in Users, DisableUser(u) PROVE P
  <2>1. services' = services /\ inbounds' = inbounds /\ key' = key /\ nodes' = nodes
    BY <1>5 DEF DisableUser
  <2>2. \A v \in Users \ {u} : Quiet(v)
    BY <1>5, <2>1, ActiveSame, InboundsSame, QuietSame DEF DisableUser
  <2>3. UpdateUser({u}, {}, {u}) /\ u \notin activated'
    BY <1>5 DEF DisableUser
  <2>4. InboundsOf'[u] = InboundsOf[u]
    BY <2>1, InboundsSame
  <2>5. QED
    BY <2>1, <2>2, <2>3, <2>4, UpdateAgrees
<1>6. ASSUME NEW u \in Users, RevokeSub(u) PROVE P
  <2>1. services' = services /\ inbounds' = inbounds /\ nodes' = nodes /\ activated' = activated
    BY <1>6 DEF RevokeSub
  <2>2. Active' = Active
    BY <1>6 DEF RevokeSub, Active, Live, expired, data_limit_reached
  <2>3. \A v \in Users \ {u} : Quiet(v)
    BY <1>6, <2>1, <2>2, InboundsSame, QuietSame DEF RevokeSub, TypeOK
  <2>4. InboundsOf'[u] = InboundsOf[u]
    BY <2>1, InboundsSame
  <2>5. CASE u \in Active
    <3>1. UpdateUser({u}, {}, {}) /\ u \in activated'
      BY <1>6, <2>1, <2>5 DEF RevokeSub, ActiveIsActivated
    <3>2. QED
      BY <2>1, <2>3, <2>4, <3>1, UpdateAgrees
  <2>6. CASE u \notin Active
    <3>1. \A n \in Nodes : Serve'[n][u].tags = Serve[n][u].tags
      <4>1. ServeOK /\ ServeOK'
        BY ServeType, ServeTypePrime DEF TypeOK, RowsOK
      <4> TAKE n \in Nodes
      <4>2. Serve[n][u].tags = {i \in InboundsOf[u] : NodeOf[i] = n}
        BY <4>1 DEF ServeOK
      <4>3. Serve'[n][u].tags = {i \in InboundsOf'[u] : NodeOf[i] = n}
        BY <4>1 DEF ServeOK
      <4>4. QED
        BY <2>4, <4>2, <4>3
    <3>2. Quiet(u)
      BY <2>1, <2>2, <2>6, <3>1, ListedIs, ListedIsPrime DEF Quiet
    <3>3. told' = told
      BY <1>6, <2>6 DEF RevokeSub
    <3>4. QED
      BY <1>a, <2>1, <2>3, <3>2, <3>3, RestAgrees
  <2>7. QED
    BY <2>5, <2>6
<1>7. ~ResetAll /\ \A s \in Services : ~RemoveService(s)
  BY DEF ResetAll, RemoveService
<1>8. CASE DeleteExpired
  <2>1. PICK S \in SUBSET Live :
          /\ S \intersect activated = {}
          /\ row' = [u \in Users |-> IF u \in S THEN "removed" ELSE row[u]]
          /\ activated' = activated \ S
          /\ UNCHANGED <<enabled, limitVars, linkVars, nodes, told>>
    BY <1>8 DEF DeleteExpired
  <2>2. \A v \in Users : v \in Active' => v \in Active
    BY <2>1 DEF Active, Live, expired, data_limit_reached
  <2>3. \A v \in Users : Quiet(v)
    BY <2>1, <2>2, InboundsSame, QuietSame
  <2>4. QED
    BY <1>a, <2>1, <2>3, RestAgrees
<1>9. CASE DisableUsers
  <2>1. PICK S \in SUBSET (Live \intersect enabled) :
          /\ enabled' = enabled \ S
          /\ activated' = activated \ S
          /\ UNCHANGED <<row, limitVars, linkVars, nodes>>
          /\ UpdateUser(S \intersect activated, {}, S)
    BY <1>9 DEF DisableUsers
  <2>2. S \subseteq Users
    BY DEF Live
  <2>3. \A v \in Users : InboundsOf'[v] = InboundsOf[v]
    BY <2>1, InboundsSame
  <2>4. \A v \in Users \ S : Quiet(v)
    BY <2>1, <2>3, ActiveSame, QuietSame
  <2>5. \A v \in S \ activated : Quiet(v)
    BY <2>1, <2>2, QuietCut DEF ActiveIsActivated
  <2>6. QED
    BY <2>1, <2>2, <2>3, <2>4, <2>5, UpdateAgrees
<1>10. CASE EnableUsers
  <2>1. PICK S \in SUBSET (Live \ enabled) :
          /\ enabled' = enabled \union S
          /\ activated' = activated \union (S \intersect Active')
          /\ UNCHANGED <<row, limitVars, linkVars, nodes>>
          /\ UpdateUser(S \intersect Active', {}, {})
    BY <1>10 DEF EnableUsers
  <2>2. S \subseteq Users
    BY DEF Live
  <2>3. \A v \in Users : InboundsOf'[v] = InboundsOf[v]
    BY <2>1, InboundsSame
  <2>4. \A v \in Users \ S : Quiet(v)
    BY <2>1, <2>3, ActiveSame, QuietSame
  <2>5. \A v \in S \ Active' : Quiet(v)
    BY <2>1, <2>2, <2>3, QuietSame
  <2>6. QED
    BY <1>b, <2>1, <2>2, <2>3, <2>4, <2>5, UpdateAgrees
<1>11. ASSUME NEW s \in Services, ModifyService(s) PROVE P
  <2>1. PICK I \in SUBSET Inbounds :
          /\ inbounds' = [inbounds EXCEPT ![s] = I]
          /\ UNCHANGED <<flagVars, limitVars, services, key, nodes>>
          /\ UpdateUser({u \in activated : s \in services[u]}, inbounds[s], {})
    BY <1>11 DEF ModifyService
  <2>2. Active' = Active
    BY <2>1 DEF Active, Live, expired, data_limit_reached
  <2>3. \A v \in Users : s \notin services[v] => InboundsOf'[v] = InboundsOf[v]
    BY <2>1 DEF InboundsOf, TypeOK
  <2>4. \A v \in Users : InboundsOf[v] \subseteq InboundsOf'[v] \union inbounds[s]
    BY <2>1 DEF InboundsOf, TypeOK
  <2>5. \A v \in Users : v \notin activated \/ s \notin services[v] => Quiet(v)
    BY <2>1, <2>2, <2>3, QuietSame, QuietCut DEF ActiveIsActivated
  <2>6. activated \subseteq Users
    BY DEF TypeOK
  <2>7. QED
    BY <2>1, <2>4, <2>5, <2>6, UpdateAgrees
<1>12. CASE ReviewInactive
  <2> DEFINE S == (Live \intersect activated) \ Active
  <2>1. /\ activated' = activated \ S
        /\ UNCHANGED <<row, enabled, limitVars, linkVars, nodes>>
        /\ UpdateUser(S, {}, S)
    BY <1>12 DEF ReviewInactive
  <2>2. S \subseteq Users
    BY DEF Live
  <2>3. \A v \in Users : InboundsOf'[v] = InboundsOf[v]
    BY <2>1, InboundsSame
  <2>4. \A v \in Users \ S : Quiet(v)
    BY <2>1, <2>3, ActiveSame, QuietSame
  <2> HIDE DEF S
  <2>5. QED
    BY <2>1, <2>2, <2>3, <2>4, UpdateAgrees
<1>13. ASSUME NEW D \in SUBSET Users, ReviewOnHold(D) PROVE P
  <2>1. /\ UNCHANGED <<flagVars, used, limit, linkVars, nodes, told>>
        /\ \A v \in Users : expiry'[v] = expiry[v] \/ v \in Active
    BY <1>13 DEF ReviewOnHold
  <2>2. \A v \in Users : v \in Active' => v \in Active
    BY <2>1, ActiveSame
  <2>3. \A v \in Users : Quiet(v)
    BY <2>1, <2>2, InboundsSame, QuietSame
  <2>4. QED
    BY <1>a, <2>1, <2>3, RestAgrees
<1>14. ASSUME NEW u \in Users, RecordUsage(u) \/ Expire(u) PROVE P
  <2>1. UNCHANGED <<flagVars, limit, linkVars, nodes, told>>
    BY <1>14 DEF RecordUsage, Expire
  <2>2. \A v \in Users \ {u} : v \in Active' <=> v \in Active
    BY <1>14, ActiveSame DEF RecordUsage, Expire, TypeOK
  <2>3. u \in Active' => u \in Active
    <3>1. CASE RecordUsage(u)
      BY <3>1 DEF RecordUsage, TypeOK, Active, Live, expired, data_limit_reached
    <3>2. CASE Expire(u)
      BY <3>2 DEF Expire, TypeOK, Active, Live, expired
    <3>3. QED
      BY <1>14, <3>1, <3>2
  <2>4. \A v \in Users : Quiet(v)
    BY <2>1, <2>2, <2>3, InboundsSame, QuietSame
  <2>5. QED
    BY <1>a, <2>1, <2>4, RestAgrees
<1>15. ASSUME NEW n \in Nodes, NodeSynced(n) PROVE P
  <2>1. /\ nodes' = nodes \union {n}
        /\ told' = [told EXCEPT ![n] = Listed[n]]
        /\ UNCHANGED <<flagVars, limitVars, linkVars>>
    BY <1>15 DEF NodeSynced
  <2>2. Active' = Active
    BY <2>1 DEF Active, Live, expired, data_limit_reached
  <2>3. \A m \in Nodes, v \in Users : Listed'[m][v] = Listed[m][v]
    BY <2>1, InboundsSame, ServeSame, ListedIs, ListedIsPrime
  <2>4. \A m \in Nodes, v \in Users :
          told'[m][v] = IF m = n THEN Listed[m][v] ELSE told[m][v]
    BY <2>1 DEF TypeOK
  <2>5. \A v \in Users :
          /\ Listed[n][v].tags = {} => Listed[n][v] = Gone
          /\ \A i \in Listed[n][v].tags : NodeOf[i] = n
    <3>1. ServeOK
      BY ServeType DEF TypeOK, RowsOK
    <3>2. Gone.tags = {}
      BY DEF Gone
    <3>3. \A v \in Users : Listed[n][v] = Gone \/ Listed[n][v] = Serve[n][v]
      BY ListedIs
    <3>4. QED
      BY <3>1, <3>2, <3>3 DEF ServeOK
  <2>6. Normal'
    BY <2>4, <2>5 DEF Normal
  <2>7. Agreement'
    BY <1>a, <2>1, <2>2, <2>3, <2>4 DEF Agreement
  <2>8. QED
    BY <2>6, <2>7
<1>16. ASSUME NEW n \in Nodes, NodeLost(n) PROVE P
  <2>1. nodes' \subseteq nodes /\ UNCHANGED <<flagVars, limitVars, linkVars, told>>
    BY <1>16 DEF NodeLost
  <2>2. Active' = Active
    BY <2>1 DEF Active, Live, expired, data_limit_reached
  <2>3. \A v \in Users : Quiet(v)
    BY <2>1, <2>2, InboundsSame, QuietSame
  <2>4. QED
    BY <1>a, <2>1, <2>3, RestAgrees
<1>17. CASE UNCHANGED vars
  <2>1. UNCHANGED <<flagVars, limitVars, linkVars, nodes, told>>
    BY <1>17 DEF vars
  <2>2. Active' = Active
    BY <2>1 DEF Active, Live, expired, data_limit_reached
  <2>3. \A v \in Users : Quiet(v)
    BY <2>1, <2>2, InboundsSame, QuietSame
  <2>4. QED
    BY <1>a, <2>1, <2>3, RestAgrees
<1>18. QED
  BY <1>1, <1>2, <1>3, <1>4, <1>5, <1>6, <1>7, <1>8, <1>9, <1>10, <1>11, <1>12, <1>13,
     <1>14, <1>15, <1>16, <1>17
  DEF Next, UserRequest, BulkRequest

LEMMA AgreementInit == Init => Agreement /\ Normal
BY DEF Init, Agreement, Normal, Gone

LEMMA AgreementInvariant ==
  Loose = {} => (Spec => [](DeadAreCut /\ Normal /\ Agreement))
<1> SUFFICES ASSUME Loose = {} PROVE Spec => [](DeadAreCut /\ Normal /\ Agreement)
  OBVIOUS
<1>1. Init => ActiveIsActivated /\ DeadAreCut
  BY DEF Init, ActiveIsActivated, DeadAreCut, Active, Live
<1>2. TypeOK /\ ActiveIsActivated /\ DeadAreCut /\ [Next]_vars
        => ActiveIsActivated' /\ DeadAreCut'
  BY FlagsStep
<1>3. TypeOK /\ TypeOK' /\ ActiveIsActivated /\ ActiveIsActivated' /\ DeadAreCut
        /\ Normal /\ Agreement /\ [Next]_vars
        => Agreement' /\ Normal'
  BY AgreementStep
<1>4. QED
  BY <1>1, <1>2, <1>3, AgreementInit, UserTypeCorrect, PTL DEF Spec

(* Without the operations of Loose, a synchronised node serves exactly what
   list_users would give it. *)
THEOREM NodesAgree == Loose = {} => (Spec => []Agreement)
<1>1. CASE Loose = {}
  <2>1. Spec => [](DeadAreCut /\ Normal /\ Agreement)
    BY <1>1, AgreementInvariant
  <2>2. QED
    BY <2>1, PTL
<1>2. QED
  BY <1>1

(* Nor does such a node serve a removed user. *)
THEOREM RemovedAreGone == Loose = {} => (Spec => []RemovedIsGone)
<1> SUFFICES ASSUME Loose = {} PROVE Spec => []RemovedIsGone
  OBVIOUS
<1>1. TypeOK /\ DeadAreCut /\ Normal /\ Agreement => RemovedIsGone
  <2> SUFFICES ASSUME TypeOK, DeadAreCut, Normal, Agreement,
                      NEW n \in nodes, NEW u \in Users, row[u] = "removed"
               PROVE  told[n][u] = Gone
    BY DEF RemovedIsGone
  <2>1. u \notin activated /\ n \in Nodes
    BY DEF DeadAreCut, TypeOK
  <2>2. Listed[n][u] = Gone
    BY <2>1, ListedIs
  <2>3. told[n][u].tags = {}
    BY <2>2 DEF Agreement, Gone
  <2>4. QED
    BY <2>1, <2>3 DEF Normal
<1>2. QED
  BY <1>1, AgreementInvariant, UserTypeCorrect, PTL

-----------------------------------------------------------------------------
(* What is handed to nodes *)

Served == activated \union Active

Handed == \A n \in Nodes, u \in Users : told'[n][u] \notin {told[n][u], Gone} => u \in Served'

(* update_user hands nothing but what it was called for. *)
LEMMA UpdateHands ==
  ASSUME NEW S, NEW old, NEW gone, UpdateUser(S, old, gone), S \ gone \subseteq Served'
  PROVE  Handed
BY DEF UpdateUser, Handed

(* Whatever happens, also the operations of Loose, a user is handed to a node
   only while it is activated or active. *)
THEOREM OnlyServedHanded == Spec => OnlyServedAreHanded
<1>1. [Next]_vars => Handed \/ UNCHANGED vars
  <2> SUFFICES ASSUME Next PROVE Handed
    OBVIOUS
  <2> USE DEF Served
  <2>0. ASSUME UNCHANGED told PROVE Handed
    BY <2>0 DEF Handed
  <2>1. ASSUME NEW u \in Users, AddUser(u) PROVE Handed
    BY <2>1, UpdateHands DEF AddUser
  <2>2. ASSUME NEW u \in Users, ModifyUser(u) PROVE Handed
    <3>1. CASE UNCHANGED told
      BY <2>0, <3>1
    <3>2. CASE UpdateUser({u}, InboundsOf[u], IF u \in Active' THEN {} ELSE {u})
      <4>1. {u} \ (IF u \in Active' THEN {} ELSE {u}) \subseteq Served'
        OBVIOUS
      <4>2. QED
        BY <3>2, <4>1, UpdateHands
    <3>3. QED
      BY <2>2, <3>1, <3>2 DEF ModifyUser
  <2>3. ASSUME NEW u \in Users, RemoveUser(u) PROVE Handed
    BY <2>3, UpdateHands DEF RemoveUser
  <2>4. ASSUME NEW u \in Users, ResetUsage(u) PROVE Handed
    BY <2>0, <2>4, UpdateHands DEF ResetUsage
  <2>5. ASSUME NEW u \in Users, EnableUser(u) PROVE Handed
    BY <2>0, <2>5, UpdateHands DEF EnableUser
  <2>6. ASSUME NEW u \in Users, DisableUser(u) PROVE Handed
    BY <2>6, UpdateHands DEF DisableUser
  <2>7. ASSUME NEW u \in Users, RevokeSub(u) PROVE Handed
    <3>1. Active' = Active
      BY <2>7 DEF RevokeSub, flagVars, limitVars, Active, Live, expired, data_limit_reached
    <3>2. QED
      BY <2>0, <2>7, <3>1, UpdateHands DEF RevokeSub
  <2>8. ASSUME DisableUsers PROVE Handed
    <3>1. PICK S \in SUBSET (Live \intersect enabled) : UpdateUser(S \intersect activated, {}, S)
      BY <2>8 DEF DisableUsers
    <3>2. QED
      BY <3>1, UpdateHands
  <2>9. ASSUME EnableUsers PROVE Handed
    <3>1. PICK S \in SUBSET (Live \ enabled) : UpdateUser(S \intersect Active', {}, {})
      BY <2>9 DEF EnableUsers
    <3>2. QED
      BY <3>1, UpdateHands
  <2>10. ASSUME NEW s \in Services, ModifyService(s) PROVE Handed
    <3>1. /\ UpdateUser({u \in activated : s \in services[u]}, inbounds[s], {})
          /\ activated' = activated
      BY <2>10 DEF ModifyService, flagVars
    <3>2. QED
      BY <3>1, UpdateHands
  <2>11. ASSUME ReviewInactive PROVE Handed
    <3>1. UpdateUser((Live \intersect activated) \ Active, {}, (Live \intersect activated) \ Active)
      BY <2>11 DEF ReviewInactive
    <3>2. QED
      BY <3>1, UpdateHands
  <2>12. ASSUME NEW n \in Nodes, NodeSynced(n) PROVE Handed
    <3>1. activated' = activated
      BY <2>12 DEF NodeSynced, flagVars
    <3>2. \A m \in Nodes, u \in Users : told'[m][u] \in {told[m][u], Listed[n][u]}
      BY <2>12 DEF NodeSynced
    <3>3. \A u \in Users : u \notin activated => Listed[n][u] = Gone
      BY ListedIs
    <3>4. QED
      BY <3>1, <3>2, <3>3 DEF Handed
  <2>13. CASE ResetAll
    BY <2>0, <2>13 DEF ResetAll
  <2>14. CASE DeleteExpired
    BY <2>0, <2>14 DEF DeleteExpired
  <2>15. ASSUME NEW s \in Services, RemoveService(s) PROVE Handed
    BY <2>0, <2>15 DEF RemoveService
  <2>16. ASSUME NEW D \in SUBSET Users, ReviewOnHold(D) PROVE Handed
    BY <2>0, <2>16 DEF ReviewOnHold
  <2>17. ASSUME NEW u \in Users, RecordUsage(u) \/ Expire(u) PROVE Handed
    BY <2>0, <2>17 DEF RecordUsage, Expire
  <2>18. ASSUME NEW n \in Nodes, NodeLost(n) PROVE Handed
    BY <2>0, <2>18 DEF NodeLost
  <2>19. QED
    BY <2>1, <2>2, <2>3, <2>4, <2>5, <2>6, <2>7, <2>8, <2>9, <2>10, <2>11, <2>12, <2>13,
       <2>14, <2>15, <2>16, <2>17, <2>18
    DEF Next, UserRequest, BulkRequest
<1>2. [Next]_vars =>
       [\A n \in Nodes, u \in Users :
          told'[n][u] \notin {told[n][u], Gone} => u \in activated' \union Active']_vars
  BY <1>1 DEF Handed, Served
<1>3. QED
  BY <1>2, PTL DEF Spec, OnlyServedAreHanded
=============================================================================
