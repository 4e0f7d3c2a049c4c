---------------------------- MODULE NodeSync_proofs ----------------------------
(***************************************************************************)
(* Proofs about NodeSync, for every value of its constants: any number of  *)
(* users, streaming tasks and commits, any queue size, any number of       *)
(* faults.                                                                 *)
(***************************************************************************)
EXTENDS NodeSync, SeqFacts

USE NodeSyncAssumption

-----------------------------------------------------------------------------
(* The empty queue. *)
LEMMA EmptyUpdates == <<>> \in Seq(Update) /\ Len(<<>>) = 0
  OBVIOUS

(* Who is crowded is a user. *)
LEMMA CrowdUsers == \A rs, ps : Crowd(rs, ps) \subseteq Users
  BY DEF Crowd

(* Every variable keeps its type; the queue never exceeds its capacity,
   whichever task was woken, overtaken or blocked again. *)
THEOREM TypeCorrect == Spec => []TypeOK
<1> USE EmptyUpdates
<1>1. Init => TypeOK
  <2> SUFFICES ASSUME Init PROVE TypeOK
    OBVIOUS
  <2>1. pc \in [Callers -> Phases]
    BY DEF Init, Phases
  <2>2. snap \in [Callers -> [Users -> Nat]] /\ table \in [Users -> Nat]
    BY DEF Init, Nobody
  <2>3. /\ ready \in Seq(Update) /\ updates_queue \in Seq(Update) /\ putters \in Seq(Update)
        /\ Len(updates_queue) <= QueueSize
    BY DEF Init
  <2>4. held \in [Streams -> Seq(Update)] /\ wire \in [Streams -> Seq(Update)]
    BY DEF Init
  <2>5. call \in [Streams -> Calls] /\ kept \in BOOLEAN /\ crowded \subseteq Users
    BY DEF Init, Calls
  <2>6. QED
    BY <2>1, <2>2, <2>3, <2>4, <2>5 DEF Init, TypeOK
<1>2. TypeOK /\ [Next]_vars => TypeOK'
  <2> SUFFICES ASSUME TypeOK, [Next]_vars
               PROVE  TypeOK'
    OBVIOUS
  <2> USE DEF TypeOK, boundVars, nodeVars, syncVars, streamVars, panelVars, Phases, InFlight, Calls
  <2>1. ASSUME NEW u \in Users, ChangeUser(u) PROVE TypeOK'
    <3>1. [user |-> u, version |-> db[u] + 1] \in Update /\ db' \in [Users -> Nat]
      BY <2>1 DEF ChangeUser, Update
    <3>2. ready' \in Seq(Update)
      BY <2>1, <3>1, ToSetAppend DEF ChangeUser
    <3>3. crowded' \subseteq Users
      BY <2>1, CrowdUsers DEF ChangeUser
    <3>4. QED
      BY <2>1, <3>1, <3>2, <3>3 DEF ChangeUser
  <2>2. CASE PutUpdate
    <3>1. Head(ready) \in Update /\ Tail(ready) \in Seq(Update)
      BY <2>2 DEF PutUpdate
    <3>2. /\ Append(updates_queue, Head(ready)) \in Seq(Update)
          /\ Append(putters, Head(ready)) \in Seq(Update)
          /\ Len(Append(updates_queue, Head(ready))) = Len(updates_queue) + 1
      BY <3>1
    <3>3. updates_queue' \in Seq(Update) /\ Len(updates_queue') <= QueueSize
      <4>1. Len(updates_queue) \in Nat /\ QueueSize \in Nat
        OBVIOUS
      <4>2. CASE Len(updates_queue) < QueueSize
        <5>1. updates_queue' = Append(updates_queue, Head(ready))
          BY <2>2, <4>1, <4>2 DEF PutUpdate
        <5>2. Len(updates_queue) + 1 <= QueueSize
          BY <4>1, <4>2
        <5>3. QED
          BY <3>2, <5>1, <5>2
      <4>3. CASE Len(updates_queue) >= QueueSize
        BY <2>2, <3>2, <4>1, <4>3 DEF PutUpdate
      <4>4. QED
        BY <4>1, <4>2, <4>3
    <3>4. crowded' \subseteq Users
      BY <2>2, CrowdUsers DEF PutUpdate
    <3>5. QED
      BY <2>2, <3>1, <3>2, <3>3, <3>4 DEF PutUpdate
  <2>3. ASSUME NEW s \in Streams, TakeUpdate(s) PROVE TypeOK'
    <3>1. /\ Head(updates_queue) \in Update
          /\ Tail(updates_queue) \in Seq(Update)
          /\ Len(Tail(updates_queue)) <= QueueSize
      BY <2>3 DEF TakeUpdate
    <3>2. putters # <<>> => Head(putters) \in Update /\ Tail(putters) \in Seq(Update)
      OBVIOUS
    <3>3. <<Head(updates_queue)>> \in Seq(Update)
      BY <3>1, ToSetSingle
    <3>4. held' \in [Streams -> Seq(Update)]
      BY <2>3, <3>3 DEF TakeUpdate
    <3>5. ready' \in Seq(Update) /\ putters' \in Seq(Update)
      <4>1. CASE putters = <<>>
        BY <2>3, <4>1 DEF TakeUpdate
      <4>2. CASE putters # <<>>
        <5>1. ready' = Append(ready, Head(putters)) /\ putters' = Tail(putters)
          BY <2>3, <4>2 DEF TakeUpdate
        <5>2. QED
          BY <5>1, <3>2, <4>2, ToSetAppend
      <4>3. QED
        BY <4>1, <4>2
    <3>6. QED
      BY <2>3, <3>1, <3>4, <3>5 DEF TakeUpdate
  <2>4. ASSUME NEW s \in Streams, SendUpdate(s) PROVE TypeOK'
    <3>1. wire[s] \o held[s] \in Seq(Update) /\ <<>> \in Seq(Update)
      BY <2>4, ToSetConcat
    <3>2. QED
      BY <2>4, <3>1 DEF SendUpdate
  <2>5. ASSUME NEW s \in Streams, SendFails(s) PROVE TypeOK'
    BY <2>5 DEF SendFails
  <2>6. ASSUME NEW c \in Callers, ListUsers(c) PROVE TypeOK'
    BY <2>6 DEF ListUsers
  <2>7. ASSUME NEW c \in Callers, NodeRepopulate(c) PROVE TypeOK'
    BY <2>7 DEF NodeRepopulate, Larger, Nobody
  <2>8. CASE MonitorConnected
    BY <2>8 DEF MonitorConnected, Callers
  <2>9. CASE MonitorTimeout
    BY <2>9 DEF MonitorTimeout, Callers
  <2>10. ASSUME NEW s \in Streams, MonitorSynced(s) PROVE TypeOK'
    BY <2>10 DEF MonitorSynced, Callers
  <2>11. CASE MonitorSyncFails
    BY <2>11 DEF MonitorSyncFails, Callers, Nobody
  <2>12. CASE MonitorWakes
    BY <2>12 DEF MonitorWakes, Callers
  <2>13. CASE RestartBackend
    BY <2>13 DEF RestartBackend, Callers
  <2>14. CASE BackendRestarted
    BY <2>14 DEF BackendRestarted, Callers
  <2>15. CASE RestartSynced
    BY <2>15 DEF RestartSynced, Callers
  <2>16. CASE RestartFails
    BY <2>16 DEF RestartFails, Callers, Nobody
  <2>17. CASE Stop
    BY <2>17 DEF Stop
  <2>18. ASSUME NEW s \in Streams, NodeReceive(s) PROVE TypeOK'
    <3>1. /\ Head(wire[s]) \in Update
          /\ Tail(wire[s]) \in Seq(Update)
      BY <2>18 DEF NodeReceive
    <3>2. Head(wire[s]).user \in Users /\ Head(wire[s]).version \in Nat
      BY <3>1 DEF Update
    <3>3. QED
      BY <2>18, <3>1, <3>2 DEF NodeReceive, Larger
  <2>19. CASE Disconnect
    <3>1. wire' \in [Streams -> Seq(Update)]
      BY <2>19 DEF Disconnect
    <3>2. pc' \in [Callers -> Phases]
      BY <2>19 DEF Disconnect
    <3>3. table' \in [Users -> Nat] /\ heard' \in [Users -> Nat]
      <4>1. Nobody \in [Users -> Nat]
        BY DEF Nobody
      <4>2. \/ table' = table /\ heard' = heard
            \/ table' = Nobody /\ heard' = Nobody
        BY <2>19 DEF Disconnect
      <4>3. QED
        BY <4>1, <4>2
    <3>4. /\ faults' \in Nat
          /\ call' \in [Streams -> Calls] /\ kept' \in BOOLEAN
          /\ reachable' \in BOOLEAN
      <4>1. faults' \in Nat
        BY <2>19 DEF Disconnect, Fault
      <4>2. call' \in [Streams -> Calls] /\ kept' \in BOOLEAN
        BY <2>19 DEF Disconnect
      <4>3. reachable' \in BOOLEAN
        BY <2>19 DEF Disconnect
      <4>4. QED
        BY <4>1, <4>2, <4>3
    <3>5. UNCHANGED <<db, panelVars, streaming_task, live, held, synced, status, snap,
                      stopped, restarts>>
      BY <2>19 DEF Disconnect
    <3>6. QED
      BY <3>1, <3>2, <3>3, <3>4, <3>5
  <2>20. CASE Reconnect
    BY <2>20 DEF Reconnect
  <2>21. ASSUME NEW s \in Streams, StreamReset(s) PROVE TypeOK'
    BY <2>21 DEF StreamReset, Fault
  <2>22. CASE CallFails
    BY <2>22 DEF CallFails, Fault, Callers
  <2>23. CASE PanelRestart
    <3>1. wire' \in [Streams -> Seq(Update)] /\ held' \in [Streams -> Seq(Update)]
      BY <2>23 DEF PanelRestart
    <3>2. pc' \in [Callers -> Phases]
      BY <2>23 DEF PanelRestart
    <3>3. snap' \in [Callers -> [Users -> Nat]]
      BY <2>23 DEF PanelRestart, Nobody
    <3>4. faults' \in Nat /\ kept' \in BOOLEAN /\ crowded' \subseteq Users
      <4>1. faults' = faults + 1 /\ kept' = FALSE /\ crowded' = {}
        BY <2>23 DEF PanelRestart, Fault
      <4>2. faults' \in Nat
        BY <4>1
      <4>3. kept' \in BOOLEAN
        BY <4>1
      <4>4. crowded' \subseteq Users
        BY <4>1
      <4>5. QED
        BY <4>2, <4>3, <4>4
    <3>5. /\ ready' \in Seq(Update) /\ putters' \in Seq(Update)
          /\ updates_queue' \in Seq(Update) /\ Len(updates_queue') <= QueueSize
      BY <2>23 DEF PanelRestart
    <3>6. /\ streaming_task' \in Streams \union {NoStream}
          /\ live' \subseteq Streams
          /\ synced' \in BOOLEAN
          /\ UNCHANGED <<db, status, nodeVars, stopped, restarts>>
      BY <2>23 DEF PanelRestart
    <3>7. call' \in [Streams -> Calls]
      BY <2>23 DEF PanelRestart
    <3>8. QED
      BY <3>1, <3>2, <3>3, <3>4, <3>5, <3>6, <3>7
  <2>24. CASE UNCHANGED vars
    BY <2>24 DEF vars
  <2>25. "monitor" \in Callers /\ "restart" \in Callers
    BY DEF Callers
  <2>26. QED
    BY <2>1, <2>2, <2>3, <2>4, <2>5, <2>6, <2>7, <2>8, <2>9, <2>10, <2>11, <2>12,
       <2>13, <2>14, <2>15, <2>16, <2>17, <2>18, <2>19, <2>20, <2>21, <2>22,
       <2>23, <2>24, <2>25
    DEF Next, Stream, Monitor, Restart
<1>3. QED
  BY <1>1, <1>2, PTL DEF Spec
-----------------------------------------------------------------------------
(* Where an update is, before and after a step *)

(* An update is pending when it waits to be taken, is held by a task, or is on
   a wire. *)
LEMMA PendingMember ==
  ASSUME NEW m
  PROVE  m \in Pending <=>
           \/ m \in Queued
           \/ \E s \in Streams : m \in ToSet(held[s]) \/ m \in ToSet(wire[s])
  BY DEF Pending

(* Updates are records of a user and a version. *)
LEMMA PendingType == TypeOK => Pending \subseteq Update
<1> SUFFICES ASSUME TypeOK, NEW m \in Pending PROVE m \in Update
  OBVIOUS
<1>1. ASSUME NEW q \in Seq(Update), m \in ToSet(q) PROVE m \in Update
  BY <1>1 DEF ToSet
<1>2. QED
  BY <1>1, PendingMember DEF TypeOK, Queued

(* A new task adds its update to what is queued. *)
LEMMA ChangeQueues ==
  ASSUME TypeOK, NEW u \in Users, ChangeUser(u)
  PROVE  /\ Newest(u)' = [user |-> u, version |-> db[u] + 1]
         /\ Queued' = Queued \union {Newest(u)'}
         /\ Pending' = Pending \union {Newest(u)'}
<1>1. /\ ready' = Append(ready, [user |-> u, version |-> db[u] + 1])
      /\ db' = [db EXCEPT ![u] = db[u] + 1]
      /\ UNCHANGED <<updates_queue, putters, held, wire>>
  BY DEF ChangeUser, streamVars
<1>2. Newest(u)' = [user |-> u, version |-> db[u] + 1]
  BY <1>1 DEF Newest, TypeOK
<1>3. [user |-> u, version |-> db[u] + 1] \in Update
  BY DEF TypeOK, Update
<1>4. ToSet(ready') = ToSet(ready) \union {Newest(u)'}
  BY <1>1, <1>2, <1>3, ToSetAppend DEF TypeOK
<1>5. QED
  BY <1>1, <1>2, <1>4 DEF Queued, Pending

(* put only moves an update between the places where it waits. *)
LEMMA PutKeepsQueued ==
  ASSUME TypeOK, PutUpdate
  PROVE  Queued' = Queued /\ Pending' = Pending
<1>1. ready \in Seq(Update) /\ ready # <<>>
  BY DEF PutUpdate, TypeOK
<1>2. /\ ready' = Tail(ready)
      /\ Head(ready) \in Update
      /\ ToSet(ready) = {Head(ready)} \union ToSet(ready')
  BY <1>1, ToSetHeadTail DEF PutUpdate
<1>3. \/ /\ updates_queue' = Append(updates_queue, Head(ready))
         /\ putters' = putters
      \/ /\ putters' = Append(putters, Head(ready))
         /\ updates_queue' = updates_queue
  BY DEF PutUpdate
<1>4. ToSet(updates_queue') \union ToSet(putters')
        = ToSet(updates_queue) \union ToSet(putters) \union {Head(ready)}
  <2>1. /\ ToSet(Append(updates_queue, Head(ready))) = ToSet(updates_queue) \union {Head(ready)}
        /\ ToSet(Append(putters, Head(ready))) = ToSet(putters) \union {Head(ready)}
    BY <1>2, ToSetAppend DEF TypeOK
  <2>2. CASE updates_queue' = Append(updates_queue, Head(ready)) /\ putters' = putters
    <3>1. ToSet(updates_queue') = ToSet(updates_queue) \union {Head(ready)}
      BY <2>1, <2>2
    <3>2. QED
      BY <2>2, <3>1
  <2>3. CASE putters' = Append(putters, Head(ready)) /\ updates_queue' = updates_queue
    <3>1. ToSet(putters') = ToSet(putters) \union {Head(ready)}
      BY <2>1, <2>3
    <3>2. QED
      BY <2>3, <3>1
  <2>4. QED
    BY <1>3, <2>2, <2>3
<1>5. Queued' = Queued
  BY <1>2, <1>4 DEF Queued
<1>6. held' = held /\ wire' = wire
  BY DEF PutUpdate, streamVars
<1>7. QED
  BY <1>5, <1>6 DEF Pending

(* get moves one update from the queue to the task, and one from the blocked
   tasks to the ready ones. *)
LEMMA TakeKeepsPending ==
  ASSUME TypeOK, NEW s \in Streams, TakeUpdate(s)
  PROVE  Pending' = Pending
<1>1. updates_queue \in Seq(Update) /\ updates_queue # <<>>
  BY DEF TakeUpdate, TypeOK
<1>2. /\ updates_queue' = Tail(updates_queue)
      /\ Head(updates_queue) \in Update
      /\ ToSet(updates_queue) = {Head(updates_queue)} \union ToSet(updates_queue')
  BY <1>1, ToSetHeadTail DEF TakeUpdate
<1>3. ToSet(ready') \union ToSet(putters') = ToSet(ready) \union ToSet(putters)
  <2>1. CASE putters = <<>>
    BY <2>1 DEF TakeUpdate
  <2>2. CASE putters # <<>>
    <3>1. ready' = Append(ready, Head(putters)) /\ putters' = Tail(putters)
      BY <2>2 DEF TakeUpdate
    <3>2. /\ Head(putters) \in Update
          /\ ToSet(putters) = {Head(putters)} \union ToSet(putters')
      BY <2>2, <3>1, ToSetHeadTail DEF TypeOK
    <3>3. ToSet(ready') = ToSet(ready) \union {Head(putters)}
      BY <3>1, <3>2, ToSetAppend DEF TypeOK
    <3>4. QED
      BY <3>2, <3>3
  <2>3. QED
    BY <2>1, <2>2
<1>4. Queued = Queued' \union {Head(updates_queue)}
  BY <1>2, <1>3 DEF Queued
<1>5. /\ held[s] = <<>> /\ ToSet(held[s]) = {}
      /\ held' = [held EXCEPT ![s] = <<Head(updates_queue)>>]
      /\ wire' = wire
  BY ToSetEmpty DEF TakeUpdate
<1>6. /\ ToSet(held'[s]) = {Head(updates_queue)}
      /\ \A t \in Streams \ {s} : held'[t] = held[t]
  BY <1>2, <1>5, ToSetSingle DEF TypeOK
<1>7. ASSUME NEW m PROVE m \in Pending' <=> m \in Pending
  <2>1. m \in Pending' <=>
           \/ m \in Queued'
           \/ \E t \in Streams : m \in ToSet(held'[t]) \/ m \in ToSet(wire'[t])
    BY DEF Pending
  <2>2. QED
    BY <1>4, <1>5, <1>6, <2>1, PendingMember
<1>8. QED
  BY <1>7

(* Sending moves the update to the wire, or loses it on a call that ended. *)
LEMMA SendMoves ==
  ASSUME TypeOK, NEW s \in Streams, SendUpdate(s)
  PROVE  /\ Pending' \subseteq Pending
         /\ call[s] # "ended" => Pending' = Pending
<1>1. /\ Queued' = Queued
      /\ held' = [held EXCEPT ![s] = <<>>]
      /\ wire' = IF call[s] = "ended" THEN wire ELSE [wire EXCEPT ![s] = wire[s] \o held[s]]
  BY DEF SendUpdate, panelVars, Queued
<1>2. /\ \A t \in Streams \ {s} : held'[t] = held[t] /\ wire'[t] = wire[t]
      /\ ToSet(held'[s]) = {}
  BY <1>1, ToSetEmpty DEF TypeOK
<1>3. ToSet(wire[s] \o held[s]) = ToSet(wire[s]) \union ToSet(held[s])
  BY ToSetConcat DEF TypeOK
<1>4. /\ call[s] # "ended" => ToSet(wire'[s]) = ToSet(wire[s]) \union ToSet(held[s])
      /\ call[s] = "ended" => wire'[s] = wire[s]
  BY <1>1, <1>3 DEF TypeOK
<1>5. ASSUME NEW m
      PROVE  /\ m \in Pending' => m \in Pending
             /\ call[s] # "ended" /\ m \in Pending => m \in Pending'
  <2>1. m \in Pending' <=>
           \/ m \in Queued'
           \/ \E t \in Streams : m \in ToSet(held'[t]) \/ m \in ToSet(wire'[t])
    BY DEF Pending
  <2>2. QED
    BY <1>1, <1>2, <1>4, <2>1, PendingMember
<1>6. QED
  BY <1>5

(* Cutting tasks or wires adds nothing to what is pending. *)
LEMMA CutShrinks ==
  ASSUME Queued' \subseteq Queued,
         \A s \in Streams : held'[s] \in {held[s], <<>>} /\ wire'[s] \in {wire[s], <<>>}
  PROVE  Pending' \subseteq Pending
<1>1. \A s \in Streams : /\ ToSet(held'[s]) \subseteq ToSet(held[s])
                         /\ ToSet(wire'[s]) \subseteq ToSet(wire[s])
  BY ToSetEmpty
<1>2. SUFFICES ASSUME NEW m \in Pending' PROVE m \in Pending
  OBVIOUS
<1>3. \/ m \in Queued'
      \/ \E t \in Streams : m \in ToSet(held'[t]) \/ m \in ToSet(wire'[t])
  BY DEF Pending
<1>4. QED
  BY <1>1, <1>3, PendingMember

(* The node takes the first update off a wire. *)
LEMMA ReceiveMoves ==
  ASSUME TypeOK, NEW s \in Streams, NodeReceive(s)
  PROVE  /\ Head(wire[s]) \in Pending
         /\ Queued' = Queued
         /\ Pending = Pending' \union {Head(wire[s])}
<1>1. /\ wire[s] \in Seq(Update) /\ wire[s] # <<>>
      /\ wire' = [wire EXCEPT ![s] = Tail(wire[s])]
      /\ held' = held
      /\ Queued' = Queued
  BY DEF NodeReceive, TypeOK, panelVars, Queued
<1>2. /\ ToSet(wire[s]) = {Head(wire[s])} \union ToSet(wire'[s])
      /\ \A t \in Streams \ {s} : wire'[t] = wire[t]
  BY <1>1, ToSetHeadTail DEF TypeOK
<1>3. ASSUME NEW m PROVE m \in Pending <=> m \in Pending' \/ m = Head(wire[s])
  <2>1. m \in Pending' <=>
           \/ m \in Queued'
           \/ \E t \in Streams : m \in ToSet(held'[t]) \/ m \in ToSet(wire'[t])
    BY DEF Pending
  <2>2. QED
    BY <1>1, <1>2, <2>1, PendingMember
<1>4. QED
  BY <1>1, <1>3

-----------------------------------------------------------------------------
(* Only committed configurations travel *)

(* A step that commits nothing, gives the node nothing and spawns no update
   cannot break OnlyCommitted. *)
LEMMA CommittedKept ==
  ASSUME OnlyCommitted, Pending' \subseteq Pending,
         db' = db, snap' = snap, table' = table, heard' = heard
  PROVE  OnlyCommitted'
  BY DEF OnlyCommitted

(* The steps that touch neither the queues nor a wire. *)
LEMMA PendingKept ==
  ASSUME UNCHANGED <<panelVars, held, wire>>
  PROVE  Queued' = Queued /\ Pending' = Pending
  BY DEF panelVars, Queued, Pending

(* Nothing uncommitted reaches the node: not over the wire, not in a snapshot. *)
LEMMA CommittedStep == TypeOK /\ OnlyCommitted /\ [Next]_vars => OnlyCommitted'
<1> SUFFICES ASSUME TypeOK, OnlyCommitted, [Next]_vars
             PROVE  OnlyCommitted'
  OBVIOUS
<1> USE DEF boundVars, nodeVars, syncVars, streamVars
<1>1. ASSUME NEW u \in Users, ChangeUser(u) PROVE OnlyCommitted'
  <2>1. /\ db' = [db EXCEPT ![u] = db[u] + 1]
        /\ snap' = snap /\ table' = table /\ heard' = heard
    BY <1>1 DEF ChangeUser
  <2>2. /\ \A v \in Users : db'[v] \in Nat /\ db[v] \in Nat /\ db[v] <= db'[v]
        /\ db'[u] = db[u] + 1
    BY <2>1 DEF TypeOK
  <2>3. Pending' = Pending \union {[user |-> u, version |-> db[u] + 1]}
    BY <1>1, ChangeQueues
  <2>4. ASSUME NEW m \in Pending' PROVE m.version <= db'[m.user]
    <3>1. CASE m = [user |-> u, version |-> db[u] + 1]
      BY <2>2, <3>1
    <3>2. CASE m \in Pending
      <4>1. m.user \in Users /\ m.version \in Nat /\ m.version <= db[m.user]
        BY <3>2, PendingType DEF Update, OnlyCommitted
      <4>2. QED
        BY <2>2, <4>1
    <3>3. QED
      BY <2>3, <2>4, <3>1, <3>2
  <2>5. \A c \in Callers, v \in Users : snap'[c][v] <= db'[v]
    <3> SUFFICES ASSUME NEW c \in Callers, NEW v \in Users PROVE snap'[c][v] <= db'[v]
      OBVIOUS
    <3>1. snap[c][v] \in Nat /\ snap[c][v] <= db[v]
      BY DEF OnlyCommitted, TypeOK
    <3>2. QED
      BY <2>1, <2>2, <3>1
  <2>6. \A v \in Users : table'[v] <= db'[v] /\ heard'[v] <= db'[v]
    <3> SUFFICES ASSUME NEW v \in Users PROVE table'[v] <= db'[v] /\ heard'[v] <= db'[v]
      OBVIOUS
    <3>1. /\ table[v] \in Nat /\ table[v] <= db[v]
          /\ heard[v] \in Nat /\ heard[v] <= db[v]
      BY DEF OnlyCommitted, TypeOK
    <3>2. QED
      BY <2>1, <2>2, <3>1
  <2>7. QED
    BY <2>4, <2>5, <2>6 DEF OnlyCommitted
<1>2. CASE PutUpdate
  BY <1>2, PutKeepsQueued, CommittedKept DEF PutUpdate
<1>3. ASSUME NEW s \in Streams, TakeUpdate(s) PROVE OnlyCommitted'
  BY <1>3, TakeKeepsPending, CommittedKept DEF TakeUpdate
<1>4. ASSUME NEW s \in Streams, SendUpdate(s) PROVE OnlyCommitted'
  BY <1>4, SendMoves, CommittedKept DEF SendUpdate
<1>5. ASSUME NEW s \in Streams, SendFails(s) PROVE OnlyCommitted'
  <2>1. /\ Queued' = Queued /\ wire' = wire
        /\ \A t \in Streams : held'[t] \in {held[t], <<>>}
    BY <1>5 DEF SendFails, Queued, panelVars, TypeOK
  <2>2. Pending' \subseteq Pending
    BY <2>1, CutShrinks
  <2>3. QED
    BY <1>5, <2>2, CommittedKept DEF SendFails
<1>6. ASSUME NEW c \in Callers, ListUsers(c) PROVE OnlyCommitted'
  <2>1. /\ Pending' = Pending
        /\ db' = db /\ table' = table /\ heard' = heard
        /\ snap' = [snap EXCEPT ![c] = db]
    BY <1>6, PendingKept DEF ListUsers
  <2>2. \A k \in Callers, u \in Users : snap'[k][u] <= db'[u]
    BY <2>1 DEF TypeOK, OnlyCommitted
  <2>3. QED
    BY <2>1, <2>2 DEF OnlyCommitted
<1>7. ASSUME NEW c \in Callers, NodeRepopulate(c) PROVE OnlyCommitted'
  <2>1. /\ Pending' = Pending
        /\ db' = db
        /\ table' = snap[c]
        /\ heard' = [u \in Users |-> Larger(heard[u], snap[c][u])]
        /\ snap' = [snap EXCEPT ![c] = Nobody]
    BY <1>7, PendingKept DEF NodeRepopulate
  <2>2. \A k \in Callers, u \in Users : snap'[k][u] <= db'[u]
    BY <2>1 DEF TypeOK, OnlyCommitted, Nobody
  <2>3. \A u \in Users : table'[u] <= db'[u] /\ heard'[u] <= db'[u]
    BY <2>1 DEF OnlyCommitted, Larger
  <2>4. QED
    BY <2>1, <2>2, <2>3 DEF OnlyCommitted
<1>8. ASSUME MonitorConnected \/ MonitorWakes PROVE OnlyCommitted'
  BY <1>8, PendingKept, CommittedKept DEF MonitorConnected, MonitorWakes
<1>9. CASE MonitorTimeout
  <2>1. /\ Queued' = Queued /\ wire' = wire
        /\ \A t \in Streams : held'[t] \in {held[t], <<>>}
    BY <1>9 DEF MonitorTimeout, Queued, panelVars
  <2>2. Pending' \subseteq Pending
    BY <2>1, CutShrinks
  <2>3. QED
    BY <1>9, <2>2, CommittedKept DEF MonitorTimeout
<1>10. ASSUME NEW s \in Streams, MonitorSynced(s) PROVE OnlyCommitted'
  BY <1>10, PendingKept, CommittedKept DEF MonitorSynced
<1>11. ASSUME MonitorSyncFails \/ RestartFails PROVE OnlyCommitted'
  <2>1. /\ Pending' = Pending
        /\ db' = db /\ table' = table /\ heard' = heard
    BY <1>11, PendingKept DEF MonitorSyncFails, RestartFails
  <2>2. PICK c \in Callers : snap' = [snap EXCEPT ![c] = Nobody]
    BY <1>11 DEF MonitorSyncFails, RestartFails, Callers
  <2>3. \A k \in Callers, u \in Users : snap'[k][u] <= db'[u]
    BY <2>1, <2>2 DEF TypeOK, OnlyCommitted, Nobody
  <2>4. QED
    BY <2>1, <2>3 DEF OnlyCommitted
<1>12. ASSUME RestartBackend \/ BackendRestarted \/ RestartSynced PROVE OnlyCommitted'
  BY <1>12, PendingKept, CommittedKept DEF RestartBackend, BackendRestarted, RestartSynced
<1>13. CASE Stop
  <2>1. /\ Queued' = Queued /\ held' = held
        /\ \A t \in Streams : wire'[t] \in {wire[t], <<>>}
    BY <1>13 DEF Stop, Queued, panelVars
  <2>2. Pending' \subseteq Pending
    BY <2>1, CutShrinks
  <2>3. QED
    BY <1>13, <2>2, CommittedKept DEF Stop
<1>14. ASSUME NEW s \in Streams, NodeReceive(s) PROVE OnlyCommitted'
  <2> DEFINE m == Head(wire[s])
  <2>1. m \in Pending /\ Pending' \subseteq Pending
    BY <1>14, ReceiveMoves
  <2>2. m.user \in Users /\ m.version \in Nat /\ m.version <= db[m.user]
    BY <2>1, PendingType DEF Update, OnlyCommitted
  <2>3. /\ db' = db /\ snap' = snap
        /\ table' = [table EXCEPT ![m.user] = m.version]
        /\ heard' = [heard EXCEPT ![m.user] = Larger(heard[m.user], m.version)]
    BY <1>14 DEF NodeReceive
  <2> HIDE DEF m
  <2>4. \A u \in Users : table'[u] <= db'[u] /\ heard'[u] <= db'[u]
    BY <2>2, <2>3 DEF TypeOK, OnlyCommitted, Larger
  <2>5. QED
    BY <2>1, <2>3, <2>4 DEF OnlyCommitted
<1>15. CASE Disconnect
  <2>1. /\ Queued' = Queued /\ held' = held
        /\ \A t \in Streams : wire'[t] \in {wire[t], <<>>}
        /\ db' = db /\ snap' = snap
    BY <1>15 DEF Disconnect, Queued, panelVars
  <2>2. Pending' \subseteq Pending
    BY <2>1, CutShrinks
  <2>3. \A u \in Users : table'[u] <= db'[u] /\ heard'[u] <= db'[u]
    BY <1>15, <2>1 DEF Disconnect, Nobody, OnlyCommitted, TypeOK
  <2>4. QED
    BY <2>1, <2>2, <2>3 DEF OnlyCommitted
<1>16. ASSUME Reconnect \/ CallFails PROVE OnlyCommitted'
  BY <1>16, PendingKept, CommittedKept DEF Reconnect, CallFails
<1>17. ASSUME NEW s \in Streams, StreamReset(s) PROVE OnlyCommitted'
  <2>1. /\ Queued' = Queued /\ held' = held
        /\ \A t \in Streams : wire'[t] \in {wire[t], <<>>}
    BY <1>17 DEF StreamReset, Queued, panelVars, TypeOK
  <2>2. Pending' \subseteq Pending
    BY <2>1, CutShrinks
  <2>3. QED
    BY <1>17, <2>2, CommittedKept DEF StreamReset
<1>18. CASE PanelRestart
  <2>1. /\ Queued' = {}
        /\ \A t \in Streams : held'[t] = <<>> /\ wire'[t] = <<>>
        /\ db' = db /\ table' = table /\ heard' = heard
    BY <1>18, ToSetEmpty DEF PanelRestart, Queued
  <2>2. Pending' \subseteq Pending
    BY <2>1, CutShrinks
  <2>3. \A k \in Callers, u \in Users : snap'[k][u] <= db'[u]
    BY <1>18, <2>1 DEF PanelRestart, Nobody, TypeOK
  <2>4. QED
    BY <2>1, <2>2, <2>3 DEF OnlyCommitted
<1>19. CASE UNCHANGED vars
  BY <1>19, PendingKept, CommittedKept DEF vars
<1>20. QED
  BY <1>1, <1>2, <1>3, <1>4, <1>5, <1>6, <1>7, <1>8, <1>9, <1>10, <1>11, <1>12, <1>13,
     <1>14, <1>15, <1>16, <1>17, <1>18, <1>19
  DEF Next, Stream, Monitor, Restart, Callers

(* Whatever interleaves, no configuration that was not committed is on its way
   to the node or served by it. *)
THEOREM Committed == Spec => []OnlyCommitted
<1>1. Init => OnlyCommitted
  <2> SUFFICES ASSUME Init PROVE OnlyCommitted
    OBVIOUS
  <2>1. Queued = {} /\ \A s \in Streams : ToSet(held[s]) = {} /\ ToSet(wire[s]) = {}
    BY ToSetEmpty DEF Init, Queued
  <2>2. \A m : m \notin Pending
    BY <2>1, PendingMember
  <2>3. QED
    BY <2>2 DEF Init, OnlyCommitted, Nobody
<1>2. QED
  BY <1>1, TypeCorrect, CommittedStep, PTL DEF Spec

-----------------------------------------------------------------------------
(* Calls and tasks end with what carries them *)

(* No step leaves an update on a call that is not open or in the hand of a task
   that has ended, nor a call open or in flight to a node that does not
   answer. *)
LEMMA WiresStep == TypeOK /\ WiresCut /\ [Next]_vars => WiresCut'
<1> SUFFICES ASSUME TypeOK, WiresCut, [Next]_vars
             PROVE  WiresCut'
  OBVIOUS
<1> USE DEF WiresCut, TypeOK, InFlight, Callers, Calls,
        boundVars, nodeVars, syncVars, streamVars, panelVars
<1>1. ASSUME NEW u \in Users, ChangeUser(u) PROVE WiresCut'
  BY <1>1 DEF ChangeUser
<1>2. CASE PutUpdate
  BY <1>2 DEF PutUpdate
<1>3. ASSUME NEW s \in Streams, TakeUpdate(s) PROVE WiresCut'
  BY <1>3 DEF TakeUpdate
<1>4. ASSUME NEW s \in Streams, SendUpdate(s) PROVE WiresCut'
  BY <1>4 DEF SendUpdate
<1>5. ASSUME NEW s \in Streams, SendFails(s) PROVE WiresCut'
  BY <1>5 DEF SendFails, CannotSend
<1>6. ASSUME NEW c \in Callers, ListUsers(c) PROVE WiresCut'
  BY <1>6 DEF ListUsers
<1>7. ASSUME NEW c \in Callers, NodeRepopulate(c) PROVE WiresCut'
  BY <1>7 DEF NodeRepopulate
<1>8. ASSUME MonitorConnected \/ MonitorWakes \/ MonitorSyncFails PROVE WiresCut'
  BY <1>8 DEF MonitorConnected, MonitorWakes, MonitorSyncFails
<1>9. CASE MonitorTimeout
  BY <1>9 DEF MonitorTimeout
<1>10. ASSUME NEW s \in Streams, MonitorSynced(s) PROVE WiresCut'
  BY <1>10 DEF MonitorSynced
<1>11. ASSUME RestartBackend \/ BackendRestarted \/ RestartSynced \/ RestartFails
       PROVE  WiresCut'
  BY <1>11 DEF RestartBackend, BackendRestarted, RestartSynced, RestartFails
<1>12. CASE Stop
  BY <1>12 DEF Stop
<1>13. ASSUME NEW s \in Streams, NodeReceive(s) PROVE WiresCut'
  BY <1>13 DEF NodeReceive
<1>14. CASE Disconnect
  BY <1>14 DEF Disconnect
<1>15. CASE Reconnect \/ CallFails
  BY <1>15 DEF Reconnect, CallFails
<1>16. ASSUME NEW s \in Streams, StreamReset(s) PROVE WiresCut'
  BY <1>16 DEF StreamReset
<1>17. CASE PanelRestart
  BY <1>17 DEF PanelRestart
<1>18. CASE UNCHANGED vars
  BY <1>18 DEF vars
<1>19. QED
  BY <1>1, <1>2, <1>3, <1>4, <1>5, <1>6, <1>7, <1>8, <1>9, <1>10, <1>11, <1>12, <1>13,
     <1>14, <1>15, <1>16, <1>17, <1>18
  DEF Next, Stream, Monitor, Restart

-----------------------------------------------------------------------------
(* No update is lost *)

(* The three facts that only hold together: the only live task is the one of a
   synced client, what a running synchronisation misses waits in the queue,
   and no update is lost while the client streams. *)
Covered == OneStream /\ SyncCovers /\ NoUpdateLost

(* The node takes the newest update of a user, or an older one. *)
LEMMA ReceiveHears ==
  ASSUME TypeOK, OnlyCommitted, NEW s \in Streams, NodeReceive(s), NEW u \in Users,
         heard[u] = db[u] \/ Newest(u) \in Pending
  PROVE  heard'[u] = db[u] \/ Newest(u) \in Pending'
<1> DEFINE m == Head(wire[s])
<1>1. m \in Pending /\ Pending = Pending' \union {m}
  BY ReceiveMoves
<1>2. m.user \in Users /\ m.version \in Nat /\ m.version <= db[m.user]
  BY <1>1, PendingType DEF Update, OnlyCommitted
<1>3. heard' = [heard EXCEPT ![m.user] = Larger(heard[m.user], m.version)]
  BY DEF NodeReceive
<1> HIDE DEF m
<1>4. heard[u] \in Nat /\ db[u] \in Nat /\ heard[u] <= db[u]
  BY DEF TypeOK, OnlyCommitted
<1>5. CASE Newest(u) = m
  <2>1. m.user = u /\ m.version = db[u]
    BY <1>5 DEF Newest
  <2>2. heard'[u] = Larger(heard[u], db[u])
    BY <1>3, <2>1 DEF TypeOK
  <2>3. QED
    BY <2>2, <1>4 DEF Larger
<1>6. CASE heard[u] = db[u]
  <2>1. heard'[u] = heard[u] \/ (m.user = u /\ heard'[u] = Larger(heard[u], m.version))
    BY <1>3 DEF TypeOK
  <2>2. QED
    BY <2>1, <1>2, <1>4, <1>6 DEF Larger
<1>7. QED
  BY <1>1, <1>5, <1>6

(* A step that ends without a restart began without one. *)
LEMMA RestartsGrow ==
  ASSUME TypeOK, [Next]_vars
  PROVE  restarts' = 0 => restarts = 0
<1>1. restarts \in Nat
  BY DEF TypeOK
<1>2. restarts' = restarts \/ restarts' = restarts + 1
  BY DEF Next, vars, boundVars, ChangeUser, PutUpdate, Stream, TakeUpdate, SendUpdate,
     SendFails, Monitor, MonitorConnected, MonitorTimeout, MonitorSynced, MonitorSyncFails,
     MonitorWakes, ListUsers, Restart, RestartBackend, BackendRestarted, RestartSynced,
     RestartFails, Stop, NodeRepopulate, CallFails, NodeReceive, StreamReset, Disconnect,
     Reconnect, PanelRestart
<1>3. QED
  BY <1>1, <1>2

LEMMA CoveredStep ==
  TypeOK /\ OnlyCommitted /\ WiresCut /\ Covered /\ [Next]_vars => Covered'
<1> SUFFICES ASSUME TypeOK, OnlyCommitted, WiresCut, Covered, [Next]_vars
             PROVE  Covered'
  OBVIOUS
<1>a. restarts' = 0 => restarts = 0
  BY RestartsGrow
<1> SUFFICES ASSUME restarts' = 0 PROVE Covered'
  BY DEF Covered, OneStream, SyncCovers, NoUpdateLost
<1>b. /\ restarts = 0
      /\ live = IF synced THEN {streaming_task} ELSE {}
      /\ pc["restart"] = "idle"
      /\ pc["monitor"] \in InFlight \union {"broken"} => ~synced
  BY <1>a DEF Covered, OneStream, SyncCovers
<1>c. Streaming => \A u \in Users : heard[u] = db[u] \/ Newest(u) \in Pending
  BY <1>b DEF Covered, NoUpdateLost
<1>d. pc["monitor"] = "repopulate" =>
        \A u \in Users : snap["monitor"][u] = db[u] \/ Newest(u) \in Queued
  BY <1>b DEF Covered, SyncCovers
<1>e. pc["monitor"] = "replied" =>
        \A u \in Users : heard[u] = db[u] \/ Newest(u) \in Queued
  BY <1>b DEF Covered, SyncCovers
<1> USE DEF Covered, OneStream, SyncCovers, NoUpdateLost, Streaming, InFlight
<1>1. ASSUME NEW u \in Users, ChangeUser(u) PROVE Covered'
  <2>1. /\ Newest(u)' \in Queued'
        /\ Queued \subseteq Queued' /\ Pending \subseteq Pending'
        /\ Queued' \subseteq Pending'
    BY <1>1, ChangeQueues DEF Pending
  <2>2. /\ \A v \in Users \ {u} : db'[v] = db[v] /\ Newest(v)' = Newest(v)
        /\ UNCHANGED <<streamVars, syncVars, nodeVars, boundVars>>
    BY <1>1 DEF ChangeUser, Newest, TypeOK
  <2>3. QED
    BY <1>b, <1>c, <1>d, <1>e, <2>1, <2>2 DEF streamVars, syncVars, nodeVars
<1>2. CASE PutUpdate
  <2>1. /\ Queued' = Queued /\ Pending' = Pending
        /\ UNCHANGED <<db, streamVars, syncVars, nodeVars, boundVars>>
    BY <1>2, PutKeepsQueued DEF PutUpdate
  <2>2. QED
    BY <1>b, <1>c, <1>d, <1>e, <2>1 DEF streamVars, syncVars, nodeVars, Newest
<1>3. ASSUME NEW s \in Streams, TakeUpdate(s) PROVE Covered'
  <2>1. /\ Pending' = Pending
        /\ UNCHANGED <<db, streaming_task, live, call, kept, syncVars, nodeVars>>
    BY <1>3, TakeKeepsPending DEF TakeUpdate
  <2>2. synced
    BY <1>3, <1>b DEF TakeUpdate
  <2>3. QED
    BY <1>b, <1>c, <2>1, <2>2 DEF syncVars, nodeVars, Newest
<1>4. ASSUME NEW s \in Streams, SendUpdate(s) PROVE Covered'
  <2>1. /\ call[s] # "ended" => Pending' = Pending
        /\ call[s] = "ended" => call'[s] = "ended"
        /\ UNCHANGED <<db, streaming_task, live, kept, syncVars, nodeVars>>
    BY <1>4, SendMoves DEF SendUpdate, TypeOK
  <2>2. synced /\ s = streaming_task
    BY <1>4, <1>b DEF SendUpdate, WiresCut
  <2>3. Streaming' => Streaming /\ Pending' = Pending
    BY <2>1, <2>2 DEF syncVars, Streaming
  <2>4. ~(pc'["monitor"] \in InFlight \union {"broken"})
    BY <1>b, <2>1, <2>2 DEF syncVars
  <2>5. QED
    BY <1>b, <1>c, <2>1, <2>2, <2>3, <2>4 DEF syncVars, nodeVars, Newest
<1>5. ASSUME NEW s \in Streams, SendFails(s) PROVE Covered'
  <2>1. /\ live' = live \ {s} /\ synced' = FALSE
        /\ UNCHANGED <<streaming_task, pc>>
    BY <1>5 DEF SendFails
  <2>2. synced /\ s = streaming_task
    BY <1>5, <1>b DEF SendFails, WiresCut
  <2>3. QED
    BY <1>b, <2>1, <2>2
<1>6. ASSUME NEW c \in Callers, ListUsers(c) PROVE Covered'
  <2>1. c = "monitor"
    BY <1>6, <1>b DEF ListUsers, Callers
  <2>2. /\ snap'["monitor"] = db /\ pc'["monitor"] = "repopulate" /\ pc'["restart"] = "idle"
        /\ UNCHANGED <<db, streamVars, synced, nodeVars>>
    BY <1>6, <1>b, <2>1 DEF ListUsers, TypeOK
  <2>3. QED
    BY <1>6, <1>b, <2>1, <2>2 DEF ListUsers, streamVars
<1>7. ASSUME NEW c \in Callers, NodeRepopulate(c) PROVE Covered'
  <2>1. c = "monitor"
    BY <1>7, <1>b DEF NodeRepopulate, Callers
  <2>2. /\ pc'["monitor"] = "replied" /\ pc'["restart"] = "idle"
        /\ pc["monitor"] = "repopulate"
        /\ \A u \in Users : heard'[u] = Larger(heard[u], snap["monitor"][u])
        /\ UNCHANGED <<db, streamVars, synced>>
        /\ Queued' = Queued
    BY <1>7, <1>b, <2>1, PendingKept DEF NodeRepopulate, TypeOK, streamVars
  <2>3. ASSUME NEW u \in Users PROVE heard'[u] = db'[u] \/ Newest(u)' \in Queued'
    <3>1. heard[u] \in Nat /\ db[u] \in Nat /\ heard[u] <= db[u]
      BY DEF TypeOK, OnlyCommitted
    <3>2. CASE snap["monitor"][u] = db[u]
      BY <2>2, <3>1, <3>2 DEF Larger
    <3>3. CASE Newest(u) \in Queued
      BY <2>2, <3>3 DEF Newest
    <3>4. QED
      BY <1>d, <2>2, <3>2, <3>3
  <2>4. QED
    BY <1>b, <2>2, <2>3 DEF streamVars
<1>8. CASE MonitorConnected
  <2>1. /\ pc'["monitor"] = (IF synced THEN "sleep" ELSE "fetch") /\ pc'["restart"] = "idle"
        /\ Pending' = Pending
        /\ UNCHANGED <<db, streamVars, synced, nodeVars>>
    BY <1>8, <1>b, PendingKept DEF MonitorConnected, TypeOK, streamVars, Callers
  <2>2. QED
    BY <1>b, <1>c, <2>1 DEF streamVars, nodeVars, Newest
<1>9. CASE MonitorTimeout
  <2>1. /\ live' = live \ {streaming_task} /\ synced' = FALSE
        /\ pc'["monitor"] = "sleep" /\ pc'["restart"] = "idle"
    BY <1>9, <1>b DEF MonitorTimeout, TypeOK, Callers
  <2>2. QED
    BY <1>b, <2>1
<1>10. ASSUME NEW s \in Streams, MonitorSynced(s) PROVE Covered'
  <2>1. /\ live' = live \union {s} /\ streaming_task' = s /\ synced' = TRUE
        /\ pc["monitor"] = "replied"
        /\ pc'["monitor"] = "sleep" /\ pc'["restart"] = "idle"
        /\ Pending' = Pending /\ db' = db /\ heard' = heard
    BY <1>10, <1>b, PendingKept DEF MonitorSynced, TypeOK, Callers, nodeVars
  <2>2. Queued \subseteq Pending
    BY DEF Pending
  <2>3. QED
    BY <1>b, <1>e, <2>1, <2>2 DEF Newest
<1>11. CASE MonitorSyncFails
  <2>1. /\ pc'["monitor"] = "sleep" /\ pc'["restart"] = "idle"
        /\ Pending' = Pending
        /\ UNCHANGED <<db, streamVars, synced, nodeVars>>
    BY <1>11, <1>b, PendingKept DEF MonitorSyncFails, TypeOK, streamVars, Callers
  <2>2. QED
    BY <1>b, <1>c, <2>1 DEF streamVars, nodeVars, Newest
<1>12. CASE MonitorWakes
  <2>1. /\ pc'["monitor"] = "connect" /\ pc'["restart"] = "idle"
        /\ Pending' = Pending
        /\ UNCHANGED <<db, streamVars, synced, nodeVars>>
    BY <1>12, <1>b, PendingKept DEF MonitorWakes, TypeOK, streamVars, Callers
  <2>2. QED
    BY <1>b, <1>c, <2>1 DEF streamVars, nodeVars, Newest
<1>13. CASE RestartBackend
  BY <1>13, <1>b DEF RestartBackend
<1>14. ASSUME BackendRestarted \/ RestartSynced \/ RestartFails PROVE Covered'
  BY <1>14, <1>b DEF BackendRestarted, RestartSynced, RestartFails
<1>15. CASE Stop
  <2>1. /\ ~kept'
        /\ UNCHANGED <<streaming_task, live, synced>>
    BY <1>15 DEF Stop
  <2>2. /\ pc'["restart"] = "idle"
        /\ pc'["monitor"] \in {"broken", "cancelled"}
        /\ pc'["monitor"] = "broken" => pc["monitor"] \in InFlight \union {"broken"}
    BY <1>15, <1>b DEF Stop, Callers
  <2>3. live \subseteq Streams
    BY DEF TypeOK
  <2>4. QED
    BY <1>b, <2>1, <2>2, <2>3
<1>16. ASSUME NEW s \in Streams, NodeReceive(s) PROVE Covered'
  <2>1. UNCHANGED <<db, streaming_task, live, call, kept, syncVars>>
    BY <1>16 DEF NodeReceive
  <2>2. synced
    BY <1>16, <1>b DEF NodeReceive, WiresCut
  <2>3. \A u \in Users : Streaming => heard'[u] = db[u] \/ Newest(u) \in Pending'
    BY <1>16, <1>c, ReceiveHears
  <2>4. QED
    BY <1>b, <2>1, <2>2, <2>3 DEF syncVars, Newest
<1>17. CASE Disconnect
  <2>1. /\ ~kept'
        /\ UNCHANGED <<streaming_task, live, synced>>
    BY <1>17 DEF Disconnect
  <2>2. /\ pc'["restart"] = "idle"
        /\ pc'["monitor"] \notin InFlight
        /\ pc'["monitor"] = "broken" => pc["monitor"] \in InFlight \union {"broken"}
    BY <1>17, <1>b DEF Disconnect, Callers
  <2>3. live \subseteq Streams
    BY DEF TypeOK
  <2>4. QED
    BY <1>b, <2>1, <2>2, <2>3
<1>18. CASE Reconnect
  <2>1. /\ Queued' = Queued /\ Pending' = Pending
        /\ UNCHANGED <<db, streamVars, syncVars, heard>>
    BY <1>18, PendingKept DEF Reconnect, streamVars
  <2>2. QED
    BY <1>b, <1>c, <1>d, <1>e, <2>1 DEF streamVars, syncVars, Newest
<1>19. ASSUME NEW s \in Streams, StreamReset(s) PROVE Covered'
  <2>1. /\ call'[s] = "ended"
        /\ UNCHANGED <<streaming_task, live, syncVars>>
    BY <1>19 DEF StreamReset, TypeOK
  <2>2. synced /\ s = streaming_task
    BY <1>19, <1>b DEF StreamReset
  <2>3. QED
    BY <1>b, <2>1, <2>2 DEF syncVars
<1>20. CASE CallFails
  <2>1. /\ pc'["monitor"] = "broken" /\ pc'["restart"] = "idle"
        /\ pc["monitor"] \in InFlight
        /\ UNCHANGED <<streamVars, synced>>
    BY <1>20, <1>b DEF CallFails, TypeOK, Callers
  <2>2. QED
    BY <1>b, <2>1 DEF streamVars
<1>21. CASE PanelRestart
  <2>1. /\ live' = {} /\ synced' = FALSE
        /\ pc'["monitor"] = "connect" /\ pc'["restart"] = "idle"
    BY <1>21 DEF PanelRestart, Callers
  <2>2. QED
    BY <2>1
<1>22. CASE UNCHANGED vars
  <2>1. Queued' = Queued /\ Pending' = Pending
    BY <1>22, PendingKept DEF vars, streamVars
  <2>2. QED
    BY <1>b, <1>c, <1>d, <1>e, <1>22, <2>1
    DEF vars, streamVars, syncVars, nodeVars, Newest
<1>23. QED
  BY <1>1, <1>2, <1>3, <1>4, <1>5, <1>6, <1>7, <1>8, <1>9, <1>10, <1>11, <1>12, <1>13,
     <1>14, <1>15, <1>16, <1>17, <1>18, <1>19, <1>20, <1>21, <1>22
  DEF Next, Stream, Monitor, Restart, Callers

(* The facts every step needs of the state before it. *)
Invariants == TypeOK /\ OnlyCommitted /\ WiresCut /\ Covered

LEMMA InvariantsHold == Spec => []Invariants
<1>1. Init => WiresCut /\ Covered
  <2> SUFFICES ASSUME Init PROVE WiresCut /\ Covered
    OBVIOUS
  <2>1. pc["monitor"] = "connect" /\ pc["restart"] = "idle"
    BY DEF Init, Callers
  <2>2. WiresCut
    BY DEF Init, WiresCut, InFlight, Callers
  <2>3. Covered
    BY <2>1 DEF Init, Covered, OneStream, SyncCovers, NoUpdateLost, Streaming, InFlight
  <2>4. QED
    BY <2>2, <2>3
<1>2. TypeOK /\ OnlyCommitted /\ WiresCut /\ Covered /\ [Next]_vars
        => WiresCut' /\ Covered'
  BY WiresStep, CoveredStep
<1>3. QED
  BY <1>1, <1>2, TypeCorrect, Committed, PTL DEF Spec, Invariants

(* The invariant TLC checks is the one proved. *)
THEOREM Inductive == Spec => []IInv
<1>1. Invariants => IInv
  BY DEF Invariants, IInv, Covered
<1>2. QED
  BY <1>1, InvariantsHold, PTL

(* No configuration is lost: as long as no backend was restarted, the connection
   the client synchronised on holds and the call it streams on did not end, the
   newest configuration of every user was given to the node or is on its way. *)
THEOREM NothingLost == Spec => []NoUpdateLost
<1>1. Invariants => NoUpdateLost
  BY DEF Invariants, Covered
<1>2. QED
  BY <1>1, InvariantsHold, PTL

(* The streaming task of a synced client is the only one alive. *)
THEOREM SingleStream == Spec => []OneStream
<1>1. Invariants => OneStream
  BY DEF Invariants, Covered
<1>2. QED
  BY <1>1, InvariantsHold, PTL

(* A node shown as unhealthy is one the client will synchronise again, with any
   number of restarts and whoever failed. *)
THEOREM UnhealthyUnsynced == Spec => []UnhealthyIsUnsynced
<1>1. Init => UnhealthyIsUnsynced
  BY DEF Init, UnhealthyIsUnsynced
<1>2. UnhealthyIsUnsynced /\ [Next]_vars => UnhealthyIsUnsynced'
  <2> SUFFICES ASSUME UnhealthyIsUnsynced, [Next]_vars PROVE UnhealthyIsUnsynced'
    OBVIOUS
  <2>1. ASSUME UNCHANGED <<synced, status>> PROVE UnhealthyIsUnsynced'
    BY <2>1 DEF UnhealthyIsUnsynced
  <2>2. ASSUME NEW s \in Streams, Stream(s) PROVE UnhealthyIsUnsynced'
    <3>1. CASE SendFails(s)
      BY <3>1 DEF SendFails, UnhealthyIsUnsynced
    <3>2. CASE TakeUpdate(s) \/ SendUpdate(s)
      BY <2>1, <3>2 DEF TakeUpdate, SendUpdate, syncVars
    <3>3. QED
      BY <2>2, <3>1, <3>2 DEF Stream
  <2>3. CASE Monitor
    <3>1. CASE MonitorTimeout
      BY <3>1 DEF MonitorTimeout, UnhealthyIsUnsynced
    <3>2. CASE \E s \in Streams : MonitorSynced(s)
      BY <3>2 DEF MonitorSynced, UnhealthyIsUnsynced
    <3>3. CASE MonitorConnected \/ MonitorSyncFails \/ MonitorWakes \/ ListUsers("monitor")
      BY <2>1, <3>3 DEF MonitorConnected, MonitorSyncFails, MonitorWakes, ListUsers
    <3>4. QED
      BY <2>3, <3>1, <3>2, <3>3 DEF Monitor
  <2>4. CASE Restart
    <3>1. CASE RestartSynced
      BY <3>1 DEF RestartSynced, UnhealthyIsUnsynced
    <3>2. CASE RestartFails
      BY <3>2 DEF RestartFails, UnhealthyIsUnsynced
    <3>3. CASE RestartBackend \/ BackendRestarted \/ ListUsers("restart")
      BY <2>1, <3>3 DEF RestartBackend, BackendRestarted, ListUsers
    <3>4. QED
      BY <2>4, <3>1, <3>2, <3>3 DEF Restart
  <2>5. CASE PanelRestart
    BY <2>5 DEF PanelRestart, UnhealthyIsUnsynced
  <2>6. CASE \/ \E u \in Users : ChangeUser(u)
             \/ PutUpdate \/ Stop
             \/ \E c \in Callers : NodeRepopulate(c)
             \/ CallFails
             \/ \E s \in Streams : NodeReceive(s) \/ StreamReset(s)
             \/ Disconnect \/ Reconnect
             \/ UNCHANGED vars
    BY <2>1, <2>6 DEF ChangeUser, PutUpdate, Stop, NodeRepopulate, CallFails, NodeReceive,
       StreamReset, Disconnect, Reconnect, vars, syncVars
  <2>7. QED
    BY <2>2, <2>3, <2>4, <2>5, <2>6 DEF Next
<1>3. QED
  BY <1>1, <1>2, PTL DEF Spec

-----------------------------------------------------------------------------
(* The last change wins *)

(* Nothing follows in an empty queue. *)
LEMMA FollowsEmpty == \A n, B : Follows(n, <<>>, B)
  BY DEF Follows

(* The first of a queue is the newest, or the newest is behind it. *)
LEMMA FollowsHead ==
  ASSUME NEW q \in Seq(Update), q # <<>>, NEW n, NEW B, Follows(n, q, B),
         Head(q).user = n.user, Head(q) # n
  PROVE  n \in ToSet(Tail(q)) \union B
<1>1. /\ Len(q) \in Nat /\ 1 \in DOMAIN q /\ DOMAIN q = 1..Len(q) /\ q[1] = Head(q)
      /\ DOMAIN Tail(q) = 1..(Len(q) - 1)
      /\ \A i \in 1..(Len(q) - 1) : Tail(q)[i] = q[i + 1]
  OBVIOUS
<1>2. (\E j \in DOMAIN q : 1 < j /\ q[j] = n) \/ n \in B
  BY <1>1 DEF Follows
<1>3. ASSUME NEW j \in DOMAIN q, 1 < j, q[j] = n PROVE n \in ToSet(Tail(q))
  <2>1. j - 1 \in 1..(Len(q) - 1) /\ (j - 1) + 1 = j
    BY <1>1, <1>3
  <2>2. Tail(q)[j - 1] = n
    BY <1>1, <1>3, <2>1
  <2>3. QED
    BY <1>1, <2>1, <2>2 DEF ToSet
<1>4. QED
  BY <1>2, <1>3

LEMMA FollowsTail ==
  ASSUME NEW q \in Seq(Update), q # <<>>, NEW n, NEW B, Follows(n, q, B)
  PROVE  Follows(n, Tail(q), B)
<1>1. /\ Len(q) \in Nat /\ DOMAIN q = 1..Len(q)
      /\ DOMAIN Tail(q) = 1..(Len(q) - 1)
      /\ \A i \in 1..(Len(q) - 1) : Tail(q)[i] = q[i + 1]
  OBVIOUS
<1>2. SUFFICES ASSUME NEW i \in 1..(Len(q) - 1), Tail(q)[i].user = n.user, Tail(q)[i] # n, n \notin B
               PROVE  \E j \in 1..(Len(q) - 1) : i < j /\ Tail(q)[j] = n
  BY <1>1 DEF Follows
<1>3. i + 1 \in DOMAIN q /\ q[i + 1] = Tail(q)[i]
  BY <1>1
<1>4. PICK k \in DOMAIN q : i + 1 < k /\ q[k] = n
  BY <1>2, <1>3 DEF Follows
<1>5. k - 1 \in 1..(Len(q) - 1) /\ i < k - 1 /\ (k - 1) + 1 = k
  BY <1>1, <1>4
<1>6. Tail(q)[k - 1] = n
  BY <1>1, <1>4, <1>5
<1>7. QED
  BY <1>5, <1>6

(* Queues joined: what was behind the first one is in the second or behind it. *)
LEMMA FollowsConcat ==
  ASSUME NEW q \in Seq(Update), NEW r \in Seq(Update), NEW n, NEW B,
         Follows(n, q, ToSet(r) \union B), Follows(n, r, B)
  PROVE  Follows(n, q \o r, B)
<1> DEFINE c == q \o r
<1>1. /\ Len(q) \in Nat /\ Len(r) \in Nat
      /\ DOMAIN q = 1..Len(q) /\ DOMAIN r = 1..Len(r) /\ DOMAIN c = 1..(Len(q) + Len(r))
      /\ \A i \in 1..(Len(q) + Len(r)) : c[i] = IF i <= Len(q) THEN q[i] ELSE r[i - Len(q)]
  OBVIOUS
<1>2. ASSUME NEW k \in DOMAIN r PROVE Len(q) + k \in DOMAIN c /\ c[Len(q) + k] = r[k]
  BY <1>1
<1> HIDE DEF c
<1>3. SUFFICES ASSUME NEW i \in DOMAIN c, c[i].user = n.user, c[i] # n, n \notin B
               PROVE  \E j \in DOMAIN c : i < j /\ c[j] = n
  BY DEF Follows, c
<1>4. CASE i <= Len(q)
  <2>1. i \in DOMAIN q /\ c[i] = q[i]
    BY <1>1, <1>3, <1>4
  <2>2. (\E j \in DOMAIN q : i < j /\ q[j] = n) \/ n \in ToSet(r)
    BY <1>3, <2>1 DEF Follows
  <2>3. CASE \E j \in DOMAIN q : i < j /\ q[j] = n
    <3>1. PICK j \in DOMAIN q : i < j /\ q[j] = n
      BY <2>3
    <3>2. j \in DOMAIN c /\ c[j] = n
      BY <1>1, <3>1
    <3>3. QED
      BY <3>1, <3>2
  <2>4. CASE n \in ToSet(r)
    <3>1. PICK k \in DOMAIN r : r[k] = n
      BY <2>4 DEF ToSet
    <3>2. i < Len(q) + k
      BY <1>1, <1>4
    <3>3. QED
      BY <1>2, <3>1, <3>2
  <2>5. QED
    BY <2>2, <2>3, <2>4
<1>5. CASE i > Len(q)
  <2>1. i - Len(q) \in DOMAIN r /\ c[i] = r[i - Len(q)]
    BY <1>1, <1>5
  <2>2. PICK k \in DOMAIN r : i - Len(q) < k /\ r[k] = n
    BY <1>3, <2>1 DEF Follows
  <2>3. i < Len(q) + k
    BY <1>1, <2>2
  <2>4. QED
    BY <1>2, <2>2, <2>3
<1>6. QED
  BY <1>1, <1>4, <1>5

(* One more at the end of a queue. *)
LEMMA FollowsAppend ==
  ASSUME NEW q \in Seq(Update), NEW m \in Update, NEW n, NEW B, NEW C, Follows(n, q, B),
         m.user = n.user /\ m # n => n \in C,
         n \in B => n = m \/ n \in C
  PROVE  Follows(n, Append(q, m), C)
<1>1. <<m>> \in Seq(Update) /\ ToSet(<<m>>) = {m} /\ Append(q, m) = q \o <<m>>
  BY ToSetSingle
<1>2. Follows(n, q, ToSet(<<m>>) \union C)
  BY <1>1 DEF Follows
<1>3. Follows(n, <<m>>, C)
  BY DEF Follows
<1>4. ASSUME NEW r \in Seq(Update), Follows(n, q, ToSet(r) \union C), Follows(n, r, C)
      PROVE  Follows(n, q \o r, C)
  BY <1>4, FollowsConcat, Zenon
<1>5. Follows(n, q \o <<m>>, C)
  BY <1>1, <1>2, <1>3, <1>4, Zenon
<1>6. QED
  BY <1>1, <1>5, Zenon

(* Where nobody is crowded, a blocked update is the newest. *)
LEMMA BlockedIsNewest ==
  ASSUME NEW q, NEW i \in DOMAIN q, NEW n, n.user \in Users, NEW r,
         Follows(n, q, {}), q[i].user = n.user, n.user \notin Crowd(r, q)
  PROVE  q[i] = n
  BY DEF Follows, Crowd

(* No crowd without a blocked update. *)
LEMMA CrowdNeeds ==
  ASSUME NEW u \in Users, NEW r, NEW q, u \notin Crowd(r, q)
  PROVE  /\ \A i \in DOMAIN q, j \in DOMAIN r : q[i].user = u => r[j].user # u
         /\ \A i \in DOMAIN q, j \in DOMAIN q : q[i].user = u /\ q[j].user = u => i = j
  BY DEF Crowd

(* Cutting calls and tasks loses the first of what is in line. *)
LEMMA CutLined ==
  ASSUME NEW u \in Users, Lined(u), db' = db, UNCHANGED <<ready, updates_queue, putters>>,
         \A s \in Streams : /\ held'[s] \in {held[s], <<>>}
                            /\ wire'[s] = <<>> \/ (wire'[s] = wire[s] /\ held'[s] = held[s])
  PROVE  Lined(u)'
<1> DEFINE n == Newest(u)
<1>1. n' = n /\ Queued' = Queued
  BY DEF Newest, Queued
<1>2. /\ u \notin Crowd(ready', putters')
      /\ Follows(n, ready', {}) /\ Follows(n, putters', {})
      /\ Follows(n, updates_queue', ToSet(ready') \union ToSet(putters'))
  BY DEF Lined
<1>3. ASSUME NEW s \in Streams
      PROVE  /\ Follows(n, held'[s], Queued)
             /\ Follows(n, wire'[s], ToSet(held'[s]) \union Queued)
  BY FollowsEmpty DEF Lined
<1> HIDE DEF n
<1>4. QED
  BY <1>1, <1>2, <1>3 DEF Lined, n

(* A new update of a user comes last; one of another user is in nobody's way. *)
LEMMA ChangeLined ==
  ASSUME TypeOK, NEW u \in Users, Lined(u), NEW v \in Users, ChangeUser(v), u \notin crowded'
  PROVE  Lined(u)'
<1> DEFINE n == Newest(u)'
           m == [user |-> v, version |-> db[v] + 1]
<1>1. /\ ready' = Append(ready, m) /\ m \in Update
      /\ UNCHANGED <<updates_queue, putters, held, wire>>
      /\ u \notin Crowd(ready', putters)
  BY DEF ChangeUser, streamVars, TypeOK, Update
<1>2. /\ Newest(v)' = m /\ Queued' = Queued \union {m}
  BY ChangeQueues
<1>3. ready \in Seq(Update) /\ ToSet(ready') = ToSet(ready) \union {m}
  BY <1>1, ToSetAppend DEF TypeOK
<1>4. n.user = u /\ m.user = v
  BY DEF Newest
<1>5. CASE u = v
  <2>1. n = m
    BY <1>2, <1>5
  <2> HIDE DEF n, m
  <2>2. Follows(n, ready', {})
    <3>1. /\ Len(ready) \in Nat /\ DOMAIN ready' = 1..(Len(ready) + 1)
          /\ ready'[Len(ready) + 1] = m
      BY <1>1, <1>3
    <3>2. ASSUME NEW i \in DOMAIN ready', ready'[i] # n
          PROVE  Len(ready) + 1 \in DOMAIN ready' /\ i < Len(ready) + 1
      BY <2>1, <3>1, <3>2
    <3>3. QED
      BY <2>1, <3>1, <3>2 DEF Follows
  <2>3. Follows(n, putters', {})
    <3>1. Len(ready) + 1 \in DOMAIN ready' /\ ready'[Len(ready) + 1].user = u
      BY <1>1, <1>3, <1>4, <1>5
    <3>2. \A i \in DOMAIN putters : putters[i].user # u
      BY <1>1, <3>1, CrowdNeeds
    <3>3. QED
      BY <1>1, <1>4, <3>2 DEF Follows
  <2>4. n \in ToSet(ready') /\ n \in Queued'
    BY <1>2, <1>3, <2>1
  <2>5. \A q, B : n \in B => Follows(n, q, B)
    BY DEF Follows
  <2>6. QED
    BY <1>1, <2>2, <2>3, <2>4, <2>5 DEF Lined, n
<1>6. CASE u # v
  <2>1. n = Newest(u)
    BY <1>6 DEF ChangeUser, Newest, TypeOK
  <2>2. /\ Follows(n, ready, {}) /\ Follows(n, putters, {})
        /\ Follows(n, updates_queue, ToSet(ready) \union ToSet(putters))
        /\ \A s \in Streams : /\ Follows(n, held[s], Queued)
                              /\ Follows(n, wire[s], ToSet(held[s]) \union Queued)
    BY <2>1 DEF Lined
  <2> HIDE DEF n, m
  <2>3. Follows(n, ready', {})
    BY <1>1, <1>3, <1>4, <1>6, <2>2, FollowsAppend
  <2>4. Follows(n, updates_queue, ToSet(ready') \union ToSet(putters))
    BY <1>3, <2>2 DEF Follows
  <2>5. \A s \in Streams : /\ Follows(n, held[s], Queued')
                           /\ Follows(n, wire[s], ToSet(held[s]) \union Queued')
    BY <1>2, <2>2 DEF Follows
  <2>6. QED
    BY <1>1, <2>2, <2>3, <2>4, <2>5 DEF Lined, n
<1>7. QED
  BY <1>5, <1>6

(* put moves the first ready task, into the queue or behind those that are
   blocked, where no other update of its user is. *)
LEMMA PutLined ==
  ASSUME TypeOK, NEW u \in Users, Lined(u), PutUpdate, u \notin crowded'
  PROVE  Lined(u)'
<1> DEFINE n == Newest(u)
           r == Head(ready)
<1>1. /\ ready \in Seq(Update) /\ ready # <<>> /\ ready' = Tail(ready)
      /\ updates_queue \in Seq(Update) /\ putters \in Seq(Update)
      /\ u \notin Crowd(ready', putters')
      /\ UNCHANGED <<db, held, wire>>
  BY DEF PutUpdate, TypeOK, streamVars
<1>2. r \in Update /\ ready' \in Seq(Update) /\ ToSet(ready) = {r} \union ToSet(ready')
  BY <1>1, ToSetHeadTail
<1>3. /\ Follows(n, ready, {}) /\ Follows(n, putters, {})
      /\ Follows(n, updates_queue, ToSet(ready) \union ToSet(putters))
      /\ \A s \in Streams : /\ Follows(n, held[s], Queued)
                            /\ Follows(n, wire[s], ToSet(held[s]) \union Queued)
  BY DEF Lined
<1>4. Queued' = Queued /\ Newest(u)' = n /\ n.user = u
  BY <1>1, PutKeepsQueued DEF Newest
<1> HIDE DEF n
<1>5. Follows(n, ready', {})
  BY <1>1, <1>3, FollowsTail
<1>6. r.user = n.user /\ r # n => n \in ToSet(ready')
  BY <1>1, <1>3, FollowsHead
<1> HIDE DEF r
<1>7. Follows(n, putters', {}) /\ Follows(n, updates_queue', ToSet(ready') \union ToSet(putters'))
  <2>1. CASE updates_queue' = Append(updates_queue, r) /\ putters' = putters
    <3>1. Follows(n, updates_queue', ToSet(ready') \union ToSet(putters))
      BY <1>1, <1>2, <1>3, <1>6, <2>1, FollowsAppend
    <3>2. QED
      BY <1>3, <2>1, <3>1
  <2>2. CASE updates_queue' = updates_queue /\ putters' = Append(putters, r)
    <3>1. ToSet(putters') = ToSet(putters) \union {r}
      BY <1>1, <1>2, <2>2, ToSetAppend
    <3>2. Follows(n, updates_queue, ToSet(ready') \union ToSet(putters'))
      BY <1>2, <1>3, <3>1 DEF Follows
    <3>3. ASSUME r.user = u, r # n PROVE FALSE
      <4>1. PICK j \in DOMAIN ready' : ready'[j] = n
        BY <1>4, <1>6, <3>3 DEF ToSet
      <4>2. PICK i \in DOMAIN putters' : putters'[i] = r
        BY <3>1 DEF ToSet
      <4>3. ready'[j].user = u /\ putters'[i].user = u
        BY <1>4, <3>3, <4>1, <4>2
      <4>4. u \in Crowd(ready', putters')
        BY <4>1, <4>2, <4>3 DEF Crowd
      <4>5. QED
        BY <1>1, <4>4
    <3>4. Follows(n, putters', {})
      BY <1>1, <1>2, <1>3, <1>4, <2>2, <3>3, FollowsAppend
    <3>5. QED
      BY <2>2, <3>2, <3>4
  <2>3. QED
    BY <2>1, <2>2 DEF PutUpdate, r
<1>8. QED
  BY <1>1, <1>3, <1>4, <1>5, <1>7 DEF Lined

(* get takes the first of the queue, and lets a blocked put run after those
   that are ready, where no other update of its user is. *)
LEMMA TakeLined ==
  ASSUME TypeOK, WiresCut, NEW u \in Users, Lined(u), NEW s \in Streams, TakeUpdate(s),
         live = {s}
  PROVE  Lined(u)'
<1> DEFINE n == Newest(u)
           h == Head(updates_queue)
<1>1. /\ updates_queue \in Seq(Update) /\ updates_queue # <<>> /\ updates_queue' = Tail(updates_queue)
      /\ ready \in Seq(Update) /\ putters \in Seq(Update)
      /\ held' = [held EXCEPT ![s] = <<h>>]
      /\ UNCHANGED <<db, wire>>
  BY DEF TakeUpdate, TypeOK
<1>2. h \in Update /\ ToSet(updates_queue) = {h} \union ToSet(updates_queue')
  BY <1>1, ToSetHeadTail
<1>3. /\ Follows(n, ready, {}) /\ Follows(n, putters, {})
      /\ Follows(n, updates_queue, ToSet(ready) \union ToSet(putters))
      /\ Follows(n, wire[s], ToSet(held[s]) \union Queued)
      /\ u \notin Crowd(ready, putters)
  BY DEF Lined
<1>4. Newest(u)' = n /\ n.user = u
  BY <1>1 DEF Newest
<1> HIDE DEF n
<1>5. /\ ToSet(ready') \union ToSet(putters') = ToSet(ready) \union ToSet(putters)
      /\ u \notin Crowd(ready', putters')
      /\ Follows(n, ready', {}) /\ Follows(n, putters', {})
  <2>1. CASE putters = <<>>
    BY <1>3, <2>1 DEF TakeUpdate
  <2>2. CASE putters # <<>>
    <3> DEFINE p == Head(putters)
    <3>1. ready' = Append(ready, p) /\ putters' = Tail(putters)
      BY <2>2 DEF TakeUpdate
    <3>2. p \in Update /\ ToSet(putters) = {p} \union ToSet(putters')
      BY <1>1, <2>2, <3>1, ToSetHeadTail
    <3>3. /\ Len(putters) \in Nat /\ 1 \in DOMAIN putters /\ putters[1] = p
          /\ DOMAIN putters' = 1..(Len(putters) - 1)
          /\ \A i \in DOMAIN putters' : i + 1 \in DOMAIN putters /\ i + 1 # 1
                                        /\ putters'[i] = putters[i + 1]
      BY <1>1, <2>2, <3>1
    <3>4. /\ Len(ready) \in Nat /\ DOMAIN ready' = 1..(Len(ready) + 1)
          /\ ready'[Len(ready) + 1] = p
          /\ \A j \in 1..Len(ready) : j \in DOMAIN ready /\ ready'[j] = ready[j]
      BY <1>1, <3>1, <3>2
    <3>5. Follows(n, putters', {})
      BY <1>1, <1>3, <2>2, <3>1, FollowsTail
    <3>6. p.user = u => p = n
      BY <1>3, <1>4, <3>3, BlockedIsNewest
    <3> HIDE DEF p
    <3>7. Follows(n, ready', {})
      BY <1>1, <1>3, <1>4, <3>1, <3>2, <3>6, FollowsAppend
    <3>8. ToSet(ready') = ToSet(ready) \union {p}
      BY <1>1, <3>1, <3>2, ToSetAppend
    <3>9. u \notin Crowd(ready', putters')
      <4>1. SUFFICES ASSUME NEW i \in DOMAIN putters', putters'[i].user = u,
                            \/ \E j \in DOMAIN ready' : ready'[j].user = u
                            \/ \E j \in DOMAIN putters' : j # i /\ putters'[j].user = u
                     PROVE  FALSE
        BY DEF Crowd
      <4>2. i + 1 \in DOMAIN putters /\ i + 1 # 1 /\ putters[i + 1].user = u
        BY <3>3, <4>1
      <4>3. p.user # u
        BY <1>3, <3>3, <4>2, CrowdNeeds
      <4>4. CASE \E j \in DOMAIN ready' : ready'[j].user = u
        <5>1. PICK j \in DOMAIN ready' : ready'[j].user = u
          BY <4>4
        <5>2. j \in DOMAIN ready /\ ready[j].user = u
          BY <3>4, <4>3, <5>1
        <5>3. QED
          BY <1>3, <4>2, <5>2, CrowdNeeds
      <4>5. CASE \E j \in DOMAIN putters' : j # i /\ putters'[j].user = u
        <5>1. PICK j \in DOMAIN putters' : j # i /\ putters'[j].user = u
          BY <4>5
        <5>2. j + 1 \in DOMAIN putters /\ putters[j + 1].user = u /\ j \in Nat /\ i \in Nat
          BY <3>3, <5>1
        <5>3. j + 1 = i + 1
          BY <1>3, <4>2, <5>2, CrowdNeeds
        <5>4. QED
          BY <5>1, <5>2, <5>3
      <4>6. QED
        BY <4>1, <4>4, <4>5
    <3>10. QED
      BY <3>2, <3>5, <3>7, <3>8, <3>9
  <2>3. QED
    BY <2>1, <2>2
<1>6. Follows(n, updates_queue', ToSet(ready') \union ToSet(putters'))
  BY <1>1, <1>3, <1>5, FollowsTail
<1>7. h.user = n.user /\ h # n => n \in Queued'
  <2>1. h.user = n.user /\ h # n => n \in ToSet(updates_queue') \union ToSet(ready) \union ToSet(putters)
    BY <1>1, <1>3, FollowsHead
  <2>2. QED
    BY <1>5, <2>1 DEF Queued
<1>8. Queued = {h} \union Queued'
  BY <1>2, <1>5 DEF Queued
<1> HIDE DEF h
<1>9. ASSUME NEW t \in Streams
      PROVE  Follows(n, held'[t], Queued') /\ Follows(n, wire'[t], ToSet(held'[t]) \union Queued')
  <2>1. CASE t = s
    <3>1. held'[t] = <<h>> /\ ToSet(held'[t]) = {h} /\ ToSet(held[t]) = {}
      BY <1>1, <1>2, <2>1, ToSetSingle, ToSetEmpty DEF TypeOK, TakeUpdate
    <3>2. Follows(n, <<h>>, Queued')
      BY <1>7 DEF Follows
    <3>3. Follows(n, wire[t], ToSet(held'[t]) \union Queued')
      BY <1>3, <1>8, <2>1, <3>1 DEF Follows
    <3>4. QED
      BY <1>1, <3>1, <3>2, <3>3
  <2>2. CASE t # s
    <3>1. t \notin live
      BY <2>2
    <3>2. held'[t] = <<>> /\ wire'[t] = <<>>
      BY <1>1, <2>2, <3>1 DEF WiresCut, TypeOK
    <3>3. QED
      BY <3>2, FollowsEmpty
  <2>3. QED
    BY <2>1, <2>2
<1>10. QED
  BY <1>4, <1>5, <1>6, <1>9 DEF Lined

(* Sending takes what a task holds behind what it has sent, or loses it when
   nothing it sent is left. *)
LEMMA SendLined ==
  ASSUME TypeOK, WiresCut, NEW u \in Users, Lined(u), NEW s \in Streams, SendUpdate(s)
  PROVE  Lined(u)'
<1>1. /\ UNCHANGED <<db, ready, updates_queue, putters>>
      /\ held'[s] = <<>>
      /\ wire'[s] = IF call[s] = "ended" THEN wire[s] ELSE wire[s] \o held[s]
      /\ \A t \in Streams \ {s} : held'[t] = held[t] /\ wire'[t] = wire[t]
  BY DEF SendUpdate, panelVars, TypeOK
<1>2. CASE call[s] = "ended"
  <2>1. wire'[s] = <<>>
    BY <1>1, <1>2 DEF WiresCut
  <2>2. QED
    BY <1>1, <2>1, CutLined
<1>3. CASE call[s] # "ended"
  <2> DEFINE n == Newest(u)
  <2>1. Newest(u)' = n /\ Queued' = Queued
    BY <1>1 DEF Newest, Queued
  <2>2. /\ u \notin Crowd(ready, putters)
        /\ Follows(n, ready, {}) /\ Follows(n, putters, {})
        /\ Follows(n, updates_queue, ToSet(ready) \union ToSet(putters))
        /\ \A t \in Streams : /\ Follows(n, held[t], Queued)
                              /\ Follows(n, wire[t], ToSet(held[t]) \union Queued)
    BY DEF Lined
  <2> HIDE DEF n
  <2>3. Follows(n, wire[s] \o held[s], Queued)
    BY <2>2, FollowsConcat DEF TypeOK
  <2>4. Follows(n, wire'[s], ToSet(held'[s]) \union Queued)
    BY <1>1, <1>3, <2>3, ToSetEmpty
  <2>5. \A t \in Streams : /\ Follows(n, held'[t], Queued)
                           /\ Follows(n, wire'[t], ToSet(held'[t]) \union Queued)
    BY <1>1, <2>2, <2>4, FollowsEmpty
  <2>6. QED
    BY <1>1, <2>1, <2>2, <2>5 DEF Lined
<1>4. QED
  BY <1>2, <1>3

(* The node takes the first update off a wire. *)
LEMMA ReceiveLined ==
  ASSUME TypeOK, NEW u \in Users, Lined(u), NEW s \in Streams, NodeReceive(s)
  PROVE  Lined(u)'
<1> DEFINE n == Newest(u)
<1>1. /\ UNCHANGED <<db, ready, updates_queue, putters, held>>
      /\ wire[s] \in Seq(Update) /\ wire[s] # <<>> /\ wire'[s] = Tail(wire[s])
      /\ \A t \in Streams \ {s} : wire'[t] = wire[t]
  BY DEF NodeReceive, panelVars, TypeOK
<1>2. Newest(u)' = n /\ Queued' = Queued
  BY <1>1 DEF Newest, Queued
<1>3. /\ u \notin Crowd(ready, putters)
      /\ Follows(n, ready, {}) /\ Follows(n, putters, {})
      /\ Follows(n, updates_queue, ToSet(ready) \union ToSet(putters))
      /\ \A t \in Streams : /\ Follows(n, held[t], Queued)
                            /\ Follows(n, wire[t], ToSet(held[t]) \union Queued)
  BY DEF Lined
<1> HIDE DEF n
<1>4. \A t \in Streams : Follows(n, wire'[t], ToSet(held[t]) \union Queued)
  <2>1. Follows(n, wire[s], ToSet(held[s]) \union Queued)
    BY <1>3
  <2>2. Follows(n, Tail(wire[s]), ToSet(held[s]) \union Queued)
    BY <1>1, <2>1, FollowsTail
  <2>3. QED
    BY <1>1, <1>3, <2>2
<1>5. QED
  BY <1>1, <1>2, <1>3, <1>4 DEF Lined

(* Whatever interleaves, as long as one task streams: the updates of a user that
   is not crowded stay in line. *)
LEMMA LinedStep ==
  ASSUME TypeOK, WiresCut, OneStream, restarts = 0, [Next]_vars,
         \A u \in Users \ crowded : Lined(u)
  PROVE  \A u \in Users \ crowded' : Lined(u)'
<1> SUFFICES ASSUME NEW u \in Users, u \notin crowded' PROVE Lined(u)'
  OBVIOUS
<1>1. CASE PanelRestart
  <2>1. /\ ready' = <<>> /\ putters' = <<>> /\ updates_queue' = <<>>
        /\ \A s \in Streams : held'[s] = <<>> /\ wire'[s] = <<>>
    BY <1>1 DEF PanelRestart
  <2>2. u \notin Crowd(<<>>, <<>>)
    BY DEF Crowd
  <2>3. QED
    BY <2>1, <2>2, FollowsEmpty DEF Lined
<1>2. ASSUME u \notin crowded, db' = db, UNCHANGED <<ready, updates_queue, putters>>,
             \A s \in Streams : /\ held'[s] \in {held[s], <<>>}
                                /\ wire'[s] = <<>> \/ (wire'[s] = wire[s] /\ held'[s] = held[s])
      PROVE  Lined(u)'
  BY <1>2, CutLined
<1>3. ASSUME NEW v \in Users, ChangeUser(v) PROVE Lined(u)'
  <2>1. u \notin crowded
    BY <1>3 DEF ChangeUser
  <2>2. QED
    BY <1>3, <2>1, ChangeLined
<1>4. CASE PutUpdate
  <2>1. u \notin crowded
    BY <1>4 DEF PutUpdate
  <2>2. QED
    BY <1>4, <2>1, PutLined
<1>5. ASSUME NEW s \in Streams, TakeUpdate(s) PROVE Lined(u)'
  <2>1. live = {s} /\ u \notin crowded
    BY <1>5 DEF TakeUpdate, OneStream
  <2>2. QED
    BY <1>5, <2>1, TakeLined
<1>6. ASSUME NEW s \in Streams, SendUpdate(s) PROVE Lined(u)'
  <2>1. u \notin crowded
    BY <1>6 DEF SendUpdate, panelVars
  <2>2. QED
    BY <1>6, <2>1, SendLined
<1>7. ASSUME NEW s \in Streams, NodeReceive(s) PROVE Lined(u)'
  <2>1. u \notin crowded
    BY <1>7 DEF NodeReceive, panelVars
  <2>2. QED
    BY <1>7, <2>1, ReceiveLined
<1>8. ASSUME NEW s \in Streams, SendFails(s) PROVE Lined(u)'
  <2>1. wire[s] = <<>>
    BY <1>8 DEF SendFails, CannotSend, WiresCut
  <2>2. QED
    BY <1>2, <1>8, <2>1 DEF SendFails, panelVars, TypeOK
<1>9. ASSUME NEW s \in Streams, StreamReset(s) PROVE Lined(u)'
  BY <1>2, <1>9 DEF StreamReset, panelVars, TypeOK
<1>10. CASE MonitorTimeout
  <2>1. \A s \in Streams : wire[s] = <<>>
    BY <1>10 DEF MonitorTimeout, WiresCut
  <2>2. QED
    BY <1>2, <1>10, <2>1 DEF MonitorTimeout, panelVars
<1>11. CASE Stop \/ Disconnect
  BY <1>2, <1>11 DEF Stop, Disconnect, panelVars
<1>12. ASSUME UNCHANGED <<db, panelVars, held, wire>> PROVE Lined(u)'
  BY <1>2, <1>12 DEF panelVars
<1>13. ASSUME NEW c \in Callers, ListUsers(c) \/ NodeRepopulate(c) PROVE Lined(u)'
  BY <1>12, <1>13 DEF ListUsers, NodeRepopulate, streamVars
<1>14. ASSUME NEW s \in Streams, MonitorSynced(s) PROVE Lined(u)'
  BY <1>12, <1>14 DEF MonitorSynced
<1>15. ASSUME \/ MonitorConnected \/ MonitorSyncFails \/ MonitorWakes
              \/ RestartBackend \/ BackendRestarted \/ RestartSynced \/ RestartFails
              \/ CallFails \/ Reconnect \/ UNCHANGED vars
       PROVE  Lined(u)'
  BY <1>12, <1>15 DEF MonitorConnected, MonitorSyncFails, MonitorWakes, RestartBackend,
     BackendRestarted, RestartSynced, RestartFails, CallFails, Reconnect, vars, streamVars
<1>16. QED
  BY <1>1, <1>3, <1>4, <1>5, <1>6, <1>7, <1>8, <1>9, <1>10, <1>11, <1>13, <1>14, <1>15
  DEF Next, Stream, Monitor, Restart, Callers

(* No step leaves the node with an older configuration than it will get. *)
LEMMA InOrderStep ==
  TypeOK /\ WiresCut /\ Covered /\ InOrder /\ [Next]_vars => InOrder'
<1> SUFFICES ASSUME TypeOK, WiresCut, Covered, InOrder, [Next]_vars, restarts' = 0
             PROVE  InOrder'
  BY DEF InOrder
<1>b. /\ restarts = 0
      /\ live = IF synced THEN {streaming_task} ELSE {}
      /\ pc["restart"] = "idle"
      /\ pc["monitor"] \in InFlight \union {"broken"} => ~synced
  BY RestartsGrow DEF Covered, OneStream, SyncCovers
<1>c. Streaming => \A u \in Users \ crowded : table[u] = db[u] \/ Newest(u) \in Pending
  BY <1>b DEF InOrder
<1>d. pc["monitor"] = "repopulate" =>
        \A u \in Users : snap["monitor"][u] = db[u] \/ Newest(u) \in Queued
  BY <1>b DEF Covered, SyncCovers
<1>e. pc["monitor"] = "replied" =>
        \A u \in Users \ crowded : table[u] = db[u] \/ Newest(u) \in Queued
  BY <1>b DEF InOrder
<1>l. \A u \in Users \ crowded : Lined(u)
  BY <1>b DEF InOrder
<1>m. \A u \in Users \ crowded' : Lined(u)'
  BY <1>b, <1>l, LinedStep DEF Covered
<1>f. ASSUME ~Streaming', pc'["monitor"] # "replied" PROVE InOrder'
  BY <1>f, <1>m DEF InOrder
<1>h. ASSUME ~synced', pc'["monitor"] # "replied" PROVE InOrder'
  BY <1>f, <1>h DEF Streaming
<1> USE DEF InFlight
<1>1. ASSUME NEW u \in Users, ChangeUser(u) PROVE InOrder'
  <2>1. /\ Newest(u)' \in Queued'
        /\ Queued \subseteq Queued' /\ Pending \subseteq Pending'
        /\ Queued' \subseteq Pending'
    BY <1>1, ChangeQueues DEF Pending
  <2>2. /\ \A v \in Users \ {u} : db'[v] = db[v] /\ Newest(v)' = Newest(v)
        /\ UNCHANGED <<streamVars, syncVars, nodeVars>>
        /\ crowded \subseteq crowded'
    BY <1>1 DEF ChangeUser, Newest, TypeOK
  <2>3. Streaming' = Streaming /\ table' = table /\ pc' = pc
    BY <2>2 DEF Streaming, streamVars, syncVars, nodeVars
  <2>4. QED
    BY <1>c, <1>e, <1>m, <2>1, <2>2, <2>3 DEF InOrder
<1>2. ASSUME Queued' = Queued, Pending' = Pending, db' = db, table' = table,
             crowded \subseteq crowded', Streaming' => Streaming,
             pc'["monitor"] = "replied" => pc["monitor"] = "replied"
      PROVE  InOrder'
  BY <1>2, <1>c, <1>e, <1>m DEF InOrder, Newest
<1>3. CASE PutUpdate
  BY <1>2, <1>3, PutKeepsQueued DEF PutUpdate, streamVars, syncVars, nodeVars, Streaming
<1>4. ASSUME NEW s \in Streams, TakeUpdate(s) \/ SendUpdate(s) PROVE InOrder'
  <2>1. synced /\ s = streaming_task
    BY <1>4, <1>b DEF TakeUpdate, SendUpdate, WiresCut
  <2>2. /\ call[s] # "ended" => Pending' = Pending
        /\ call'[s] = "ended" => call[s] = "ended"
        /\ call[s] = "ended" => call'[s] = "ended"
        /\ UNCHANGED <<db, crowded, streaming_task, live, kept, synced, pc, table>>
    BY <1>4, TakeKeepsPending, SendMoves
    DEF TakeUpdate, SendUpdate, syncVars, nodeVars, panelVars, TypeOK
  <2>3. Streaming' => Streaming /\ Pending' = Pending
    BY <2>1, <2>2 DEF Streaming
  <2>4. pc'["monitor"] # "replied"
    BY <1>b, <2>1, <2>2
  <2>5. QED
    BY <1>c, <1>m, <2>2, <2>3, <2>4 DEF InOrder, Newest
<1>5. ASSUME NEW s \in Streams, SendFails(s) PROVE InOrder'
  <2>1. synced /\ synced' = FALSE /\ pc' = pc
    BY <1>5, <1>b DEF SendFails, WiresCut
  <2>2. QED
    BY <1>b, <1>h, <2>1
<1>6. ASSUME NEW c \in Callers, ListUsers(c) PROVE InOrder'
  <2>1. c = "monitor"
    BY <1>6, <1>b DEF ListUsers, Callers
  <2>2. pc'["monitor"] = "repopulate" /\ ~synced'
    BY <1>6, <1>b, <2>1 DEF ListUsers, TypeOK
  <2>3. QED
    BY <1>h, <2>2
<1>7. ASSUME NEW c \in Callers, NodeRepopulate(c) PROVE InOrder'
  <2>1. c = "monitor"
    BY <1>7, <1>b DEF NodeRepopulate, Callers
  <2>2. /\ pc["monitor"] = "repopulate" /\ ~synced'
        /\ table' = snap["monitor"] /\ db' = db /\ Queued' = Queued
    BY <1>7, <1>b, <2>1, PendingKept DEF NodeRepopulate, streamVars
  <2>3. QED
    BY <1>d, <1>m, <2>2 DEF InOrder, Newest, Streaming
<1>8. ASSUME MonitorConnected \/ MonitorSyncFails \/ MonitorWakes PROVE InOrder'
  <2>1. /\ pc'["monitor"] # "replied"
        /\ UNCHANGED <<db, crowded, streaming_task, live, call, kept, synced, table>>
        /\ Queued' = Queued /\ Pending' = Pending
    BY <1>8, PendingKept
    DEF MonitorConnected, MonitorSyncFails, MonitorWakes, panelVars, streamVars, nodeVars,
        TypeOK, Callers
  <2>2. QED
    BY <1>2, <2>1 DEF Streaming
<1>9. CASE MonitorTimeout
  <2>1. synced' = FALSE /\ pc'["monitor"] = "sleep"
    BY <1>9 DEF MonitorTimeout, TypeOK, Callers
  <2>2. QED
    BY <1>h, <2>1
<1>10. ASSUME NEW s \in Streams, MonitorSynced(s) PROVE InOrder'
  <2>1. /\ pc["monitor"] = "replied" /\ pc'["monitor"] = "sleep"
        /\ Queued' = Queued /\ Pending' = Pending
        /\ db' = db /\ table' = table /\ crowded' = crowded
    BY <1>10, PendingKept DEF MonitorSynced, TypeOK, Callers, nodeVars, panelVars
  <2>2. Queued \subseteq Pending
    BY DEF Pending
  <2>3. QED
    BY <1>e, <1>m, <2>1, <2>2 DEF InOrder, Newest
<1>11. ASSUME RestartBackend \/ BackendRestarted \/ RestartSynced \/ RestartFails
       PROVE  InOrder'
  <2>1. restarts \in Nat
    BY DEF TypeOK
  <2>2. CASE RestartBackend
    BY <1>b, <2>1, <2>2 DEF RestartBackend
  <2>3. QED
    BY <1>11, <1>b, <2>2 DEF BackendRestarted, RestartSynced, RestartFails
<1>12. ASSUME Stop \/ Disconnect PROVE InOrder'
  <2>1. ~kept'
    BY <1>12 DEF Stop, Disconnect
  <2>2. pc'["monitor"] # "replied"
    BY <1>12 DEF Stop, Disconnect, Callers
  <2>3. QED
    BY <1>f, <2>1, <2>2 DEF Streaming
<1>13. ASSUME NEW s \in Streams, NodeReceive(s) PROVE InOrder'
  <2> DEFINE m == Head(wire[s])
  <2>1. m \in Pending /\ Pending = Pending' \union {m} /\ Queued' = Queued
    BY <1>13, ReceiveMoves
  <2>2. m.user \in Users
    BY <2>1, PendingType DEF Update
  <2>3. /\ table' = [table EXCEPT ![m.user] = m.version]
        /\ wire[s] \in Seq(Update) /\ wire[s] # <<>> /\ wire'[s] = Tail(wire[s])
        /\ UNCHANGED <<db, crowded, streaming_task, live, held, call, kept, synced, pc>>
    BY <1>13 DEF NodeReceive, syncVars, panelVars, TypeOK
  <2>4. synced
    BY <1>13, <1>b DEF NodeReceive, WiresCut
  <2>5. ASSUME NEW u \in Users \ crowded, m.user = u, m # Newest(u) PROVE Newest(u) \in Pending'
    <3>1. Follows(Newest(u), wire[s], ToSet(held[s]) \union Queued) /\ Newest(u).user = u
      BY <1>l, <2>5 DEF Lined, Newest
    <3>2. Newest(u) \in ToSet(wire'[s]) \union ToSet(held[s]) \union Queued
      BY <2>3, <2>5, <3>1, FollowsHead
    <3>3. QED
      BY <2>1, <2>3, <3>2 DEF Pending
  <2> HIDE DEF m
  <2>6. ASSUME NEW u \in Users \ crowded, table[u] = db[u] \/ Newest(u) \in Pending
        PROVE  table'[u] = db[u] \/ Newest(u) \in Pending'
    <3>1. CASE m.user = u /\ m = Newest(u)
      BY <2>3, <3>1 DEF TypeOK, Newest
    <3>2. CASE m.user = u /\ m # Newest(u)
      BY <2>5, <3>2
    <3>3. CASE m.user # u
      <4>1. table'[u] = table[u] /\ Newest(u) # m
        BY <2>3, <3>3 DEF TypeOK, Newest
      <4>2. QED
        BY <2>1, <2>6, <4>1
    <3>4. QED
      BY <3>1, <3>2, <3>3
  <2>7. pc'["monitor"] # "replied" /\ Streaming' = Streaming
    BY <1>b, <2>3, <2>4 DEF Streaming
  <2>8. QED
    BY <1>c, <1>m, <2>3, <2>6, <2>7 DEF InOrder, Newest
<1>14. ASSUME NEW s \in Streams, StreamReset(s) PROVE InOrder'
  <2>1. synced /\ s = streaming_task
    BY <1>14, <1>b DEF StreamReset
  <2>2. call'[s] = "ended" /\ UNCHANGED <<streaming_task, pc>>
    BY <1>14 DEF StreamReset, TypeOK, syncVars
  <2>3. QED
    BY <1>b, <1>f, <2>1, <2>2 DEF Streaming
<1>15. CASE CallFails
  <2>1. pc'["monitor"] = "broken" /\ ~synced'
    BY <1>15, <1>b DEF CallFails, TypeOK, Callers
  <2>2. QED
    BY <1>h, <2>1
<1>16. CASE PanelRestart
  <2>1. synced' = FALSE /\ pc'["monitor"] = "connect"
    BY <1>16 DEF PanelRestart, Callers
  <2>2. QED
    BY <1>h, <2>1
<1>17. ASSUME Reconnect \/ UNCHANGED vars PROVE InOrder'
  BY <1>2, <1>17, PendingKept
  DEF Reconnect, vars, panelVars, streamVars, syncVars, nodeVars, Streaming
<1>18. QED
  BY <1>1, <1>3, <1>4, <1>5, <1>6, <1>7, <1>8, <1>9, <1>10, <1>11, <1>12, <1>13,
     <1>14, <1>15, <1>16, <1>17
  DEF Next, Stream, Monitor, Restart, Callers

(* As long as no backend was restarted, the node ends up with the newest
   configuration of every user, whatever changes, faults and synchronisations
   come between, unless one update of the user was blocked in put while another
   was to be put. *)
THEOREM LastWins == Spec => []LastChangeWins
<1>1. Init => InOrder
  <2> SUFFICES ASSUME Init PROVE InOrder
    OBVIOUS
  <2>1. /\ ready = <<>> /\ updates_queue = <<>> /\ putters = <<>>
        /\ \A s \in Streams : held[s] = <<>> /\ wire[s] = <<>>
    BY DEF Init
  <2>2. \A u \in Users : Lined(u)
    BY <2>1, FollowsEmpty DEF Lined, Crowd
  <2>3. pc["monitor"] # "replied" /\ ~Streaming
    BY DEF Init, Streaming, Callers
  <2>4. QED
    BY <2>2, <2>3 DEF InOrder
<1>2. Invariants /\ InOrder /\ [Next]_vars => InOrder'
  BY InOrderStep DEF Invariants
<1>3. InOrder => LastChangeWins
  <2> SUFFICES ASSUME InOrder, restarts = 0, Settled, NEW u \in Users \ crowded
               PROVE  table[u] = db[u]
    BY DEF LastChangeWins
  <2>1. QED
    BY DEF InOrder, Settled
<1>4. QED
  BY <1>1, <1>2, <1>3, InvariantsHold, PTL DEF Spec

-----------------------------------------------------------------------------
(* No update is in two places *)

(* What the tasks on one call hold and have sent. *)
Carried(s) == ToSet(held[s]) \union ToSet(wire[s])

(* Every queue holds distinct updates, and no two queues share one. *)
QueuesApart ==
  /\ IsInjective(ready) /\ IsInjective(updates_queue) /\ IsInjective(putters)
  /\ ToSet(ready) \intersect ToSet(updates_queue) = {}
  /\ ToSet(ready) \intersect ToSet(putters) = {}
  /\ ToSet(updates_queue) \intersect ToSet(putters) = {}

StreamsApart ==
  /\ \A s \in Streams : /\ IsInjective(held[s]) /\ IsInjective(wire[s])
                        /\ ToSet(held[s]) \intersect ToSet(wire[s]) = {}
                        /\ Carried(s) \intersect Queued = {}
  /\ \A s, t \in Streams : s # t => Carried(s) \intersect Carried(t) = {}

Apart == QueuesApart /\ StreamsApart

(* Cutting tasks or wires keeps what is left apart. *)
LEMMA CutApart ==
  ASSUME Apart, UNCHANGED panelVars,
         \A s \in Streams : held'[s] \in {held[s], <<>>} /\ wire'[s] \in {wire[s], <<>>}
  PROVE  Apart'
<1>1. QueuesApart' /\ Queued' = Queued
  BY DEF Apart, QueuesApart, panelVars, Queued
<1>2. \A s \in Streams : /\ IsInjective(held'[s]) /\ IsInjective(wire'[s])
                         /\ ToSet(held'[s]) \subseteq ToSet(held[s])
                         /\ ToSet(wire'[s]) \subseteq ToSet(wire[s])
  BY ToSetEmpty, InjectiveShort DEF Apart, StreamsApart
<1>3. \A s \in Streams : Carried(s)' \subseteq Carried(s)
  BY <1>2 DEF Carried
<1>4. \A s \in Streams : /\ ToSet(held[s]) \intersect ToSet(wire[s]) = {}
                         /\ Carried(s) \intersect Queued = {}
  BY DEF Apart, StreamsApart
<1>5. \A s \in Streams : /\ ToSet(held'[s]) \intersect ToSet(wire'[s]) = {}
                         /\ Carried(s)' \intersect Queued' = {}
  BY <1>1, <1>2, <1>3, <1>4
<1>6. \A s, t \in Streams : s # t => Carried(s)' \intersect Carried(t)' = {}
  BY <1>3 DEF Apart, StreamsApart
<1>7. QED
  BY <1>1, <1>2, <1>5, <1>6 DEF Apart, StreamsApart

(* A new update is none that is pending: its number is a new one. *)
LEMMA NewIsNew ==
  ASSUME TypeOK, OnlyCommitted, NEW u \in Users
  PROVE  [user |-> u, version |-> db[u] + 1] \notin Pending
<1> DEFINE m == [user |-> u, version |-> db[u] + 1]
<1>1. m.user = u /\ m.version = db[u] + 1 /\ db[u] \in Nat
  BY DEF TypeOK
<1>2. ~(m.version <= db[m.user])
  BY <1>1
<1>3. QED
  BY <1>2 DEF OnlyCommitted

LEMMA ApartStep == TypeOK /\ OnlyCommitted /\ Apart /\ [Next]_vars => Apart'
<1> SUFFICES ASSUME TypeOK, OnlyCommitted, Apart, [Next]_vars
             PROVE  Apart'
  OBVIOUS
<1>a. \A s \in Streams : held[s] \in Seq(Update) /\ wire[s] \in Seq(Update)
  BY DEF TypeOK
<1>b. ready \in Seq(Update) /\ updates_queue \in Seq(Update) /\ putters \in Seq(Update)
  BY DEF TypeOK
<1>c. ASSUME UNCHANGED <<panelVars, held, wire>> PROVE Apart'
  BY <1>c, CutApart
<1>1. ASSUME NEW u \in Users, ChangeUser(u) PROVE Apart'
  <2> DEFINE m == [user |-> u, version |-> db[u] + 1]
  <2>1. ready' = Append(ready, m) /\ UNCHANGED <<updates_queue, putters, held, wire>>
    BY <1>1 DEF ChangeUser, streamVars
  <2>2. m \in Update
    BY DEF TypeOK, Update
  <2>3. /\ m \notin Queued
        /\ \A s \in Streams : m \notin Carried(s)
    BY NewIsNew DEF Pending, Carried
  <2> HIDE DEF m
  <2>4. m \notin ToSet(ready) /\ m \notin ToSet(updates_queue) /\ m \notin ToSet(putters)
    BY <2>3 DEF Queued
  <2>5. IsInjective(ready') /\ ToSet(ready') = ToSet(ready) \union {m}
    BY <1>b, <2>1, <2>2, <2>4, InjectiveAppend, ToSetAppend DEF Apart, QueuesApart
  <2>6. QueuesApart'
    BY <2>1, <2>4, <2>5 DEF Apart, QueuesApart
  <2>7. Queued' = Queued \union {m} /\ \A s \in Streams : Carried(s)' = Carried(s)
    BY <2>1, <2>5 DEF Queued, Carried
  <2>8. \A s \in Streams : Carried(s)' \intersect Queued' = {}
    BY <2>3, <2>7 DEF Apart, StreamsApart
  <2>9. StreamsApart'
    BY <2>1, <2>7, <2>8 DEF Apart, StreamsApart
  <2>10. QED
    BY <2>6, <2>9 DEF Apart
<1>2. CASE PutUpdate
  <2>1. /\ ready # <<>> /\ ready' = Tail(ready)
        /\ UNCHANGED <<held, wire>>
    BY <1>2 DEF PutUpdate, streamVars
  <2>2. /\ IsInjective(ready') /\ Head(ready) \notin ToSet(ready')
        /\ Head(ready) \in Update
        /\ ToSet(ready) = {Head(ready)} \union ToSet(ready')
    BY <1>b, <2>1, InjectiveTail, ToSetHeadTail DEF Apart, QueuesApart
  <2>3. Queued' = Queued
    BY <1>2, PutKeepsQueued
  <2>4. Head(ready) \notin ToSet(updates_queue) /\ Head(ready) \notin ToSet(putters)
    BY <2>2 DEF Apart, QueuesApart
  <2>5. ASSUME updates_queue' = Append(updates_queue, Head(ready)), putters' = putters
        PROVE  QueuesApart'
    <3>1. /\ IsInjective(updates_queue')
          /\ ToSet(updates_queue') = ToSet(updates_queue) \union {Head(ready)}
      BY <1>b, <2>2, <2>4, <2>5, InjectiveAppend, ToSetAppend DEF Apart, QueuesApart
    <3>2. QED
      BY <2>2, <2>4, <2>5, <3>1 DEF Apart, QueuesApart
  <2>6. ASSUME putters' = Append(putters, Head(ready)), updates_queue' = updates_queue
        PROVE  QueuesApart'
    <3>1. /\ IsInjective(putters')
          /\ ToSet(putters') = ToSet(putters) \union {Head(ready)}
      BY <1>b, <2>2, <2>4, <2>6, InjectiveAppend, ToSetAppend DEF Apart, QueuesApart
    <3>2. QED
      BY <2>2, <2>4, <2>6, <3>1 DEF Apart, QueuesApart
  <2>7. QueuesApart'
    BY <1>2, <2>5, <2>6 DEF PutUpdate
  <2>8. StreamsApart'
    BY <2>1, <2>3 DEF Apart, StreamsApart, Carried
  <2>9. QED
    BY <2>7, <2>8 DEF Apart
<1>3. ASSUME NEW s \in Streams, TakeUpdate(s) PROVE Apart'
  <2> DEFINE m == Head(updates_queue)
  <2>1. /\ updates_queue # <<>> /\ updates_queue' = Tail(updates_queue)
        /\ held' = [held EXCEPT ![s] = <<m>>]
        /\ held[s] = <<>> /\ wire' = wire
    BY <1>3 DEF TakeUpdate
  <2>2. /\ IsInjective(updates_queue') /\ m \notin ToSet(updates_queue')
        /\ m \in Update
        /\ ToSet(updates_queue) = {m} \union ToSet(updates_queue')
    BY <1>b, <2>1, InjectiveTail, ToSetHeadTail DEF Apart, QueuesApart
  <2>3. m \notin ToSet(ready) /\ m \notin ToSet(putters)
    BY <2>2 DEF Apart, QueuesApart
  <2>4. \A t \in Streams : m \notin Carried(t)
    BY <2>2 DEF Apart, StreamsApart, Queued
  <2>5. /\ IsInjective(held'[s]) /\ ToSet(held'[s]) = {m}
        /\ \A t \in Streams \ {s} : held'[t] = held[t]
    BY <2>1, <2>2, InjectiveShort, ToSetSingle DEF TypeOK
  <2> HIDE DEF m
  <2>6. /\ IsInjective(ready') /\ IsInjective(putters')
        /\ ToSet(ready') \intersect ToSet(putters') = {}
        /\ ToSet(ready') \union ToSet(putters') = ToSet(ready) \union ToSet(putters)
    <3>1. CASE putters = <<>>
      <4>1. ready' = ready /\ putters' = putters
        BY <1>3, <3>1 DEF TakeUpdate
      <4>2. QED
        BY <4>1 DEF Apart, QueuesApart
    <3>2. CASE putters # <<>>
      <4>1. ready' = Append(ready, Head(putters)) /\ putters' = Tail(putters)
        BY <1>3, <3>2 DEF TakeUpdate
      <4>2. /\ IsInjective(putters') /\ Head(putters) \notin ToSet(putters')
            /\ Head(putters) \in Update
            /\ ToSet(putters) = {Head(putters)} \union ToSet(putters')
        BY <1>b, <3>2, <4>1, InjectiveTail, ToSetHeadTail DEF Apart, QueuesApart
      <4>3. Head(putters) \notin ToSet(ready)
        BY <4>2 DEF Apart, QueuesApart
      <4>4. /\ IsInjective(ready')
            /\ ToSet(ready') = ToSet(ready) \union {Head(putters)}
        BY <1>b, <4>1, <4>2, <4>3, InjectiveAppend, ToSetAppend DEF Apart, QueuesApart
      <4>5. ToSet(ready) \intersect ToSet(putters) = {}
        BY DEF Apart, QueuesApart
      <4>6. QED
        BY <4>2, <4>4, <4>5
    <3>3. QED
      BY <3>1, <3>2
  <2>7. QueuesApart'
    <3>1. /\ ToSet(ready) \intersect ToSet(updates_queue) = {}
          /\ ToSet(updates_queue) \intersect ToSet(putters) = {}
      BY DEF Apart, QueuesApart
    <3>2. /\ ToSet(ready') \intersect ToSet(updates_queue') = {}
          /\ ToSet(updates_queue') \intersect ToSet(putters') = {}
      BY <2>2, <2>6, <3>1
    <3>3. QED
      BY <2>2, <2>6, <3>2 DEF QueuesApart
  <2>8. Queued' = Queued \ {m}
    BY <2>2, <2>3, <2>6 DEF Queued
  <2>9. /\ Carried(s)' = Carried(s) \union {m}
        /\ \A t \in Streams \ {s} : Carried(t)' = Carried(t)
    BY <2>1, <2>5, ToSetEmpty DEF Carried
  <2>10. \A t \in Streams : Carried(t)' \intersect Queued' = {}
    BY <2>8, <2>9 DEF Apart, StreamsApart
  <2>11. \A t, r \in Streams : t # r => Carried(t)' \intersect Carried(r)' = {}
    BY <2>4, <2>9 DEF Apart, StreamsApart
  <2>12. \A t \in Streams : /\ IsInjective(held'[t]) /\ IsInjective(wire'[t])
                            /\ ToSet(held'[t]) \intersect ToSet(wire'[t]) = {}
    BY <2>1, <2>4, <2>5 DEF Apart, StreamsApart, Carried
  <2>13. QED
    BY <2>7, <2>10, <2>11, <2>12 DEF Apart, StreamsApart
<1>4. ASSUME NEW s \in Streams, SendUpdate(s) PROVE Apart'
  <2>1. /\ held' = [held EXCEPT ![s] = <<>>]
        /\ wire' = IF call[s] = "ended" THEN wire ELSE [wire EXCEPT ![s] = wire[s] \o held[s]]
        /\ UNCHANGED panelVars
    BY <1>4 DEF SendUpdate
  <2>2. CASE call[s] = "ended"
    <3>1. \A t \in Streams : held'[t] \in {held[t], <<>>} /\ wire'[t] \in {wire[t], <<>>}
      BY <2>1, <2>2 DEF TypeOK
    <3>2. QED
      BY <2>1, <3>1, CutApart
  <2>3. CASE call[s] # "ended"
    <3>1. /\ held'[s] = <<>> /\ wire'[s] = wire[s] \o held[s]
          /\ \A t \in Streams \ {s} : held'[t] = held[t] /\ wire'[t] = wire[t]
      BY <2>1, <2>3 DEF TypeOK
    <3>2. /\ IsInjective(wire[s]) /\ IsInjective(held[s])
          /\ ToSet(wire[s]) \intersect ToSet(held[s]) = {}
      BY DEF Apart, StreamsApart
    <3>3. IsInjective(wire'[s]) /\ ToSet(wire'[s]) = ToSet(wire[s]) \union ToSet(held[s])
      BY <1>a, <3>1, <3>2, InjectiveConcat, ToSetConcat
    <3>4. IsInjective(held'[s]) /\ ToSet(held'[s]) = {}
      BY <3>1, InjectiveShort, ToSetEmpty
    <3>5. \A t \in Streams : Carried(t)' = Carried(t)
      BY <3>1, <3>3, <3>4 DEF Carried
    <3>6. QueuesApart' /\ Queued' = Queued
      BY <2>1 DEF Apart, QueuesApart, panelVars, Queued
    <3>7. \A t \in Streams : /\ IsInjective(held'[t]) /\ IsInjective(wire'[t])
                             /\ ToSet(held'[t]) \intersect ToSet(wire'[t]) = {}
      BY <3>1, <3>3, <3>4 DEF Apart, StreamsApart
    <3>8. QED
      BY <3>5, <3>6, <3>7 DEF Apart, StreamsApart
  <2>4. QED
    BY <2>2, <2>3
<1>5. ASSUME NEW s \in Streams, SendFails(s) PROVE Apart'
  <2>1. \A t \in Streams : held'[t] \in {held[t], <<>>} /\ wire'[t] \in {wire[t], <<>>}
    BY <1>5 DEF SendFails, TypeOK
  <2>2. QED
    BY <1>5, <2>1, CutApart DEF SendFails
<1>6. CASE MonitorTimeout
  <2>1. \A t \in Streams : held'[t] \in {held[t], <<>>} /\ wire'[t] \in {wire[t], <<>>}
    BY <1>6 DEF MonitorTimeout
  <2>2. QED
    BY <1>6, <2>1, CutApart DEF MonitorTimeout
<1>7. CASE Stop
  <2>1. \A t \in Streams : held'[t] \in {held[t], <<>>} /\ wire'[t] \in {wire[t], <<>>}
    BY <1>7 DEF Stop
  <2>2. QED
    BY <1>7, <2>1, CutApart DEF Stop
<1>8. CASE Disconnect
  <2>1. \A t \in Streams : held'[t] \in {held[t], <<>>} /\ wire'[t] \in {wire[t], <<>>}
    BY <1>8 DEF Disconnect
  <2>2. QED
    BY <1>8, <2>1, CutApart DEF Disconnect
<1>9. ASSUME NEW s \in Streams, StreamReset(s) PROVE Apart'
  <2>1. \A t \in Streams : held'[t] \in {held[t], <<>>} /\ wire'[t] \in {wire[t], <<>>}
    BY <1>9 DEF StreamReset, TypeOK
  <2>2. QED
    BY <1>9, <2>1, CutApart DEF StreamReset
<1>10. ASSUME NEW s \in Streams, NodeReceive(s) PROVE Apart'
  <2>1. /\ wire[s] # <<>> /\ wire' = [wire EXCEPT ![s] = Tail(wire[s])]
        /\ held' = held /\ UNCHANGED panelVars
    BY <1>10 DEF NodeReceive
  <2>2. /\ wire'[s] = Tail(wire[s])
        /\ \A t \in Streams \ {s} : wire'[t] = wire[t]
    BY <2>1 DEF TypeOK
  <2>3. IsInjective(wire'[s]) /\ ToSet(wire'[s]) \subseteq ToSet(wire[s])
    BY <1>a, <2>1, <2>2, InjectiveTail, ToSetHeadTail DEF Apart, StreamsApart
  <2>4. \A t \in Streams : Carried(t)' \subseteq Carried(t)
    BY <2>1, <2>2, <2>3 DEF Carried
  <2>5. QueuesApart' /\ Queued' = Queued
    BY <2>1 DEF Apart, QueuesApart, panelVars, Queued
  <2>6. \A t \in Streams : /\ IsInjective(held'[t]) /\ IsInjective(wire'[t])
                           /\ ToSet(held'[t]) \intersect ToSet(wire'[t]) = {}
    BY <2>1, <2>2, <2>3 DEF Apart, StreamsApart
  <2>7. \A t \in Streams : Carried(t)' \intersect Queued' = {}
    BY <2>4, <2>5 DEF Apart, StreamsApart
  <2>8. \A t, r \in Streams : t # r => Carried(t)' \intersect Carried(r)' = {}
    BY <2>4 DEF Apart, StreamsApart
  <2>9. QED
    BY <2>5, <2>6, <2>7, <2>8 DEF Apart, StreamsApart
<1>11. CASE PanelRestart
  <2>1. /\ ready' = <<>> /\ updates_queue' = <<>> /\ putters' = <<>>
        /\ \A t \in Streams : held'[t] = <<>> /\ wire'[t] = <<>>
    BY <1>11 DEF PanelRestart
  <2>2. QueuesApart'
    BY <2>1, ToSetEmpty, InjectiveShort DEF QueuesApart
  <2>3. StreamsApart'
    BY <2>1, ToSetEmpty, InjectiveShort DEF StreamsApart, Carried
  <2>4. QED
    BY <2>2, <2>3 DEF Apart
<1>12. ASSUME NEW c \in Callers, ListUsers(c) \/ NodeRepopulate(c) PROVE Apart'
  BY <1>c, <1>12 DEF ListUsers, NodeRepopulate, streamVars
<1>13. ASSUME NEW s \in Streams, MonitorSynced(s) PROVE Apart'
  BY <1>c, <1>13 DEF MonitorSynced
<1>14. ASSUME \/ MonitorConnected \/ MonitorSyncFails \/ MonitorWakes
              \/ RestartBackend \/ BackendRestarted \/ RestartSynced \/ RestartFails
              \/ CallFails \/ Reconnect \/ UNCHANGED vars
       PROVE  Apart'
  BY <1>c, <1>14 DEF MonitorConnected, MonitorSyncFails, MonitorWakes, RestartBackend,
     BackendRestarted, RestartSynced, RestartFails, CallFails, Reconnect, vars, streamVars
<1>15. QED
  BY <1>1, <1>2, <1>3, <1>4, <1>5, <1>6, <1>7, <1>8, <1>9, <1>10, <1>11, <1>12, <1>13, <1>14
  DEF Next, Stream, Monitor, Restart, Callers

(* What is apart is in one place, at one position of it. *)
LEMMA ApartIsOnce == TypeOK /\ Apart => NoDuplicate
<1> SUFFICES ASSUME TypeOK, Apart,
                    NEW p \in Places, NEW q \in Places,
                    NEW i \in DOMAIN At(p), NEW j \in DOMAIN At(q), At(p)[i] = At(q)[j]
             PROVE  p = q /\ i = j
  BY DEF NoDuplicate
<1>1. At(p)[i] \in ToSet(At(p)) /\ At(q)[j] \in ToSet(At(q))
  BY DEF ToSet
<1>2. ASSUME NEW r \in Places
      PROVE  /\ IsInjective(At(r))
             /\ \/ r = <<"ready", NoStream>> /\ At(r) = ready
                \/ r = <<"updates_queue", NoStream>> /\ At(r) = updates_queue
                \/ r = <<"putters", NoStream>> /\ At(r) = putters
                \/ \E s \in Streams : r = <<"held", s>> /\ At(r) = held[s]
                \/ \E s \in Streams : r = <<"wire", s>> /\ At(r) = wire[s]
  BY DEF Places, At, Apart, QueuesApart, StreamsApart
<1>3. p = q
  <2>1. \A s \in Streams : ToSet(held[s]) \subseteq Carried(s) /\ ToSet(wire[s]) \subseteq Carried(s)
    BY DEF Carried
  <2>2. /\ ToSet(ready) \subseteq Queued
        /\ ToSet(updates_queue) \subseteq Queued
        /\ ToSet(putters) \subseteq Queued
    BY DEF Queued
  <2> DEFINE e == At(p)[i]
  <2>3. e \in ToSet(At(p)) /\ e \in ToSet(At(q))
    BY <1>1
  <2> HIDE DEF e
  <2>4. CASE e \in Queued
    <3>1. \A s \in Streams : e \notin Carried(s)
      BY <2>4 DEF Apart, StreamsApart
    <3>2. QED
      BY <1>2, <2>1, <2>3, <3>1 DEF Apart, QueuesApart
  <2>5. CASE e \notin Queued
    <3>1. PICK s \in Streams : \/ p = <<"held", s>> /\ At(p) = held[s]
                               \/ p = <<"wire", s>> /\ At(p) = wire[s]
      BY <1>2, <2>2, <2>3, <2>5
    <3>2. PICK t \in Streams : \/ q = <<"held", t>> /\ At(q) = held[t]
                               \/ q = <<"wire", t>> /\ At(q) = wire[t]
      BY <1>2, <2>2, <2>3, <2>5
    <3>3. s = t
      <4>1. e \in Carried(s) /\ e \in Carried(t)
        BY <2>1, <2>3, <3>1, <3>2
      <4>2. QED
        BY <4>1 DEF Apart, StreamsApart
    <3>4. ToSet(held[s]) \intersect ToSet(wire[s]) = {}
      BY DEF Apart, StreamsApart
    <3>5. QED
      BY <2>3, <3>1, <3>2, <3>3, <3>4
  <2>6. QED
    BY <2>4, <2>5
<1>4. i = j
  BY <1>2, <1>3 DEF IsInjective
<1>5. QED
  BY <1>3, <1>4

(* No update is in two places on its way to the node, whatever tasks share the
   queue, and whichever put was woken, overtaken and blocked again. *)
THEOREM NothingTwice == Spec => []NoDuplicate
<1>1. Init => Apart
  <2> SUFFICES ASSUME Init PROVE Apart
    OBVIOUS
  <2>1. QueuesApart
    BY ToSetEmpty, InjectiveShort DEF Init, QueuesApart
  <2>2. StreamsApart
    BY ToSetEmpty, InjectiveShort DEF Init, StreamsApart, Carried
  <2>3. QED
    BY <2>1, <2>2 DEF Apart
<1>2. QED
  BY <1>1, ApartStep, ApartIsOnce, TypeCorrect, Committed, PTL DEF Spec

-----------------------------------------------------------------------------
(* NodeSync implements NodeMirror *)

(* What reaches the node mirrors commits of the database: every step of the
   client, the node and the network is a step of NodeMirror or changes neither
   the database nor the node's table. *)
THEOREM NodeMirrors == Spec => Mirrors
<1> DEFINE taken == {snap[c] : c \in Callers}
<1>1. Init => Mirror!Init
  <2> SUFFICES ASSUME Init PROVE Mirror!Init
    OBVIOUS
  <2>1. /\ db = [u \in Users |-> 1]
        /\ table \in [Users -> {0, 1}]
        /\ taken = {Nobody}
    BY DEF Init, Callers
  <2>2. QED
    BY <2>1 DEF Mirror!Init, Mirror!Nothing, Nobody
<1>2. TypeOK /\ OnlyCommitted /\ [Next]_vars
        => [Mirror!Next]_<<db, table, taken>>
  <2> SUFFICES ASSUME TypeOK, OnlyCommitted, [Next]_vars
               PROVE  [Mirror!Next]_<<db, table, taken>>
    OBVIOUS
  <2>1. ASSUME db' = db, table' = table, snap' = snap PROVE [Mirror!Next]_<<db, table, taken>>
    BY <2>1
  <2>2. ASSUME db' = db, table' = table,
               \A c \in Callers : snap'[c] \in {snap[c], db, Nobody}
        PROVE  Mirror!Take
    BY <2>2 DEF Mirror!Take, Mirror!Nothing, Nobody
  <2>3. ASSUME NEW u \in Users, ChangeUser(u) PROVE Mirror!Commit(u)
    BY <2>3 DEF ChangeUser, nodeVars, syncVars, Mirror!Commit
  <2>4. ASSUME NEW c \in Callers, NodeRepopulate(c) PROVE Mirror!Replace
    <3>1. /\ table' = snap[c] /\ db' = db
          /\ \A k \in Callers : snap'[k] \in {snap[k], Nobody}
      BY <2>4 DEF NodeRepopulate, TypeOK
    <3>2. QED
      BY <3>1 DEF Mirror!Replace, Mirror!Nothing, Nobody
  <2>5. ASSUME NEW s \in Streams, NodeReceive(s) PROVE \E u \in Users : Mirror!Learn(u)
    <3> DEFINE m == Head(wire[s])
    <3>1. m \in Pending
      BY <2>5, ReceiveMoves
    <3>2. m.user \in Users /\ m.version \in Nat /\ m.version <= db[m.user]
      BY <3>1, PendingType DEF Update, OnlyCommitted
    <3>3. /\ table' = [table EXCEPT ![m.user] = m.version]
          /\ db' = db /\ snap' = snap
      BY <2>5 DEF NodeReceive, syncVars
    <3> HIDE DEF m
    <3>4. db[m.user] \in Nat
      BY <3>2 DEF TypeOK
    <3>5. m.version \in 0..db[m.user]
      BY <3>2, <3>4
    <3>6. QED
      BY <3>2, <3>3, <3>5 DEF Mirror!Learn
  <2>6. CASE Disconnect
    <3>1. db' = db /\ snap' = snap /\ (table' = table \/ table' = Nobody)
      BY <2>6 DEF Disconnect
    <3>2. CASE table' = table
      BY <2>1, <3>1, <3>2
    <3>3. CASE table' = Nobody
      <4>1. Mirror!Replace
        BY <3>1, <3>3 DEF Mirror!Replace, Mirror!Nothing, Nobody
      <4>2. QED
        BY <4>1 DEF Mirror!Next
    <3>4. QED
      BY <3>1, <3>2, <3>3
  <2>7. ASSUME NEW s \in Streams, Stream(s) \/ StreamReset(s)
        PROVE  db' = db /\ table' = table /\ snap' = snap
    BY <2>7 DEF Stream, TakeUpdate, SendUpdate, SendFails, StreamReset, nodeVars, syncVars
  <2>8. ASSUME \/ \E c \in Callers : ListUsers(c)
               \/ MonitorSyncFails \/ RestartFails \/ PanelRestart
        PROVE  Mirror!Take
    <3>1. /\ db' = db /\ table' = table
          /\ \A c \in Callers : snap'[c] \in {snap[c], db, Nobody}
      BY <2>8 DEF ListUsers, MonitorSyncFails, RestartFails, PanelRestart, nodeVars, TypeOK
    <3>2. QED
      BY <2>2, <3>1
  <2>9. ASSUME \/ MonitorConnected \/ MonitorTimeout \/ MonitorWakes
               \/ \E s \in Streams : MonitorSynced(s)
               \/ RestartBackend \/ BackendRestarted \/ RestartSynced
               \/ PutUpdate \/ Stop \/ CallFails \/ Reconnect \/ UNCHANGED vars
        PROVE  db' = db /\ table' = table /\ snap' = snap
    BY <2>9 DEF MonitorConnected, MonitorTimeout, MonitorWakes, MonitorSynced,
       RestartBackend, BackendRestarted, RestartSynced, PutUpdate, Stop, CallFails,
       Reconnect, vars, nodeVars, syncVars
  <2>10. "monitor" \in Callers /\ "restart" \in Callers
    BY DEF Callers
  <2>11. ASSUME Mirror!Take \/ Mirror!Replace \/ \E u \in Users : Mirror!Commit(u) \/ Mirror!Learn(u)
         PROVE  [Mirror!Next]_<<db, table, taken>>
    BY <2>11 DEF Mirror!Next
  <2>12. QED
    BY <2>1, <2>3, <2>4, <2>5, <2>6, <2>7, <2>8, <2>9, <2>10, <2>11
    DEF Next, Monitor, Restart
<1>3. QED
  BY <1>1, <1>2, TypeCorrect, Committed, PTL DEF Spec, Mirrors, Mirror!Spec
=============================================================================
