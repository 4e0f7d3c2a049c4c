------------------------------- MODULE NodeSync -------------------------------
(***************************************************************************)
(* One marznode and the grpclib client the panel keeps for it.             *)
(*                                                                         *)
(* The panel commits a user's configuration in its database, spawns an     *)
(* asyncio task that puts a snapshot of it in the client's bounded queue,  *)
(* and a streaming task forwards what it takes from the queue to the node  *)
(* over the SyncUsers call.  A monitor task polls the channel and, while   *)
(* the client is not synced, repopulates the node with everything the      *)
(* database holds.  An administrator may restart a backend of the node,    *)
(* which synchronises again from the request handler.                      *)
(*                                                                         *)
(* A configuration is the number of the commit that produced it: db[u] is  *)
(* the newest committed configuration of u, an update carries the number   *)
(* it was spawned for, table[u] is the one the node serves (0: none).      *)
(*                                                                         *)
(* The node and the network are external: they are modelled from how the   *)
(* client uses them.                                                       *)
(***************************************************************************)
EXTENDS Naturals, SequencesExt

CONSTANTS
  Users,        \* users that have inbounds on this node
  Streams,      \* slots for streaming tasks that are alive at one time
  NoStream,     \* _streaming_task is None
  QueueSize,    \* capacity of _updates_queue
  CanStop,      \* TRUE: the client may be stopped (its node removed or modified)
  MaxVersion,   \* bound: commits per user
  MaxFaults,    \* bound: faults of the node, the network and the panel
  MaxRestarts   \* bound: backend restarts

ASSUME NodeSyncAssumption ==
  /\ NoStream \notin Streams
  /\ QueueSize \in Nat \ {0}
  /\ CanStop \in BOOLEAN
  /\ MaxVersion \in Nat \ {0}
  /\ MaxFaults \in Nat
  /\ MaxRestarts \in Nat

VARIABLES
  db,              \* newest committed configuration of each user
  ready,           \* tasks of the event loop about to run _updates_queue.put
  updates_queue,   \* asyncio.Queue
  putters,         \* tasks blocked in put because the queue is full
  streaming_task,  \* the streaming task the client refers to
  live,            \* the streaming tasks that have not ended
  held,            \* the update a task took and has not sent, as <<m>>, or <<>>
  wire,            \* updates of the SyncUsers call on their way to the node
  call,            \* the SyncUsers call of each task
  synced,          \* MarzNodeGRPCLIB.synced
  status,          \* Node.status in the database
  pc,              \* where each caller of _sync is
  snap,            \* what its list_users returned
  table,           \* configuration the node serves for each user
  heard,           \* history: newest configuration the node was given
  reachable,       \* the node answers
  kept,            \* history: the connection of the monitor's last _sync has held
  crowded,         \* history: users with a blocked update and another one not queued
  stopped,         \* stop() ran
  faults, restarts \* what the bounds count

panelVars == <<ready, updates_queue, putters, crowded>>
streamVars == <<streaming_task, live, held, wire, call, kept>>
syncVars == <<synced, status, pc, snap>>
nodeVars == <<table, heard, reachable>>
boundVars == <<stopped, faults, restarts>>
vars == <<db, panelVars, streamVars, syncVars, nodeVars, boundVars>>

Update == [user : Users, version : Nat]
Callers == {"monitor", "restart"}
InFlight == {"restart", "fetch", "repopulate", "replied"}
Phases == InFlight \union {"connect", "sleep", "idle", "broken", "cancelled"}

Nobody == [u \in Users |-> 0]
Larger(a, b) == IF a >= b THEN a ELSE b

(* unopened: the request is sent with the first message. *)
Calls == {"unopened", "open", "ended"}

(* Users of whom one update is blocked in put and another is to be put: the
   blocked one, once woken, runs after it. *)
Crowd(rs, ps) ==
  {u \in Users : \E i \in DOMAIN ps :
     /\ ps[i].user = u
     /\ \/ \E j \in DOMAIN rs : rs[j].user = u
        \/ \E j \in DOMAIN ps : j # i /\ ps[j].user = u}

(* Updates that are still on their way to the node. *)
Queued == ToSet(ready) \union ToSet(updates_queue) \union ToSet(putters)
Pending == Queued \union UNION {ToSet(held[s]) \union ToSet(wire[s]) : s \in Streams}

(* The places where an update waits, and what waits there, in order. *)
Places == ({"ready", "updates_queue", "putters"} \X {NoStream}) \union ({"held", "wire"} \X Streams)
At(p) ==
  CASE p[1] = "ready" -> ready
    [] p[1] = "updates_queue" -> updates_queue
    [] p[1] = "putters" -> putters
    [] p[1] = "held" -> held[p[2]]
    [] p[1] = "wire" -> wire[p[2]]

TypeOK ==
  /\ db \in [Users -> Nat]
  /\ ready \in Seq(Update)
  /\ updates_queue \in Seq(Update)
  /\ Len(updates_queue) <= QueueSize
  /\ putters \in Seq(Update)
  /\ streaming_task \in Streams \union {NoStream}
  /\ live \subseteq Streams
  /\ held \in [Streams -> Seq(Update)]
  /\ wire \in [Streams -> Seq(Update)]
  /\ call \in [Streams -> Calls]
  /\ kept \in BOOLEAN
  /\ crowded \subseteq Users
  /\ synced \in BOOLEAN
  /\ status \in {"healthy", "unhealthy"}
  /\ pc \in [Callers -> Phases]
  /\ snap \in [Callers -> [Users -> Nat]]
  /\ table \in [Users -> Nat]
  /\ heard \in [Users -> Nat]
  /\ reachable \in BOOLEAN
  /\ stopped \in BOOLEAN
  /\ faults \in Nat
  /\ restarts \in Nat

(* A client that was just created: nodes_startup or add_node. The node may  *)
(* still serve what an earlier process gave it; so may its status be stale. *)
Init ==
  /\ db = [u \in Users |-> 1]
  /\ ready = <<>> /\ updates_queue = <<>> /\ putters = <<>>
  /\ streaming_task = NoStream
  /\ live = {}
  /\ held = [s \in Streams |-> <<>>]
  /\ wire = [s \in Streams |-> <<>>]
  /\ call = [s \in Streams |-> "ended"]
  /\ kept = FALSE /\ crowded = {}
  /\ synced = FALSE
  /\ status \in {"healthy", "unhealthy"}
  /\ pc = [c \in Callers |-> IF c = "monitor" THEN "connect" ELSE "idle"]
  /\ snap = [c \in Callers |-> Nobody]
  /\ table \in [Users -> {0, 1}]
  /\ heard = table
  /\ reachable \in BOOLEAN
  /\ stopped = FALSE
  /\ faults = 0
  /\ restarts = 0

-----------------------------------------------------------------------------
(* Mutant: the task is spawned, the commit fails. *)
ChangeUser_NotCommitted(u) ==
  /\ ~stopped
  /\ db[u] < MaxVersion
  /\ ready' = Append(ready, [user |-> u, version |-> db[u] + 1])
  /\ crowded' = crowded \union Crowd(ready', putters)
  /\ UNCHANGED <<db, updates_queue, putters, streamVars, syncVars, nodeVars, boundVars>>

(* The request handlers and jobs that change a user: commit, then update_user
   spawns one task with a snapshot.  There is no await in between. *)
ChangeUser(u) ==
  /\ ~stopped
  /\ db[u] < MaxVersion
  /\ db' = [db EXCEPT ![u] = @ + 1]
  /\ ready' = Append(ready, [user |-> u, version |-> db[u] + 1])
  /\ crowded' = crowded \union Crowd(ready', putters)
  /\ UNCHANGED <<updates_queue, putters, streamVars, syncVars, nodeVars, boundVars>>

(* Mutant: the queue has no limit. *)
PutUpdate_Unlimited ==
  /\ ready # <<>>
  /\ ready' = Tail(ready)
  /\ updates_queue' = Append(updates_queue, Head(ready))
  /\ UNCHANGED <<db, putters, crowded, streamVars, syncVars, nodeVars, boundVars>>

(* Mutant: put_nowait, its QueueFull swallowed. *)
PutUpdate_Nowait ==
  /\ ready # <<>>
  /\ ready' = Tail(ready)
  /\ updates_queue' = IF Len(updates_queue) < QueueSize
                      THEN Append(updates_queue, Head(ready)) ELSE updates_queue
  /\ UNCHANGED <<db, putters, crowded, streamVars, syncVars, nodeVars, boundVars>>

(* The next task of the loop runs put: it appends, or it blocks behind the
   tasks that already wait, also when it was woken and overtaken. *)
PutUpdate ==
  /\ ready # <<>>
  /\ ready' = Tail(ready)
  /\ \/ /\ Len(updates_queue) < QueueSize
        /\ updates_queue' = Append(updates_queue, Head(ready))
        /\ UNCHANGED putters
     \/ /\ Len(updates_queue) >= QueueSize
        /\ putters' = Append(putters, Head(ready))
        /\ UNCHANGED updates_queue
  /\ crowded' = crowded \union Crowd(ready', putters')
  /\ UNCHANGED <<db, streamVars, syncVars, nodeVars, boundVars>>

-----------------------------------------------------------------------------
(* _stream_user_updates *)

(* get() returns, and wakes the first putter, which runs after the tasks
   that are ready already. *)
TakeUpdate(s) ==
  /\ s \in live /\ held[s] = <<>>
  /\ updates_queue # <<>>
  /\ updates_queue' = Tail(updates_queue)
  /\ held' = [held EXCEPT ![s] = <<Head(updates_queue)>>]
  /\ \/ /\ putters = <<>>
        /\ UNCHANGED <<ready, putters>>
     \/ /\ putters # <<>>
        /\ ready' = Append(ready, Head(putters))
        /\ putters' = Tail(putters)
  /\ UNCHANGED <<db, crowded, streaming_task, live, wire, call, kept, syncVars, nodeVars, boundVars>>

(* Mutant: the update is kept, to be sent again. *)
SendUpdate_Keeps(s) ==
  /\ held[s] # <<>>
  /\ call[s] = "unopened" => reachable
  /\ call' = [call EXCEPT ![s] = IF @ = "ended" THEN @ ELSE "open"]
  /\ wire' = IF call[s] = "ended" THEN wire ELSE [wire EXCEPT ![s] = @ \o held[s]]
  /\ UNCHANGED <<db, panelVars, streaming_task, live, held, kept, syncVars, nodeVars, boundVars>>

(* send_message opens the call before the first message, on the connection
   there is by then or a new one, and returns once the bytes left; if the call
   no longer reaches the node and nobody noticed, they are gone. *)
SendUpdate(s) ==
  /\ held[s] # <<>>
  /\ call[s] = "unopened" => reachable
  /\ call' = [call EXCEPT ![s] = IF @ = "ended" THEN @ ELSE "open"]
  /\ held' = [held EXCEPT ![s] = <<>>]
  /\ wire' = IF call[s] = "ended" THEN wire ELSE [wire EXCEPT ![s] = @ \o held[s]]
  /\ UNCHANGED <<db, panelVars, streaming_task, live, kept, syncVars, nodeVars, boundVars>>

(* send_message raises on a call that ended, or when it finds no node to open
   one with. *)
CannotSend(s) == call[s] = "ended" \/ (call[s] = "unopened" /\ ~reachable)

(* Mutant: the task ends without telling the monitor. *)
SendFails_StaysSynced(s) ==
  /\ held[s] # <<>>
  /\ CannotSend(s)
  /\ held' = [held EXCEPT ![s] = <<>>]
  /\ live' = live \ {s}
  /\ call' = [call EXCEPT ![s] = "ended"]
  /\ UNCHANGED <<db, panelVars, streaming_task, wire, kept, syncVars, nodeVars, boundVars>>

(* The update it held is lost, the task ends. *)
SendFails(s) ==
  /\ held[s] # <<>>
  /\ CannotSend(s)
  /\ held' = [held EXCEPT ![s] = <<>>]
  /\ live' = live \ {s}
  /\ call' = [call EXCEPT ![s] = "ended"]
  /\ synced' = FALSE
  /\ UNCHANGED <<db, panelVars, streaming_task, wire, kept,
                 status, pc, snap, nodeVars, boundVars>>

-----------------------------------------------------------------------------
(* _sync, called by the monitor and by restart_backend *)

(* FetchBackends returned; list_users reads the database and the
   RepopulateUsers call leaves, all before the next await. *)
ListUsers(c) ==
  /\ pc[c] = "fetch"
  /\ snap' = [snap EXCEPT ![c] = db]
  /\ pc' = [pc EXCEPT ![c] = "repopulate"]
  /\ UNCHANGED <<db, panelVars, streamVars, synced, status, nodeVars, boundVars>>

(* The node replaces its whole user table. *)
NodeRepopulate(c) ==
  /\ pc[c] = "repopulate"
  /\ pc' = [pc EXCEPT ![c] = "replied"]
  /\ table' = snap[c]
  /\ heard' = [u \in Users |-> Larger(heard[u], snap[c][u])]
  /\ snap' = [snap EXCEPT ![c] = Nobody]
  /\ UNCHANGED <<db, panelVars, streamVars, synced, status, reachable, boundVars>>

-----------------------------------------------------------------------------
(* _monitor_channel *)

MonitorConnected ==
  /\ pc["monitor"] = "connect"
  /\ reachable
  /\ pc' = [pc EXCEPT !["monitor"] = IF synced THEN "sleep" ELSE "fetch"]
  /\ UNCHANGED <<db, panelVars, streamVars, synced, status, snap, nodeVars, boundVars>>

(* Mutant: the streaming task is not cancelled. *)
MonitorTimeout_NoCancel ==
  /\ pc["monitor"] = "connect"
  /\ ~reachable
  /\ status' = "unhealthy"
  /\ synced' = FALSE
  /\ pc' = [pc EXCEPT !["monitor"] = "sleep"]
  /\ UNCHANGED <<db, panelVars, streamVars, snap, nodeVars, boundVars>>

(* The connection attempt fails: the streaming task is cancelled. *)
MonitorTimeout ==
  /\ pc["monitor"] = "connect"
  /\ ~reachable
  /\ status' = "unhealthy"
  /\ synced' = FALSE
  /\ live' = live \ {streaming_task}
  /\ held' = [s \in Streams |-> IF s = streaming_task THEN <<>> ELSE held[s]]
  /\ call' = [s \in Streams |-> IF s = streaming_task THEN "ended" ELSE call[s]]
  /\ pc' = [pc EXCEPT !["monitor"] = "sleep"]
  /\ UNCHANGED <<db, panelVars, streaming_task, wire, kept, snap, nodeVars, boundVars>>

(* Mutant: what waits in the queue counts as repopulated. *)
MonitorSynced_Flushes(s) ==
  /\ pc["monitor"] = "replied"
  /\ s \notin live
  /\ synced' = TRUE
  /\ status' = "healthy"
  /\ streaming_task' = s
  /\ live' = live \union {s}
  /\ call' = [call EXCEPT ![s] = "unopened"]
  /\ kept' = TRUE
  /\ updates_queue' = <<>>
  /\ pc' = [pc EXCEPT !["monitor"] = "sleep"]
  /\ UNCHANGED <<db, ready, putters, crowded, held, wire, snap, nodeVars, boundVars>>

(* Mutant: no streaming task is created. *)
MonitorSynced_NoTask(s) ==
  /\ pc["monitor"] = "replied"
  /\ s \notin live
  /\ synced' = TRUE
  /\ status' = "healthy"
  /\ pc' = [pc EXCEPT !["monitor"] = "sleep"]
  /\ UNCHANGED <<db, panelVars, streamVars, snap, nodeVars, boundVars>>

(* _sync succeeded: a streaming task is created, whether or not an older one
   is still alive.  Its call is not opened yet. *)
MonitorSynced(s) ==
  /\ pc["monitor"] = "replied"
  /\ s \notin live
  /\ synced' = TRUE
  /\ status' = "healthy"
  /\ streaming_task' = s
  /\ live' = live \union {s}
  /\ call' = [call EXCEPT ![s] = "unopened"]
  /\ kept' = TRUE
  /\ pc' = [pc EXCEPT !["monitor"] = "sleep"]
  /\ UNCHANGED <<db, panelVars, held, wire, snap, nodeVars, boundVars>>

(* A call of _sync raised, or the task was cancelled in it: except: pass. *)
MonitorSyncFails ==
  /\ pc["monitor"] = "broken"
  /\ pc' = [pc EXCEPT !["monitor"] = "sleep"]
  /\ snap' = [snap EXCEPT !["monitor"] = Nobody]
  /\ UNCHANGED <<db, panelVars, streamVars, synced, status, nodeVars, boundVars>>

MonitorWakes ==
  /\ pc["monitor"] = "sleep"
  /\ pc' = [pc EXCEPT !["monitor"] = "connect"]
  /\ UNCHANGED <<db, panelVars, streamVars, synced, status, snap, nodeVars, boundVars>>

-----------------------------------------------------------------------------
(* restart_backend *)

RestartBackend ==
  /\ pc["restart"] = "idle"
  /\ ~stopped
  /\ restarts < MaxRestarts
  /\ restarts' = restarts + 1
  /\ pc' = [pc EXCEPT !["restart"] = IF reachable THEN "restart" ELSE "broken"]
  /\ UNCHANGED <<db, panelVars, streamVars, synced, status, snap, nodeVars, stopped, faults>>

BackendRestarted ==
  /\ pc["restart"] = "restart"
  /\ pc' = [pc EXCEPT !["restart"] = "fetch"]
  /\ UNCHANGED <<db, panelVars, streamVars, synced, status, snap, nodeVars, boundVars>>

(* _sync succeeded here: no streaming task is created. *)
RestartSynced ==
  /\ pc["restart"] = "replied"
  /\ synced' = TRUE
  /\ status' = "healthy"
  /\ pc' = [pc EXCEPT !["restart"] = "idle"]
  /\ UNCHANGED <<db, panelVars, streamVars, snap, nodeVars, boundVars>>

(* Mutant: the failure is only recorded in the database. *)
RestartFails_StaysSynced ==
  /\ pc["restart"] \in InFlight \union {"broken"}
  /\ status' = "unhealthy"
  /\ pc' = [pc EXCEPT !["restart"] = "idle"]
  /\ snap' = [snap EXCEPT !["restart"] = Nobody]
  /\ UNCHANGED <<db, panelVars, streamVars, synced, nodeVars, boundVars>>

(* A call raised, or the route's five seconds ran out. *)
RestartFails ==
  /\ pc["restart"] \in InFlight \union {"broken"}
  /\ synced' = FALSE
  /\ status' = "unhealthy"
  /\ pc' = [pc EXCEPT !["restart"] = "idle"]
  /\ snap' = [snap EXCEPT !["restart"] = Nobody]
  /\ UNCHANGED <<db, panelVars, streamVars, nodeVars, boundVars>>

-----------------------------------------------------------------------------
(* stop(): the channel is closed and the monitor cancelled.  A monitor that
   waits in _sync swallows the cancellation with the failure of the call.  A
   task that has not opened its call yet will connect again to do so. *)
Stop ==
  /\ CanStop /\ ~stopped
  /\ stopped' = TRUE
  /\ call' = [s \in Streams |-> IF call[s] = "open" THEN "ended" ELSE call[s]]
  /\ kept' = FALSE
  /\ wire' = [s \in Streams |-> <<>>]
  /\ pc' = [c \in Callers |->
              IF pc[c] \in InFlight \union {"broken"} THEN "broken"
              ELSE IF c = "monitor" THEN "cancelled" ELSE pc[c]]
  /\ UNCHANGED <<db, panelVars, streaming_task, live, held,
                 synced, status, snap, nodeVars, faults, restarts>>

-----------------------------------------------------------------------------
(* The node and the network *)

NodeReceive(s) ==
  /\ wire[s] # <<>>
  /\ LET m == Head(wire[s]) IN
       /\ table' = [table EXCEPT ![m.user] = m.version]
       /\ heard' = [heard EXCEPT ![m.user] = Larger(@, m.version)]
  /\ wire' = [wire EXCEPT ![s] = Tail(@)]
  /\ UNCHANGED <<db, panelVars, streaming_task, live, held, call, kept, syncVars,
                 reachable, boundVars>>

Fault == faults < MaxFaults /\ faults' = faults + 1

(* The connection is lost, with all calls on it; the node may have restarted
   and forgotten its users.  A call that was not open yet will be opened on
   the next connection, or on this one while nobody noticed (gone). *)
Disconnect ==
  /\ reachable
  /\ Fault
  /\ reachable' = FALSE
  /\ \E gone \in SUBSET {s \in Streams : call[s] = "unopened"} :
       call' = [s \in Streams |-> IF call[s] = "open" \/ s \in gone THEN "ended" ELSE call[s]]
  /\ kept' = FALSE
  /\ wire' = [s \in Streams |-> <<>>]
  /\ pc' = [c \in Callers |-> IF pc[c] \in InFlight THEN "broken" ELSE pc[c]]
  /\ \/ UNCHANGED <<table, heard>>
     \/ table' = Nobody /\ heard' = Nobody
  /\ UNCHANGED <<db, panelVars, streaming_task, live, held, synced, status, snap,
                 stopped, restarts>>

Reconnect ==
  /\ ~reachable
  /\ reachable' = TRUE
  /\ UNCHANGED <<db, panelVars, streamVars, syncVars, table, heard, boundVars>>

(* The node ends the SyncUsers call alone. *)
StreamReset(s) ==
  /\ s \in live /\ call[s] = "open"
  /\ Fault
  /\ call' = [call EXCEPT ![s] = "ended"]
  /\ wire' = [wire EXCEPT ![s] = <<>>]
  /\ UNCHANGED <<db, panelVars, streaming_task, live, held, kept, syncVars, nodeVars,
                 stopped, restarts>>

(* A single call of the monitor's _sync fails. *)
CallFails ==
  /\ pc["monitor"] \in InFlight
  /\ Fault
  /\ pc' = [pc EXCEPT !["monitor"] = "broken"]
  /\ UNCHANGED <<db, panelVars, streamVars, synced, status, snap, nodeVars,
                 stopped, restarts>>

(* The panel process dies and starts again: nodes_startup creates a client. *)
PanelRestart ==
  /\ ~stopped
  /\ Fault
  /\ ready' = <<>> /\ updates_queue' = <<>> /\ putters' = <<>>
  /\ streaming_task' = NoStream
  /\ live' = {}
  /\ held' = [s \in Streams |-> <<>>]
  /\ wire' = [s \in Streams |-> <<>>]
  /\ call' = [s \in Streams |-> "ended"]
  /\ kept' = FALSE /\ crowded' = {}
  /\ synced' = FALSE
  /\ pc' = [c \in Callers |-> IF c = "monitor" THEN "connect" ELSE "idle"]
  /\ snap' = [c \in Callers |-> Nobody]
  /\ UNCHANGED <<db, status, nodeVars, stopped, restarts>>

-----------------------------------------------------------------------------
Stream(s) == TakeUpdate(s) \/ SendUpdate(s) \/ SendFails(s)
Monitor ==
  \/ MonitorConnected
  \/ MonitorTimeout
  \/ \E s \in Streams : MonitorSynced(s)
  \/ MonitorSyncFails
  \/ MonitorWakes
  \/ ListUsers("monitor")
Restart == RestartBackend \/ BackendRestarted \/ RestartSynced \/ RestartFails \/ ListUsers("restart")

Next ==
  \/ \E u \in Users : ChangeUser(u)
  \/ PutUpdate
  \/ \E s \in Streams : Stream(s)
  \/ Monitor
  \/ Restart
  \/ Stop
  \/ \E c \in Callers : NodeRepopulate(c)
  \/ CallFails
  \/ \E s \in Streams : NodeReceive(s) \/ StreamReset(s)
  \/ Disconnect
  \/ Reconnect
  \/ PanelRestart

Spec == Init /\ [][Next]_vars

(* Every task of the loop that can run runs, and the node answers again. *)
Fairness ==
  /\ WF_vars(PutUpdate)
  /\ WF_vars(Monitor)
  /\ WF_vars(Reconnect)
  /\ \A c \in Callers : WF_vars(NodeRepopulate(c))
  /\ WF_vars(BackendRestarted \/ RestartSynced \/ ListUsers("restart"))
  /\ \A s \in Streams : WF_vars(Stream(s)) /\ WF_vars(NodeReceive(s))

FairSpec == Spec /\ Fairness

-----------------------------------------------------------------------------
(* Properties *)

(* The client streams, over the connection it synchronised on. *)
Streaming == synced /\ streaming_task \in live /\ call[streaming_task] # "ended" /\ kept

(* The update that carries the newest configuration of a user. *)
Newest(u) == [user |-> u, version |-> db[u]]

(* As long as no backend was restarted, the connection of the last _sync holds
   and the call the client streams on did not end, no update is lost: the
   newest configuration of every user was given to the node or is still on its
   way, whatever changed before, while or after the monitor's _sync read the
   database, and whenever the call is opened. *)
NoUpdateLost ==
  restarts = 0 /\ Streaming =>
    \A u \in Users : heard[u] = db[u] \/ Newest(u) \in Pending

(* As long as no backend was restarted, the streaming task the client refers
   to is the only one that takes from the queue, and it is alive exactly while
   the client is synced: the monitor's belief and the task do not part. *)
OneStream == restarts = 0 => live = IF synced THEN {streaming_task} ELSE {}

(* No update is in two places: also when a leaked streaming task shares the
   queue, and when a blocked put is overtaken and blocks again. *)
NoDuplicate ==
  \A p \in Places : \A i \in DOMAIN At(p) :
    \A q \in Places : \A j \in DOMAIN At(q) : At(p)[i] = At(q)[j] => p = q /\ i = j

(* A status of unhealthy is never left on a node the client counts as synced:
   what the monitor, a failing restart and a succeeding one write agrees. *)
UnhealthyIsUnsynced == status = "unhealthy" => ~synced

(* Everything has been delivered and no synchronisation runs. *)
Settled ==
  /\ Streaming /\ Pending = {}
  /\ \A c \in Callers : pc[c] \notin InFlight

(* Once everything has been delivered the node serves the newest configuration
   of every user: the updates of one user, spawned at any time, and the
   repopulation take effect in the order of the commits.  The only updates that
   may pass each other are those of which one was blocked by a full queue while
   the other was to be put. *)
LastChangeWins ==
  restarts = 0 /\ Settled => \A u \in Users \ crowded : table[u] = db[u]

(* What commits promise, without that exception: two updates of one user, the
   first of them blocked, may be delivered in the other order. *)
LastChangeAlwaysWins == restarts = 0 /\ Settled => table = db

(* What a client that is synced means: the node it streams to has been given
   its users.  A node that restarts before the first update is sent has not,
   since the call is then opened on the new connection and nothing fails. *)
StreamedToIsServed ==
  restarts = 0 /\ synced /\ streaming_task \in live /\ call[streaming_task] = "open" =>
    \A u \in Users : table[u] # 0

(* The client polls a channel that works and does not notice that the call its
   streaming task writes to ended, or that it will be, or was, opened on another
   connection than the one it synchronised on. *)
Unnoticed ==
  /\ synced /\ streaming_task \in live
  /\ call[streaming_task] = "ended" \/ ~kept

(* When changes and faults cease, the node ends up serving the newest
   configurations, or the client stays with a lost connection it has not
   noticed. *)
Converges == <>[]((\A u \in Users \ crowded : table[u] = db[u]) \/ Unnoticed)

(* An update that was spawned is delivered, or the client learns that it has
   to synchronise. *)
UpdatesAreDelivered ==
  \A u \in Users :
    (\E m \in Pending : m.user = u) ~> (~synced \/ \A m \in Pending : m.user # u)

(* Whatever the interleaving and the faults, the node only ever serves
   configurations the database committed, and comes to them one user at a time
   or by a snapshot that list_users read at one moment (NodeMirror). *)
Mirror == INSTANCE NodeMirror WITH taken <- {snap[c] : c \in Callers}
Mirrors == Mirror!Spec

-----------------------------------------------------------------------------
(* The inductive invariant behind NoUpdateLost and Mirrors *)

(* Nothing but committed configurations is on its way, or at the node. *)
OnlyCommitted ==
  /\ \A m \in Pending : m.version <= db[m.user]
  /\ \A c \in Callers, u \in Users : snap[c][u] <= db[u]
  /\ \A u \in Users : table[u] <= db[u] /\ heard[u] <= db[u]

(* Only an open call has updates on the wire, only a live task has a call and
   updates in its hand, and nothing is open to or in flight to a node that does
   not answer. *)
WiresCut ==
  /\ \A s \in Streams : call[s] # "open" => wire[s] = <<>>
  /\ \A s \in Streams : s \notin live => call[s] = "ended" /\ held[s] = <<>>
  /\ ~reachable => ~kept /\ \A s \in Streams : call[s] # "open"
  /\ \A c \in Callers : pc[c] \in InFlight => reachable

(* While the monitor synchronises no task streams, and what its snapshot does
   not hold waits in the queue for the task it will create. *)
SyncCovers ==
  restarts = 0 =>
    /\ pc["restart"] = "idle"
    /\ pc["monitor"] \in InFlight \union {"broken"} => ~synced
    /\ pc["monitor"] = "repopulate" =>
         \A u \in Users : snap["monitor"][u] = db[u] \/ Newest(u) \in Queued
    /\ pc["monitor"] = "replied" =>
         \A u \in Users : heard[u] = db[u] \/ Newest(u) \in Queued

IInv == TypeOK /\ OnlyCommitted /\ WiresCut /\ OneStream /\ SyncCovers /\ NoUpdateLost

-----------------------------------------------------------------------------
(* The inductive invariant behind LastChangeWins *)

(* An outdated update of a user is followed by its newest one, in the sequence
   or in what is behind it. *)
Follows(newest, q, behind) ==
  \A i \in DOMAIN q : q[i].user = newest.user /\ q[i] # newest =>
    (\E j \in DOMAIN q : i < j /\ q[j] = newest) \/ newest \in behind

(* The updates of a user stand in the order they will be delivered in, as far
   as the newest goes: it is behind the others. *)
Lined(u) ==
  /\ u \notin Crowd(ready, putters)
  /\ Follows(Newest(u), ready, {})
  /\ Follows(Newest(u), putters, {})
  /\ Follows(Newest(u), updates_queue, ToSet(ready) \union ToSet(putters))
  /\ \A s \in Streams : /\ Follows(Newest(u), held[s], Queued)
                        /\ Follows(Newest(u), wire[s], ToSet(held[s]) \union Queued)

(* Then, as long as no backend was restarted, what the node does not serve yet
   is on its way, or waits for the task that the running synchronisation will
   create. *)
InOrder ==
  restarts = 0 =>
    /\ \A u \in Users \ crowded : Lined(u)
    /\ pc["monitor"] = "replied" =>
         \A u \in Users \ crowded : table[u] = db[u] \/ Newest(u) \in Queued
    /\ Streaming =>
         \A u \in Users \ crowded : table[u] = db[u] \/ Newest(u) \in Pending
=============================================================================
