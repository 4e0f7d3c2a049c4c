------------------------------- MODULE ProxyPool -------------------------------
(***************************************************************************)
(* External subscriptions and the proxy servers they provide.              *)
(*                                                                         *)
(* A subscription is synchronised by a request thread or by the job: its   *)
(* servers are deleted, its URL is fetched, and the servers found are      *)
(* created one by one, each in a transaction of its own.  A subscription   *)
(* refers to its servers by row id: the preferred one, and those selected  *)
(* for its users.  Synchronising therefore has to carry those ids over to  *)
(* the new rows of the same servers.                                       *)
(*                                                                         *)
(* A server is known by its content, the fields of _server_fingerprint.    *)
(* The provider that answers at the URL is external, and so is what        *)
(* SQLAlchemy and the database do: with SQLite row ids are given again and *)
(* foreign keys are not enforced, with MySQL neither is so.                *)
(***************************************************************************)
EXTENDS Integers, SequencesExt

CONSTANTS
  Subs, NoSub,          \* rows of external_subscriptions; no row
  Contents, NoContent,  \* servers a provider may list; none
  Threads,              \* that synchronise: of requests, one of them of the job
  SQLite,               \* the database is SQLite
  Uses,                 \* of Features, those that are made use of
  MaxId,                \* bound: row ids of servers
  MaxFeed               \* bound: servers a provider lists

Features == {"active", "category", "preferred", "selected", "test"}

ASSUME ProxyPoolAssumption ==
  /\ NoSub \notin Subs
  /\ NoContent \notin Contents
  /\ SQLite \in BOOLEAN
  /\ Uses \subseteq Features
  /\ MaxId \in Nat
  /\ MaxFeed \in Nat \ {0}

VARIABLES
  row,        \* "free", "live" or "removed"
  is_active, category, server_selection_mode,
  preferred_bridge_server_id,  \* 0 for none
  selected_server_ids,
  servers,    \* the row of each id, Blank if there is none
  last_id,    \* highest id that was given
  phase,      \* where each thread is in the synchronisation
  sub,        \* of which subscription
  previous,   \* ids of previous_servers
  feed,       \* what it fetched and has not created yet
  overlapped, \* history: subscriptions whose servers overlapping threads replaced
  probe,      \* content of the servers the latency test holds
  fetched,    \* history: the servers last fetched for each subscription
  wanted      \* history: contents of the servers an administrator chose by id

subVars == <<row, is_active, category, server_selection_mode, preferred_bridge_server_id,
             selected_server_ids, wanted>>
rowVars == <<servers, last_id>>
threadVars == <<phase, sub, previous, feed, overlapped>>
vars == <<subVars, rowVars, threadVars, probe, fetched>>

Ids == 1..MaxId
Categories == {"bridge", "external"}
Modes == {"all", "manual", "selected"}
Phases == {"idle", "remove", "fetch", "create", "more", "restore"}
Feeds == UNION {[1..k -> Contents] : k \in 0..MaxFeed}

Row == [sub : Subs \union {NoSub}, content : Contents \union {NoContent},
        measured : Contents \union {NoContent}]
Blank == [sub |-> NoSub, content |-> NoContent, measured |-> NoContent]

Live == {s \in Subs : row[s] = "live"}
Existing == {id \in Ids : servers[id] # Blank}
ServersOf(s) == {id \in Existing : servers[id].sub = s}
ContentsOf(S) == {servers[id].content : id \in S}
AtRest(s) == \A t \in Threads : sub[t] # s

(* The id of the next row. *)
NextId == IF SQLite THEN Max(Existing \union {0}) + 1 ELSE last_id + 1

(* Mutant: no fallback. *)
PickSubscriptionServers_Strict(s) ==
  LET own == ServersOf(s) IN
  CASE server_selection_mode[s] = "manual" -> {{preferred_bridge_server_id[s]} \intersect own}
    [] server_selection_mode[s] = "selected" -> {own \intersect selected_server_ids[s]}
    [] OTHER -> {own}

(* _pick_subscription_servers: what users may be given of a subscription.
   Without a preferred server it is the first one, available ones first. *)
PickSubscriptionServers(s) ==
  LET own == ServersOf(s)
      chosen == own \intersect selected_server_ids[s]
      preferred == own \intersect {preferred_bridge_server_id[s]} IN
  CASE own = {} -> {{}}
    [] own # {} /\ server_selection_mode[s] = "manual" ->
         IF preferred # {} THEN {preferred} ELSE {{id} : id \in own}
    [] own # {} /\ server_selection_mode[s] = "selected" /\ chosen # {} -> {chosen}
    [] OTHER -> {own}

TypeOK ==
  /\ row \in [Subs -> {"free", "live", "removed"}]
  /\ is_active \in [Subs -> BOOLEAN]
  /\ category \in [Subs -> Categories]
  /\ server_selection_mode \in [Subs -> Modes]
  /\ preferred_bridge_server_id \in [Subs -> 0..MaxId]
  /\ selected_server_ids \in [Subs -> SUBSET Ids]
  /\ servers \in [Ids -> Row]
  /\ last_id \in 0..MaxId
  /\ phase \in [Threads -> Phases]
  /\ sub \in [Threads -> Subs \union {NoSub}]
  /\ previous \in [Threads -> SUBSET Ids]
  /\ feed \in [Threads -> Seq(Contents)]
  /\ overlapped \subseteq Subs
  /\ probe \in [Ids -> Contents \union {NoContent}]
  /\ fetched \in [Subs -> Seq(Contents)]
  /\ wanted \in [Subs -> SUBSET Contents]

NoProbe == [id \in Ids |-> NoContent]

Init ==
  /\ row = [s \in Subs |-> "free"]
  /\ is_active = [s \in Subs |-> TRUE]
  /\ category = [s \in Subs |-> "external"]
  /\ server_selection_mode = [s \in Subs |-> "all"]
  /\ preferred_bridge_server_id = [s \in Subs |-> 0]
  /\ selected_server_ids = [s \in Subs |-> {}]
  /\ servers = [id \in Ids |-> Blank]
  /\ last_id = 0
  /\ phase = [t \in Threads |-> "idle"]
  /\ sub = [t \in Threads |-> NoSub]
  /\ previous = [t \in Threads |-> {}]
  /\ feed = [t \in Threads |-> <<>>]
  /\ overlapped = {}
  /\ probe = NoProbe
  /\ fetched = [s \in Subs |-> <<>>]
  /\ wanted = [s \in Subs |-> {}]

-----------------------------------------------------------------------------
(* Requests about subscriptions *)

(* Mutant: ids that are not positive are let through. *)
Settings_NotNormalized(s) ==
  [active : {TRUE}, category : {"external"}, mode : {"all", "selected"},
   preferred : {0}, selected : SUBSET (ServersOf(s) \union {0})]

(* The values a request may carry, the ids normalized: those stored, or servers
   that are offered for the choice. *)
Settings(s) ==
  LET Used(feature, S) == IF feature \in Uses THEN S ELSE {} IN
  [active : {TRUE} \union Used("active", {FALSE}),
   category : {"external"} \union Used("category", Categories),
   mode : {"all"} \union Used("preferred", {"manual"}) \union Used("selected", {"selected"}),
   preferred : {0} \union Used("preferred", {preferred_bridge_server_id[s]} \union Existing),
   selected : {{}} \union Used("selected", {selected_server_ids[s]} \union SUBSET ServersOf(s))]

(* A bridge has no selection, and only the mode "selected" keeps one. *)
Store(s, r, keeps) ==
  LET mode == IF r.category = "bridge" THEN "all" ELSE r.mode
      selected == IF r.category # "bridge" /\ mode \in keeps THEN r.selected ELSE {}
      ids == selected \union {r.preferred}
      old == ids \intersect (selected_server_ids[s] \union {preferred_bridge_server_id[s]}) IN
  /\ is_active' = [is_active EXCEPT ![s] = r.active]
  /\ category' = [category EXCEPT ![s] = r.category]
  /\ server_selection_mode' = [server_selection_mode EXCEPT ![s] = mode]
  /\ preferred_bridge_server_id' = [preferred_bridge_server_id EXCEPT ![s] = r.preferred]
  /\ selected_server_ids' = [selected_server_ids EXCEPT ![s] = selected]
  /\ wanted' = [wanted EXCEPT ![s] =
       ContentsOf((ids \ old) \intersect ServersOf(s))
         \union IF old \ {0} = {} THEN {} ELSE wanted[s]]

StartSync(t, s) ==
  /\ phase' = [phase EXCEPT ![t] = "remove"]
  /\ sub' = [sub EXCEPT ![t] = s]
  /\ overlapped' = IF AtRest(s) THEN overlapped ELSE overlapped \union {s}
  /\ UNCHANGED <<previous, feed>>

(* create_proxy_pool_server *)
Create(s, c) ==
  /\ NextId <= MaxId
  /\ servers' = [servers EXCEPT ![NextId] =
       [sub |-> s, content |-> c, measured |-> NoContent]]
  /\ last_id' = Max({last_id, NextId})

(* A link is parsed at once and its server created, or the request is refused
   with the row left behind; a subscription is synchronised by the request. *)
AddSubscription(t, s) ==
  /\ phase[t] = "idle"
  /\ row[s] = "free"
  /\ row' = [row EXCEPT ![s] = "live"]
  /\ \E r \in Settings(s) : Store(s, r, {"all", "manual", "selected"})
  /\ UNCHANGED probe
  /\ \/ StartSync(t, s) /\ UNCHANGED <<rowVars, fetched>>
     \/ /\ \E c \in Contents : Create(s, c) /\ fetched' = [fetched EXCEPT ![s] = <<c>>]
        /\ UNCHANGED threadVars
     \/ UNCHANGED <<rowVars, threadVars, fetched>>

(* The row is committed, then synchronised if the request names its URL or its
   type; the checks come last, and what they refuse has been stored. *)
ModifySubscription(t, s) ==
  /\ phase[t] = "idle"
  /\ row[s] = "live"
  /\ \E r \in Settings(s) : Store(s, r, {"selected"})
  /\ StartSync(t, s) \/ UNCHANGED threadVars
  /\ UNCHANGED <<row, rowVars, probe, fetched>>

(* The servers go with the subscription.  Where MySQL refuses, as other rows
   refer to it, nothing happens. *)
RemoveSubscription(s) ==
  /\ row[s] = "live"
  /\ row' = [row EXCEPT ![s] = "removed"]
  /\ servers' = [id \in Ids |-> IF id \in ServersOf(s) THEN Blank ELSE servers[id]]
  /\ UNCHANGED <<is_active, category, server_selection_mode,
                 preferred_bridge_server_id, selected_server_ids, wanted, last_id,
                 threadVars, probe, fetched>>

-----------------------------------------------------------------------------
(* Synchronisation *)

(* sync_subscription, or the job as it comes to the subscription, which does
   the same but passes over those that are not active. *)
Sync(t, s) ==
  /\ phase[t] = "idle"
  /\ row[s] = "live"
  /\ StartSync(t, s)
  /\ UNCHANGED <<subVars, rowVars, probe, fetched>>

SyncAll(t, s) == is_active[s] /\ Sync(t, s)

Ends(t) ==
  /\ phase' = [phase EXCEPT ![t] = "idle"]
  /\ sub' = [sub EXCEPT ![t] = NoSub]
  /\ previous' = [previous EXCEPT ![t] = {}]
  /\ feed' = [feed EXCEPT ![t] = <<>>]
  /\ UNCHANGED overlapped

(* A thread that replaces the servers on its own answers for what is stored. *)
Settles(t) ==
  overlapped' = IF \E u \in Threads \ {t} : sub[u] = sub[t] THEN overlapped
                ELSE overlapped \ {sub[t]}

(* Mutant: the old rows are left to a later clean-up. *)
RemoveServers_Keeps(t) ==
  /\ phase[t] = "remove"
  /\ phase' = [phase EXCEPT ![t] = "fetch"]
  /\ previous' = [previous EXCEPT ![t] = ServersOf(sub[t])]
  /\ Settles(t)
  /\ UNCHANGED <<subVars, rowVars, sub, feed, probe, fetched>>

(* Mutant: there is nothing to do for a subscription without servers. *)
RemoveServers_SkipsEmpty(t) ==
  /\ phase[t] = "remove"
  /\ IF ServersOf(sub[t]) = {} THEN Ends(t) /\ UNCHANGED servers
     ELSE /\ phase' = [phase EXCEPT ![t] = "fetch"]
          /\ previous' = [previous EXCEPT ![t] = ServersOf(sub[t])]
          /\ servers' = [id \in Ids |-> IF id \in ServersOf(sub[t]) THEN Blank ELSE servers[id]]
          /\ Settles(t) /\ UNCHANGED <<sub, feed>>
  /\ UNCHANGED <<subVars, last_id, probe, fetched>>

(* The old servers are read, deleted and committed. *)
RemoveServers(t) ==
  /\ phase[t] = "remove"
  /\ phase' = [phase EXCEPT ![t] = "fetch"]
  /\ previous' = [previous EXCEPT ![t] = ServersOf(sub[t])]
  /\ servers' = [id \in Ids |-> IF id \in ServersOf(sub[t]) THEN Blank ELSE servers[id]]
  /\ Settles(t)
  /\ UNCHANGED <<subVars, last_id, sub, feed, probe, fetched>>

(* The provider answered, or the link was parsed. *)
Fetch(t, f) ==
  /\ phase[t] = "fetch"
  /\ row[sub[t]] = "live"
  /\ phase' = [phase EXCEPT ![t] = IF f = <<>> THEN "restore" ELSE "create"]
  /\ feed' = [feed EXCEPT ![t] = f]
  /\ fetched' = [fetched EXCEPT ![sub[t]] = f]
  /\ UNCHANGED <<subVars, rowVars, sub, previous, overlapped, probe>>

(* Each creation is committed, which makes the next one read the subscription
   again.  The first one uses the id that was read before the fetch: on SQLite
   the subscription may be gone by then. *)
CreateServer(t) ==
  /\ phase[t] \in {"create", "more"}
  /\ row[sub[t]] = "live" \/ (SQLite /\ phase[t] = "create")
  /\ Create(sub[t], Head(feed[t]))
  /\ feed' = [feed EXCEPT ![t] = Tail(@)]
  /\ phase' = [phase EXCEPT ![t] = IF Len(feed[t]) = 1 THEN "restore" ELSE "more"]
  /\ UNCHANGED <<subVars, sub, previous, overlapped, probe, fetched>>

(* No answer, an answer that cannot be parsed, a server that cannot be stored,
   or the subscription is gone: what was committed stays. *)
SyncFails(t) ==
  /\ phase[t] \in {"fetch", "create", "more"}
  /\ Ends(t)
  /\ UNCHANGED <<subVars, rowVars, probe, fetched>>

(* Mutant: ids are carried over by position. *)
RestoreServerSelections_ByPosition(t) ==
  LET s == sub[t]
      new == ServersOf(s)
      place(id, S) == Cardinality({i \in S : i < id}) IN
  /\ phase[t] = "restore"
  /\ selected_server_ids' = [selected_server_ids EXCEPT ![s] =
       {id \in new : \E old \in previous[t] \intersect selected_server_ids[s] :
          place(old, previous[t]) = place(id, new)}]
  /\ Ends(t)
  /\ UNCHANGED <<row, is_active, category, server_selection_mode,
                 preferred_bridge_server_id, wanted, rowVars, probe, fetched>>

(* _restore_server_selections maps the ids of previous_servers by fingerprint.
   Their rows expired when the deletion was committed and were expunged since:
   reading the first raises, and the synchronisation ends there.  Without
   previous servers nothing can be mapped, and the ids are dropped. *)
RestoreServerSelections(t) ==
  /\ phase[t] = "restore"
  /\ IF previous[t] = {} /\ row[sub[t]] = "live"
     THEN /\ preferred_bridge_server_id' = [preferred_bridge_server_id EXCEPT ![sub[t]] = 0]
          /\ selected_server_ids' = [selected_server_ids EXCEPT ![sub[t]] = {}]
     ELSE UNCHANGED <<preferred_bridge_server_id, selected_server_ids>>
  /\ Ends(t)
  /\ UNCHANGED <<row, is_active, category, server_selection_mode, wanted,
                 rowVars, probe, fetched>>

-----------------------------------------------------------------------------
(* Latency test: of all subscriptions, or of those of an administrator *)

StartTest ==
  /\ "test" \in Uses
  /\ probe = NoProbe
  /\ \E S \in SUBSET Live :
       probe' = [id \in Ids |-> IF servers[id].sub \in S THEN servers[id].content ELSE NoContent]
  /\ UNCHANGED <<subVars, rowVars, threadVars, fetched>>

(* Mutant: the results are stored by position. *)
FinishTest_ByPosition ==
  LET held == {id \in Ids : probe[id] # NoContent}
      place(id, S) == Cardinality({i \in S : i < id}) IN
  /\ held # {}
  /\ probe' = NoProbe
  /\ servers' = [id \in Ids |->
       IF id \in Existing /\ \E h \in held : place(h, held) = place(id, Existing)
       THEN [servers[id] EXCEPT !.measured =
               probe[CHOOSE h \in held : place(h, held) = place(id, Existing)]]
       ELSE servers[id]]
  /\ UNCHANGED <<subVars, last_id, threadVars, fetched>>

(* The results are written to the rows that were read, all in one commit.  When
   one of them is gone it is refused; on MySQL, where the rows that many updates
   matched are not counted, it may pass and write the rows that are left. *)
FinishTest ==
  LET held == {id \in Ids : probe[id] # NoContent}
      measured == [id \in Ids |-> IF id \in held \intersect Existing
                     THEN [servers[id] EXCEPT !.measured = probe[id]] ELSE servers[id]] IN
  /\ held # {}
  /\ probe' = NoProbe
  /\ \/ servers' = measured /\ (held \subseteq Existing \/ ~SQLite)
     \/ servers' = servers /\ ~(held \subseteq Existing)
  /\ UNCHANGED <<subVars, last_id, threadVars, fetched>>

-----------------------------------------------------------------------------
Request(t, s) == AddSubscription(t, s) \/ ModifySubscription(t, s)
Step(t) ==
  \/ RemoveServers(t) \/ (\E f \in Feeds : Fetch(t, f)) \/ CreateServer(t)
  \/ SyncFails(t) \/ RestoreServerSelections(t)

Next ==
  \/ \E t \in Threads, s \in Subs : Request(t, s) \/ Sync(t, s)
  \/ \E s \in Subs : RemoveSubscription(s)
  \/ \E t \in Threads : Step(t)
  \/ StartTest
  \/ FinishTest

Spec == Init /\ [][Next]_vars

(* The job comes again and again to a subscription that stays active, a thread
   that synchronises goes on, and each provider at times lists a server that can
   be stored. *)
Fairness ==
  /\ \A t \in Threads :
       /\ WF_vars(Step(t))
       /\ \A s \in Subs :
            /\ SF_vars(sub[t] = s /\ \E f \in Feeds \ {<<>>} : Fetch(t, f))
            /\ SF_vars(sub[t] = s /\ CreateServer(t))
  /\ \A s \in Subs :
       \/ []<>~(row[s] = "live" /\ is_active[s])
       \/ []<><<\E t \in Threads : SyncAll(t, s)>>_vars

FairSpec == Spec /\ Fairness

-----------------------------------------------------------------------------
(* Properties *)

(* Whoever is given servers of a subscription gets some when it has any, also
   when the ids it was configured with went away. *)
NeverEmptyHanded ==
  \A s \in Live : ServersOf(s) # {} => {} \notin PickSubscriptionServers(s)

(* Between two synchronisations the servers are those of a single fetch: a
   beginning of the list it brought in the order of their ids, none twice and
   none of an earlier fetch.  Synchronisations of one subscription that overlap
   can leave the lists of both; the next one that has it to itself cleans up. *)
OneFetch ==
  \A s \in Live \ overlapped : AtRest(s) =>
    \E n \in 0..Len(fetched[s]) : \E ids \in [1..n -> ServersOf(s)] :
      /\ \A i, j \in 1..n : i < j => ids[i] < ids[j]
      /\ Range(ids) = ServersOf(s)
      /\ \A i \in 1..n : servers[ids[i]].content = fetched[s][i]

(* Between two synchronisations no id that an administrator selected stands for
   a server that was not chosen, however often the servers were replaced. *)
SelectionNeverStrays ==
  \A s \in Live : AtRest(s) =>
    ContentsOf(ServersOf(s) \intersect selected_server_ids[s]) \subseteq wanted[s]

(* A latency is stored with the server it was measured for, though the servers
   may be replaced while the test waits for connections. *)
LatencyIsOwn ==
  \A id \in Existing : servers[id].measured \in {NoContent, servers[id].content}

(* As long as a chosen server is listed, users are given chosen ones only. *)
KeepsSelection ==
  \A s \in Live :
    /\ AtRest(s) /\ server_selection_mode[s] = "selected"
    /\ ContentsOf(ServersOf(s)) \intersect wanted[s] # {}
    => \A S \in PickSubscriptionServers(s) : ContentsOf(S) \subseteq wanted[s]

(* An active subscription that lost its servers to a failed synchronisation gets
   servers again, unless it is removed or switched off before. *)
Refilled ==
  \A s \in Subs :
    row[s] = "live" /\ is_active[s] /\ ServersOf(s) = {}
      ~> (row[s] # "live" \/ ~is_active[s] \/ ServersOf(s) # {})
=============================================================================
