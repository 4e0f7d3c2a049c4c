--------------------------- MODULE ProxyPool_proofs ---------------------------
(***************************************************************************)
(* On a database that gives each row id once, whatever is added, changed,  *)
(* synchronised, removed and measured at the same time: no selected id     *)
(* comes to mean another server, and no latency is stored with another.    *)
(* On any database, and however many threads synchronise: the servers of a *)
(* subscription are those of one fetch, until two synchronisations of it   *)
(* overlap, and again once one has it to itself.                           *)
(***************************************************************************)
EXTENDS ProxyPool, SeqFacts

(* The parts of a state: the ids P and S that subscriptions refer to, and the
   contents W that were chosen. *)

RefsTyped(P, S, W) ==
  /\ P \in [Subs -> 0..MaxId]
  /\ S \in [Subs -> SUBSET Ids]
  /\ W \in [Subs -> SUBSET Contents]

(* Ids that are referred to were given. *)
Given(P, S, n) ==
  \A s \in Subs : P[s] <= n /\ \A id \in S[s] : id <= n

(* A server that a subscription refers to is one that was chosen. *)
Chosen(rows, P, S, W) ==
  \A s \in Subs, id \in Ids :
    /\ rows[id] # Blank /\ rows[id].sub = s
    /\ id \in S[s] \/ id = P[s]
    => rows[id].content \in W[s]

Refs(rows, n, P, S, W) ==
  RefsTyped(P, S, W) /\ Given(P, S, n) /\ Chosen(rows, P, S, W)

(* The rows change so that this holds of the same references. *)
KeepsRefs ==
  \A P, S, W : Refs(servers, last_id, P, S, W) => Refs(servers', last_id', P, S, W)

SubsTyped ==
  /\ row \in [Subs -> {"free", "live", "removed"}]
  /\ is_active \in [Subs -> BOOLEAN]
  /\ category \in [Subs -> Categories]
  /\ server_selection_mode \in [Subs -> Modes]

(* Rows have ids that were given, a server, and no latency but its own. *)
RowsGiven ==
  /\ servers \in [Ids -> Row] /\ last_id \in 0..MaxId
  /\ \A id \in Ids : servers[id] # Blank => id <= last_id /\ servers[id].content \in Contents
  /\ LatencyIsOwn

(* What the latency test holds is the content of the row, or the row is gone. *)
Probed ==
  /\ probe \in [Ids -> Contents \union {NoContent}]
  /\ \A id \in Ids : probe[id] # NoContent =>
       id <= last_id /\ (servers[id] = Blank \/ servers[id].content = probe[id])

ThreadsTyped ==
  /\ phase \in [Threads -> Phases]
  /\ sub \in [Threads -> Subs \union {NoSub}]
  /\ previous \in [Threads -> SUBSET Ids]
  /\ feed \in [Threads -> Seq(Contents)]
  /\ overlapped \subseteq Subs
  /\ \A t \in Threads : phase[t] \in {"create", "more"} => feed[t] # <<>>

FetchedTyped == fetched \in [Subs -> Seq(Contents)]

IInv ==
  /\ SubsTyped /\ RowsGiven /\ Probed /\ ThreadsTyped /\ FetchedTyped
  /\ Refs(servers, last_id, preferred_bridge_server_id, selected_server_ids, wanted)

-----------------------------------------------------------------------------
(* The rows: each change keeps what holds of them, of the test that is under
   way, and of any references. *)

LEMMA NextIsNew ==
  ASSUME ~SQLite, last_id \in 0..MaxId
  PROVE  NextId = last_id + 1 /\ Max({last_id, NextId}) = last_id + 1
<1>1. NextId = last_id + 1
  BY DEF NextId
<1>2. last_id \in Int
  BY ProxyPoolAssumption
<1> DEFINE n == last_id + 1
<1>3. n \in {last_id, n} /\ (\A y \in {last_id, n} : n >= y)
      /\ \A x \in {last_id, n} : (\A y \in {last_id, n} : x >= y) => x = n
  BY <1>2
<1>4. Max({last_id, n}) = n
  BY <1>3 DEF Max
<1> QED BY <1>1, <1>4

LEMMA BlankIs ==
  Blank \in Row /\ Blank.content = NoContent /\ Blank.sub = NoSub
BY DEF Blank, Row

(* The rows of X are deleted. *)
LEMMA DeletesRows ==
  ASSUME RowsGiven, Probed, NEW X, UNCHANGED <<last_id, probe>>,
         servers' = [id \in Ids |-> IF id \in X THEN Blank ELSE servers[id]]
  PROVE  RowsGiven' /\ Probed' /\ KeepsRefs
<1>1. \A id \in Ids : servers'[id] = Blank \/ servers'[id] = servers[id]
  OBVIOUS
<1>2. servers' \in [Ids -> Row]
  BY BlankIs DEF RowsGiven
<1>3. LatencyIsOwn'
  BY <1>1 DEF RowsGiven, LatencyIsOwn, Existing
<1>4. RowsGiven'
  BY <1>1, <1>2, <1>3 DEF RowsGiven
<1>5. Probed'
  BY <1>1 DEF Probed
<1>6. ASSUME NEW P, NEW S, NEW W, Refs(servers, last_id, P, S, W)
      PROVE  Refs(servers', last_id', P, S, W)
  BY <1>1, <1>6 DEF Refs, RefsTyped, Given, Chosen
<1> QED BY <1>4, <1>5, <1>6 DEF KeepsRefs

(* A row is created. *)
LEMMA CreatesRow ==
  ASSUME ~SQLite, RowsGiven, Probed, UNCHANGED probe,
         NEW s \in Subs \union {NoSub}, NEW c \in Contents, Create(s, c)
  PROVE  RowsGiven' /\ Probed' /\ KeepsRefs
<1> DEFINE n == last_id + 1
           new == [sub |-> s, content |-> c, measured |-> NoContent]
<1>1. last_id \in 0..MaxId /\ MaxId \in Nat
  BY ProxyPoolAssumption DEF RowsGiven
<1>2. /\ n <= MaxId /\ last_id' = n
      /\ servers' = [servers EXCEPT ![n] = new]
  BY <1>1, NextIsNew DEF Create
<1>3. n \in Ids /\ last_id' \in 0..MaxId
  BY <1>1, <1>2 DEF Ids
<1>4. new \in Row
  BY DEF Row
<1>5. new # Blank
  BY ProxyPoolAssumption DEF Blank
<1>6. /\ servers'[n] = new
      /\ \A id \in Ids \ {n} : servers'[id] = servers[id]
      /\ servers' \in [Ids -> Row]
  BY <1>2, <1>3, <1>4 DEF RowsGiven
<1>7. \A id \in Ids : id <= last_id => id # n /\ id <= last_id'
  BY <1>1, <1>2 DEF Ids
<1>8. new.content = c /\ new.measured = NoContent /\ n <= last_id'
  BY <1>1, <1>2
<1> HIDE DEF n, new
<1>9. \A id \in Ids : servers'[id] # Blank =>
        id <= last_id' /\ servers'[id].content \in Contents
  BY <1>6, <1>7, <1>8 DEF RowsGiven
<1>10. LatencyIsOwn'
  BY <1>6, <1>8 DEF RowsGiven, LatencyIsOwn, Existing
<1>11. RowsGiven'
  BY <1>3, <1>6, <1>9, <1>10 DEF RowsGiven
<1>12. Probed'
  BY <1>6, <1>7 DEF Probed
<1>13. ASSUME NEW P, NEW S, NEW W, Refs(servers, last_id, P, S, W)
      PROVE  Refs(servers', last_id', P, S, W)
  <2>1. \A t \in Subs : P[t] \in Nat /\ S[t] \subseteq Ids
    BY <1>13 DEF Refs, RefsTyped
  <2>2. Given(P, S, last_id')
    BY <1>1, <1>2, <1>13, <2>1 DEF Refs, Given, Ids, n
  <2>3. \A t \in Subs : n # P[t] /\ n \notin S[t]
    BY <1>1, <1>13, <2>1 DEF Refs, Given, Ids, n
  <2>4. Chosen(servers', P, S, W)
    BY <1>6, <1>13, <2>3 DEF Refs, Chosen
  <2> QED BY <1>13, <2>2, <2>4 DEF Refs, RefsTyped
<1> QED BY <1>11, <1>12, <1>13 DEF KeepsRefs

(* The latency test stores what it measured. *)
LEMMA MeasuresRows ==
  ASSUME RowsGiven, Probed, FinishTest
  PROVE  RowsGiven' /\ Probed' /\ KeepsRefs
<1> DEFINE held == {id \in Ids : probe[id] # NoContent}
<1>1. probe' = NoProbe /\ last_id' = last_id
  BY DEF FinishTest
<1>2. servers' = servers \/
        servers' = [id \in Ids |-> IF id \in held \intersect Existing
                      THEN [servers[id] EXCEPT !.measured = probe[id]] ELSE servers[id]]
  BY DEF FinishTest
<1>3. ASSUME NEW id \in Ids
      PROVE  /\ servers'[id] \in Row
             /\ servers'[id].content = servers[id].content
             /\ servers'[id].sub = servers[id].sub
             /\ servers'[id] # Blank => servers[id] # Blank
             /\ servers'[id].measured \in {servers[id].measured, servers[id].content}
  <2>0. servers[id] \in Row /\ probe[id] \in Contents \union {NoContent}
    BY DEF RowsGiven, Probed
  <2>1. CASE servers'[id] = servers[id]
    BY <2>0, <2>1
  <2>2. CASE id \in held /\ servers[id] # Blank
             /\ servers'[id] = [servers[id] EXCEPT !.measured = probe[id]]
    <3>1. probe[id] = servers[id].content
      BY <2>2 DEF Probed
    <3> QED BY <2>0, <2>2, <3>1 DEF Row
  <2> QED BY <1>2, <2>1, <2>2 DEF Existing
<1>4. servers' \in [Ids -> Row]
  <2>1. servers' = [id \in Ids |-> servers'[id]]
    BY <1>2 DEF RowsGiven
  <2> QED BY <1>3, <2>1
<1>5. LatencyIsOwn'
  BY <1>3 DEF RowsGiven, LatencyIsOwn, Existing
<1>6. RowsGiven'
  BY <1>1, <1>3, <1>4, <1>5 DEF RowsGiven
<1>7. Probed'
  BY <1>1 DEF Probed, NoProbe
<1>8. KeepsRefs
  BY <1>1, <1>3 DEF KeepsRefs, Refs, Given, Chosen
<1> QED BY <1>6, <1>7, <1>8

LEMMA RowsStay ==
  ASSUME RowsGiven, Probed, UNCHANGED <<servers, last_id, probe>>
  PROVE  RowsGiven' /\ Probed' /\ KeepsRefs
BY DEF RowsGiven, LatencyIsOwn, Existing, Probed, KeepsRefs

-----------------------------------------------------------------------------
(* The references: a request refers to what was referred to or is there. *)

LEMMA SettingsRefer ==
  ASSUME NEW s \in Subs, NEW r \in Settings(s)
  PROVE  /\ r.active \in BOOLEAN /\ r.category \in Categories /\ r.mode \in Modes
         /\ r.preferred \in {0, preferred_bridge_server_id[s]} \union Existing
         /\ \/ r.selected \subseteq selected_server_ids[s]
            \/ r.selected \subseteq ServersOf(s)
<1>1. /\ r.active \in BOOLEAN /\ r.category \in {"external"} \union Categories
      /\ r.mode \in {"all", "manual", "selected"}
      /\ r.preferred \in {0, preferred_bridge_server_id[s]} \union Existing
      /\ r.selected \in {{}, selected_server_ids[s]} \union SUBSET ServersOf(s)
  BY DEF Settings
<1> QED BY <1>1 DEF Categories, Modes

LEMMA StoreRefers ==
  ASSUME SubsTyped, RowsGiven, NEW s \in Subs, NEW r \in Settings(s), NEW keeps,
         Store(s, r, keeps),
         Refs(servers, last_id, preferred_bridge_server_id, selected_server_ids, wanted)
  PROVE  /\ is_active' \in [Subs -> BOOLEAN]
         /\ category' \in [Subs -> Categories] /\ server_selection_mode' \in [Subs -> Modes]
         /\ Refs(servers, last_id, preferred_bridge_server_id', selected_server_ids', wanted')
<1> DEFINE P == preferred_bridge_server_id
           S == selected_server_ids
           D == selected_server_ids'[s]
           ids == D \union {r.preferred}
           old == ids \intersect (S[s] \union {P[s]})
           W == ContentsOf((ids \ old) \intersect ServersOf(s))
                  \union IF old \ {0} = {} THEN {} ELSE wanted[s]
<1>1. /\ P \in [Subs -> 0..MaxId] /\ S \in [Subs -> SUBSET Ids]
      /\ wanted \in [Subs -> SUBSET Contents]
      /\ Given(P, S, last_id) /\ Chosen(servers, P, S, wanted)
  BY DEF Refs, RefsTyped
<1>2. MaxId \in Nat /\ last_id \in 0..MaxId
  BY ProxyPoolAssumption DEF RowsGiven
<1>3. ServersOf(s) \subseteq Existing /\ Existing \subseteq Ids
  BY DEF ServersOf, Existing
<1>4. /\ category' = [category EXCEPT ![s] = r.category]
      /\ server_selection_mode' \in [Subs -> Modes]
      /\ P' = [P EXCEPT ![s] = r.preferred]
      /\ \E d \in {{}, r.selected} : S' = [S EXCEPT ![s] = d]
  <2>1. /\ category' = [category EXCEPT ![s] = r.category]
        /\ P' = [P EXCEPT ![s] = r.preferred]
        /\ \E d \in {{}, r.selected} : S' = [S EXCEPT ![s] = d]
    BY DEF Store
  <2>2. \E m \in {"all", r.mode} : server_selection_mode' = [server_selection_mode EXCEPT ![s] = m]
    BY DEF Store
  <2>3. server_selection_mode' \in [Subs -> Modes]
    BY <2>2, SettingsRefer DEF SubsTyped, Modes
  <2> QED BY <2>1, <2>3
<1>5. D \in {{}, r.selected} /\ S' = [S EXCEPT ![s] = D]
  BY <1>1, <1>4
<1>6. wanted' = [wanted EXCEPT ![s] = W]
  <2>1. S'[s] = IF (r.category # "bridge" /\
                     (IF r.category = "bridge" THEN "all" ELSE r.mode) \in keeps)
                THEN r.selected ELSE {}
    BY <1>1 DEF Store
  <2> QED BY <2>1 DEF Store
<1>7. D \subseteq S[s] \/ D \subseteq ServersOf(s)
  BY <1>5, SettingsRefer
<1>8. r.preferred \in {0, P[s]} \union Existing
  BY SettingsRefer
<1>9. \A id \in ids : id \in Ids \union {0} /\ id <= last_id
  <2>1. \A id \in Existing : id \in Ids /\ id <= last_id
    BY <1>3 DEF RowsGiven, Existing
  <2>2. P[s] \in 0..MaxId /\ P[s] <= last_id /\ S[s] \subseteq Ids
        /\ (\A id \in S[s] : id <= last_id) /\ 0 <= last_id
    BY <1>1, <1>2 DEF Given
  <2>3. P[s] \in Ids \union {0}
    BY <1>2, <2>2 DEF Ids
  <2>4. \A id \in D : id \in Ids /\ id <= last_id
    BY <1>3, <1>7, <2>1, <2>2
  <2> QED BY <1>8, <2>1, <2>2, <2>3, <2>4
<1>10. W \subseteq Contents
  <2>1. \A id \in ServersOf(s) : servers[id].content \in Contents
    BY <1>3 DEF RowsGiven, Existing
  <2> QED BY <1>1, <2>1 DEF ContentsOf
<1> HIDE DEF W
<1>11. D \subseteq Ids /\ r.preferred \in 0..MaxId
  BY <1>2, <1>3, <1>7, <1>9, <1>1 DEF Ids
<1>12. RefsTyped(P', S', wanted')
  BY <1>1, <1>4, <1>5, <1>6, <1>10, <1>11 DEF RefsTyped
<1>13. Given(P', S', last_id)
  BY <1>1, <1>4, <1>5, <1>9 DEF Given
<1>14. Chosen(servers, P', S', wanted')
  <2> SUFFICES ASSUME NEW u \in Subs, NEW id \in Ids, servers[id] # Blank, servers[id].sub = u,
                      id \in S'[u] \/ id = P'[u]
               PROVE  servers[id].content \in wanted'[u]
    BY DEF Chosen
  <2>1. CASE u # s
    BY <1>1, <1>4, <1>5, <1>6, <2>1 DEF Chosen
  <2>2. CASE u = s
    <3>1. id \in ids /\ wanted'[u] = W /\ id # 0
      BY <1>1, <1>2, <1>4, <1>5, <1>6, <2>2 DEF Ids
    <3>2. CASE id \in old
      <4>1. servers[id].content \in wanted[s]
        BY <1>1, <2>2, <3>2 DEF Chosen
      <4> QED BY <3>1, <3>2, <4>1 DEF W
    <3>3. CASE id \notin old
      <4>1. id \in (ids \ old) \intersect ServersOf(s)
        BY <2>2, <3>1, <3>3 DEF ServersOf, Existing
      <4> QED BY <3>1, <4>1 DEF W, ContentsOf
    <3> QED BY <3>2, <3>3
  <2> QED BY <2>1, <2>2
<1>15. category' \in [Subs -> Categories]
  BY <1>4, SettingsRefer DEF SubsTyped
<1>16. is_active' \in [Subs -> BOOLEAN]
  BY SettingsRefer DEF SubsTyped, Store
<1> QED BY <1>4, <1>12, <1>13, <1>14, <1>15, <1>16 DEF Refs

(* The references after a synchronisation that ends. *)
LEMMA RestoreRefers ==
  ASSUME RowsGiven, NEW t \in Threads, RestoreServerSelections(t),
         Refs(servers, last_id, preferred_bridge_server_id, selected_server_ids, wanted)
  PROVE  Refs(servers, last_id, preferred_bridge_server_id', selected_server_ids', wanted')
<1>1. wanted' = wanted
  BY DEF RestoreServerSelections
<1>2. CASE UNCHANGED <<preferred_bridge_server_id, selected_server_ids>>
  BY <1>1, <1>2
<1>3. CASE /\ preferred_bridge_server_id' = [preferred_bridge_server_id EXCEPT ![sub[t]] = 0]
           /\ selected_server_ids' = [selected_server_ids EXCEPT ![sub[t]] = {}]
  <2> DEFINE P == preferred_bridge_server_id
             S == selected_server_ids
  <2>1. /\ P \in [Subs -> 0..MaxId] /\ S \in [Subs -> SUBSET Ids]
        /\ wanted \in [Subs -> SUBSET Contents]
        /\ Given(P, S, last_id) /\ Chosen(servers, P, S, wanted)
    BY DEF Refs, RefsTyped
  <2>2. \A s \in Subs : P'[s] \in {0, P[s]} /\ S'[s] \subseteq S[s]
    BY <1>3, <2>1
  <2>3. MaxId \in Nat /\ last_id \in 0..MaxId
    BY ProxyPoolAssumption DEF RowsGiven
  <2>4. P' \in [Subs -> 0..MaxId] /\ S' \in [Subs -> SUBSET Ids]
    <3>1. 0 \in 0..MaxId /\ {} \in SUBSET Ids
      BY <2>3
    <3>2. P' \in [Subs -> 0..MaxId]
      BY <1>3, <2>1, <3>1
    <3>3. S' \in [Subs -> SUBSET Ids]
      BY <1>3, <2>1, <3>1
    <3> QED BY <3>2, <3>3
  <2>5. Given(P', S', last_id)
    BY <2>1, <2>2, <2>3 DEF Given
  <2>6. \A id \in Ids : id # 0
    BY <2>3 DEF Ids
  <2>7. Chosen(servers, P', S', wanted')
    BY <1>1, <2>1, <2>2, <2>6 DEF Chosen
  <2> QED BY <1>1, <2>1, <2>4, <2>5, <2>7 DEF Refs, RefsTyped
<1> QED BY <1>2, <1>3 DEF RestoreServerSelections

-----------------------------------------------------------------------------
(* The threads *)

LEMMA StartsThread ==
  ASSUME ThreadsTyped, NEW t \in Threads, NEW s \in Subs, StartSync(t, s)
  PROVE  ThreadsTyped'
BY DEF ThreadsTyped, StartSync, Phases

LEMMA EndsThread ==
  ASSUME ThreadsTyped, NEW t \in Threads, Ends(t)
  PROVE  ThreadsTyped'
BY DEF ThreadsTyped, Ends, Phases

(* What the changes of rows, references and threads make of a step. *)
LEMMA Together ==
  ASSUME IInv, KeepsRefs, RowsGiven', Probed', ThreadsTyped', SubsTyped', FetchedTyped',
         Refs(servers, last_id, preferred_bridge_server_id', selected_server_ids', wanted')
  PROVE  IInv'
BY DEF KeepsRefs, IInv

-----------------------------------------------------------------------------
LEMMA AddStep ==
  ASSUME ~SQLite, IInv, NEW t \in Threads, NEW s \in Subs, AddSubscription(t, s)
  PROVE  IInv'
<1>1. /\ row' = [row EXCEPT ![s] = "live"] /\ UNCHANGED probe
      /\ \E r \in Settings(s) : Store(s, r, {"all", "manual", "selected"})
  BY DEF AddSubscription
<1>2. /\ SubsTyped'
      /\ Refs(servers, last_id, preferred_bridge_server_id', selected_server_ids', wanted')
  BY <1>1, StoreRefers DEF IInv, SubsTyped
<1>3. CASE StartSync(t, s) /\ UNCHANGED <<rowVars, fetched>>
  <2>1. ThreadsTyped'
    BY <1>3, StartsThread DEF IInv
  <2>2. RowsGiven' /\ Probed' /\ KeepsRefs
    BY <1>1, <1>3, RowsStay DEF IInv, rowVars
  <2>3. FetchedTyped'
    BY <1>3 DEF IInv, FetchedTyped
  <2> QED BY <1>2, <2>1, <2>2, <2>3, Together
<1>4. ASSUME NEW c \in Contents, Create(s, c), fetched' = [fetched EXCEPT ![s] = <<c>>],
             UNCHANGED threadVars
      PROVE  IInv'
  <2>1. RowsGiven' /\ Probed' /\ KeepsRefs
    BY <1>1, <1>4, CreatesRow DEF IInv
  <2>2. <<c>> \in Seq(Contents)
    OBVIOUS
  <2>3. FetchedTyped'
    BY <1>4, <2>2 DEF IInv, FetchedTyped
  <2>4. ThreadsTyped'
    BY <1>4 DEF IInv, ThreadsTyped, threadVars
  <2> QED BY <1>2, <2>1, <2>3, <2>4, Together
<1>5. CASE UNCHANGED <<rowVars, threadVars, fetched>>
  <2>1. RowsGiven' /\ Probed' /\ KeepsRefs
    BY <1>1, <1>5, RowsStay DEF IInv, rowVars
  <2>2. ThreadsTyped' /\ FetchedTyped'
    BY <1>5 DEF IInv, ThreadsTyped, threadVars, FetchedTyped
  <2> QED BY <1>2, <2>1, <2>2, Together
<1> QED BY <1>3, <1>4, <1>5 DEF AddSubscription

LEMMA ModifyStep ==
  ASSUME IInv, NEW t \in Threads, NEW s \in Subs, ModifySubscription(t, s)
  PROVE  IInv'
<1>1. /\ \E r \in Settings(s) : Store(s, r, {"selected"})
      /\ StartSync(t, s) \/ UNCHANGED threadVars
      /\ UNCHANGED <<row, rowVars, probe, fetched>>
  BY DEF ModifySubscription
<1>2. /\ SubsTyped'
      /\ Refs(servers, last_id, preferred_bridge_server_id', selected_server_ids', wanted')
  BY <1>1, StoreRefers DEF IInv, SubsTyped
<1>3. ThreadsTyped'
  <2>1. CASE StartSync(t, s)
    BY <2>1, StartsThread DEF IInv
  <2>2. CASE UNCHANGED threadVars
    BY <2>2 DEF IInv, ThreadsTyped, threadVars
  <2> QED BY <1>1, <2>1, <2>2
<1>4. RowsGiven' /\ Probed' /\ KeepsRefs
  BY <1>1, RowsStay DEF IInv, rowVars
<1>5. FetchedTyped'
  BY <1>1 DEF IInv, FetchedTyped
<1> QED BY <1>2, <1>3, <1>4, <1>5, Together

(* The steps that leave the references alone. *)
LEMMA RefsStay ==
  ASSUME IInv, UNCHANGED <<preferred_bridge_server_id, selected_server_ids, wanted>>
  PROVE  Refs(servers, last_id, preferred_bridge_server_id', selected_server_ids', wanted')
BY DEF IInv

LEMMA RemoveStep ==
  ASSUME IInv, NEW s \in Subs, RemoveSubscription(s)
  PROVE  IInv'
<1>1. /\ row' = [row EXCEPT ![s] = "removed"]
      /\ servers' = [id \in Ids |-> IF id \in ServersOf(s) THEN Blank ELSE servers[id]]
      /\ UNCHANGED <<is_active, category, server_selection_mode, preferred_bridge_server_id,
                     selected_server_ids, wanted, last_id, threadVars, probe, fetched>>
  BY DEF RemoveSubscription
<1>2. RowsGiven' /\ Probed' /\ KeepsRefs
  BY <1>1, DeletesRows DEF IInv
<1>3. SubsTyped' /\ ThreadsTyped' /\ FetchedTyped'
  BY <1>1 DEF IInv, SubsTyped, ThreadsTyped, threadVars, FetchedTyped
<1> QED BY <1>1, <1>2, <1>3, RefsStay, Together

LEMMA SyncStep ==
  ASSUME IInv, NEW t \in Threads, NEW s \in Subs, Sync(t, s)
  PROVE  IInv'
<1>1. StartSync(t, s) /\ UNCHANGED <<subVars, rowVars, probe, fetched>>
  BY DEF Sync
<1>2. RowsGiven' /\ Probed' /\ KeepsRefs
  BY <1>1, RowsStay DEF IInv, rowVars
<1>3. ThreadsTyped'
  BY <1>1, StartsThread DEF IInv
<1>4. SubsTyped' /\ FetchedTyped'
  BY <1>1 DEF IInv, SubsTyped, subVars, FetchedTyped
<1> QED BY <1>1, <1>2, <1>3, <1>4, RefsStay, Together DEF subVars

LEMMA RemoveServersStep ==
  ASSUME IInv, NEW t \in Threads, RemoveServers(t)
  PROVE  IInv'
<1>1. /\ phase' = [phase EXCEPT ![t] = "fetch"]
      /\ previous' = [previous EXCEPT ![t] = ServersOf(sub[t])]
      /\ servers' = [id \in Ids |-> IF id \in ServersOf(sub[t]) THEN Blank ELSE servers[id]]
      /\ UNCHANGED <<subVars, last_id, sub, feed, probe, fetched>>
  BY DEF RemoveServers
<1>2. RowsGiven' /\ Probed' /\ KeepsRefs
  BY <1>1, DeletesRows DEF IInv
<1>3. ServersOf(sub[t]) \subseteq Ids
  BY DEF ServersOf, Existing
<1>4. ThreadsTyped'
  <2>1. overlapped' \subseteq Subs
    BY DEF IInv, ThreadsTyped, RemoveServers, Settles
  <2> QED BY <1>1, <1>3, <2>1 DEF IInv, ThreadsTyped, Phases
<1>5. SubsTyped' /\ FetchedTyped'
  BY <1>1 DEF IInv, SubsTyped, subVars, FetchedTyped
<1> QED BY <1>1, <1>2, <1>4, <1>5, RefsStay, Together DEF subVars

LEMMA FetchStep ==
  ASSUME IInv, NEW t \in Threads, NEW f \in Feeds, Fetch(t, f)
  PROVE  IInv'
<1>1. /\ phase' = [phase EXCEPT ![t] = IF f = <<>> THEN "restore" ELSE "create"]
      /\ feed' = [feed EXCEPT ![t] = f]
      /\ fetched' = [fetched EXCEPT ![sub[t]] = f]
      /\ UNCHANGED <<subVars, rowVars, sub, previous, overlapped, probe>>
  BY DEF Fetch
<1>2. RowsGiven' /\ Probed' /\ KeepsRefs
  BY <1>1, RowsStay DEF IInv, rowVars
<1>3. f \in Seq(Contents)
  <2>1. PICK k \in 0..MaxFeed : f \in [1..k -> Contents]
    BY DEF Feeds
  <2>2. k \in Nat
    BY <2>1, ProxyPoolAssumption
  <2> QED BY <2>1, <2>2
<1>4. ThreadsTyped'
  BY <1>1, <1>3 DEF IInv, ThreadsTyped, Phases
<1>5. SubsTyped' /\ FetchedTyped'
  BY <1>1, <1>3 DEF IInv, SubsTyped, subVars, FetchedTyped
<1> QED BY <1>1, <1>2, <1>4, <1>5, RefsStay, Together DEF subVars

LEMMA CreateServerStep ==
  ASSUME ~SQLite, IInv, NEW t \in Threads, CreateServer(t)
  PROVE  IInv'
<1>1. /\ phase[t] \in {"create", "more"}
      /\ Create(sub[t], Head(feed[t]))
      /\ feed' = [feed EXCEPT ![t] = Tail(feed[t])]
      /\ phase' = [phase EXCEPT ![t] = IF Len(feed[t]) = 1 THEN "restore" ELSE "more"]
      /\ UNCHANGED <<subVars, sub, previous, overlapped, probe, fetched>>
  BY DEF CreateServer
<1>2. feed[t] \in Seq(Contents) /\ feed[t] # <<>> /\ sub[t] \in Subs \union {NoSub}
  BY <1>1 DEF IInv, ThreadsTyped
<1>3. /\ Head(feed[t]) \in Contents /\ Tail(feed[t]) \in Seq(Contents)
      /\ Len(feed[t]) # 1 => Tail(feed[t]) # <<>>
  <2>1. Len(feed[t]) \in Nat \ {0} /\ Len(Tail(feed[t])) = Len(feed[t]) - 1
    BY <1>2
  <2>2. Head(feed[t]) \in Contents /\ Tail(feed[t]) \in Seq(Contents)
    BY <1>2
  <2>3. ASSUME Len(feed[t]) # 1, Tail(feed[t]) = <<>> PROVE FALSE
    <3>1. Len(<<>>) = 0
      OBVIOUS
    <3>2. Len(Tail(feed[t])) = 0
      BY <2>3, <3>1, Zenon
    <3>3. Len(feed[t]) = 1
      BY <2>1, <3>2
    <3> QED BY <2>3, <3>3, Zenon
  <2> QED BY <2>2, <2>3
<1>4. RowsGiven' /\ Probed' /\ KeepsRefs
  BY <1>1, <1>2, <1>3, CreatesRow DEF IInv
<1>5. ThreadsTyped'
  BY <1>1, <1>3 DEF IInv, ThreadsTyped, Phases
<1>6. SubsTyped' /\ FetchedTyped'
  BY <1>1 DEF IInv, SubsTyped, subVars, FetchedTyped
<1> QED BY <1>1, <1>4, <1>5, <1>6, RefsStay, Together DEF subVars

LEMMA EndStep ==
  ASSUME IInv, NEW t \in Threads, SyncFails(t) \/ RestoreServerSelections(t)
  PROVE  IInv'
<1>1. /\ Ends(t)
      /\ UNCHANGED <<row, is_active, category, server_selection_mode, wanted, rowVars,
                     probe, fetched>>
  BY DEF SyncFails, RestoreServerSelections, subVars
<1>2. RowsGiven' /\ Probed' /\ KeepsRefs
  BY <1>1, RowsStay DEF IInv, rowVars
<1>3. ThreadsTyped'
  BY <1>1, EndsThread DEF IInv
<1>4. SubsTyped' /\ FetchedTyped'
  BY <1>1 DEF IInv, SubsTyped, FetchedTyped
<1>5. Refs(servers, last_id, preferred_bridge_server_id', selected_server_ids', wanted')
  <2>1. CASE SyncFails(t)
    BY <2>1, RefsStay DEF SyncFails, subVars
  <2>2. CASE RestoreServerSelections(t)
    BY <2>2, RestoreRefers DEF IInv
  <2> QED BY <2>1, <2>2
<1> QED BY <1>2, <1>3, <1>4, <1>5, Together

LEMMA TestStep ==
  ASSUME IInv, StartTest \/ FinishTest
  PROVE  IInv'
<1>1. UNCHANGED <<subVars, last_id, threadVars, fetched>>
  BY DEF StartTest, FinishTest, rowVars
<1>2. SubsTyped' /\ ThreadsTyped' /\ FetchedTyped'
  BY <1>1 DEF IInv, SubsTyped, subVars, ThreadsTyped, threadVars, FetchedTyped
<1>3. CASE StartTest
  <2>1. UNCHANGED rowVars
    BY <1>3 DEF StartTest
  <2>2. RowsGiven' /\ KeepsRefs
    BY <2>1 DEF IInv, RowsGiven, LatencyIsOwn, Existing, KeepsRefs, rowVars
  <2>3. PICK S \in SUBSET Live :
          probe' = [id \in Ids |-> IF servers[id].sub \in S THEN servers[id].content ELSE NoContent]
    BY <1>3 DEF StartTest
  <2>4. \A id \in Ids : servers[id] \in Row
    BY DEF IInv, RowsGiven
  <2>5. \A id \in Ids : servers[id].sub \in S => servers[id] # Blank
    BY BlankIs, ProxyPoolAssumption DEF Live
  <2>6. Probed'
    BY <2>1, <2>3, <2>4, <2>5 DEF IInv, RowsGiven, Probed, rowVars, Row
  <2> QED BY <1>1, <1>2, <2>2, <2>6, RefsStay, Together DEF subVars
<1>4. CASE FinishTest
  <2>1. RowsGiven' /\ Probed' /\ KeepsRefs
    BY <1>4, MeasuresRows DEF IInv
  <2> QED BY <1>1, <1>2, <2>1, RefsStay, Together DEF subVars
<1> QED BY <1>3, <1>4

-----------------------------------------------------------------------------
LEMMA InitInv == Init => IInv
<1> SUFFICES ASSUME Init PROVE IInv
  OBVIOUS
<1>1. MaxId \in Nat
  BY ProxyPoolAssumption
<1>2. SubsTyped /\ FetchedTyped
  BY DEF Init, SubsTyped, FetchedTyped, Categories, Modes
<1>3. ThreadsTyped
  BY DEF Init, ThreadsTyped, Phases
<1>4. RowsGiven
  BY <1>1, BlankIs DEF Init, RowsGiven, LatencyIsOwn, Existing
<1>5. Probed
  BY DEF Init, Probed, NoProbe
<1>6. Refs(servers, last_id, preferred_bridge_server_id, selected_server_ids, wanted)
  BY <1>1 DEF Init, Refs, RefsTyped, Given, Chosen
<1> QED BY <1>2, <1>3, <1>4, <1>5, <1>6 DEF IInv

LEMMA StepInv == ~SQLite => (IInv /\ [Next]_vars => IInv')
<1> SUFFICES ASSUME ~SQLite, IInv, [Next]_vars PROVE IInv'
  OBVIOUS
<1>1. ASSUME NEW t \in Threads, NEW s \in Subs, Request(t, s) \/ Sync(t, s) PROVE IInv'
  BY <1>1, AddStep, ModifyStep, SyncStep DEF Request
<1>2. ASSUME NEW s \in Subs, RemoveSubscription(s) PROVE IInv'
  BY <1>2, RemoveStep
<1>3. ASSUME NEW t \in Threads, Step(t) PROVE IInv'
  BY <1>3, RemoveServersStep, FetchStep, CreateServerStep, EndStep DEF Step
<1>4. CASE StartTest \/ FinishTest
  BY <1>4, TestStep
<1>5. CASE UNCHANGED vars
  <2>1. /\ UNCHANGED <<row, category, server_selection_mode, preferred_bridge_server_id,
                       selected_server_ids, wanted, servers, last_id, probe, fetched>>
        /\ UNCHANGED <<is_active, phase, sub, previous, feed, overlapped>>
    BY <1>5 DEF vars, subVars, rowVars, threadVars
  <2>2. RowsGiven' /\ Probed' /\ KeepsRefs
    BY <2>1, RowsStay DEF IInv
  <2>3. SubsTyped' /\ ThreadsTyped' /\ FetchedTyped'
    BY <2>1 DEF IInv, SubsTyped, ThreadsTyped, FetchedTyped
  <2> QED BY <2>1, <2>2, <2>3, RefsStay, Together
<1> QED BY <1>1, <1>2, <1>3, <1>4, <1>5 DEF Next

(* On a database that does not give ids again, ids that are referred to were
   given, and every server among them is a chosen one. *)
THEOREM PoolInductive == ~SQLite => (Spec => []IInv)
<1> SUFFICES ASSUME ~SQLite PROVE Spec => []IInv
  OBVIOUS
<1>1. IInv /\ [Next]_vars => IInv'
  BY StepInv
<1> QED BY <1>1, InitInv, PTL DEF Spec

(* Every variable keeps its type; selected ids are ids of the table. *)
THEOREM PoolTypeCorrect == ~SQLite => (Spec => []TypeOK)
<1> SUFFICES ASSUME ~SQLite PROVE Spec => []TypeOK
  OBVIOUS
<1>1. IInv => TypeOK
  BY DEF IInv, SubsTyped, RowsGiven, Probed, ThreadsTyped, FetchedTyped, Refs, RefsTyped, TypeOK
<1>2. Spec => []IInv
  BY PoolInductive
<1> QED BY <1>1, <1>2, PTL

(* However often servers are replaced, by however many threads, no selected id
   stands for a server that was not chosen (_restore_server_selections). *)
THEOREM NeverStrays == ~SQLite => (Spec => []SelectionNeverStrays)
<1> SUFFICES ASSUME ~SQLite PROVE Spec => []SelectionNeverStrays
  OBVIOUS
<1>1. IInv => SelectionNeverStrays
  BY DEF IInv, Refs, Chosen, SelectionNeverStrays, ContentsOf, ServersOf, Existing, Live
<1>2. Spec => []IInv
  BY PoolInductive
<1> QED BY <1>1, <1>2, PTL

(* A latency is stored with the server it was measured for
   (test_all_servers_latency). *)
THEOREM LatencyStaysOwn == ~SQLite => (Spec => []LatencyIsOwn)
<1> SUFFICES ASSUME ~SQLite PROVE Spec => []LatencyIsOwn
  OBVIOUS
<1>1. IInv => LatencyIsOwn
  BY DEF IInv, RowsGiven
<1>2. Spec => []IInv
  BY PoolInductive
<1> QED BY <1>1, <1>2, PTL

(* On any database, and whatever ids are stored, users get servers of a
   subscription that has some (_pick_subscription_servers). *)
THEOREM NobodyEmptyHanded == Spec => []NeverEmptyHanded
<1>1. NeverEmptyHanded
  BY DEF NeverEmptyHanded, PickSubscriptionServers
<1> QED BY <1>1, PTL

-----------------------------------------------------------------------------
(* The servers are those of one fetch *)

(* The first n servers of a list are the rows ids of a subscription, in the
   order of the list. *)
Lists(rows, s, list, n, ids) ==
  /\ ids \in [1..n -> Ids]
  /\ \A i, j \in 1..n : i < j => ids[i] < ids[j]
  /\ \A id \in Ids : rows[id].sub = s <=> \E i \in 1..n : ids[i] = id
  /\ \A i \in 1..n : rows[ids[i]].content = list[i]

Begins(rows, s, list, n) == \E ids : Lists(rows, s, list, n, ids)

(* What is stored is a beginning of what was fetched. *)
Listed(rows, s, list) == \E n \in 0..Len(list) : Begins(rows, s, list, n)

(* And what is left is the rest of it. *)
Continues(rows, s, list, rest) ==
  \E n \in Nat :
    /\ Begins(rows, s, list, n)
    /\ Len(list) = n + Len(rest)
    /\ \A i \in 1..Len(rest) : rest[i] = list[n + i]

RowsBelow ==
  /\ servers \in [Ids -> Row]
  /\ last_id \in Nat
  /\ \A id \in Ids : servers[id] # Blank => id <= last_id

ThreadsBusy ==
  /\ phase \in [Threads -> Phases]
  /\ sub \in [Threads -> Subs \union {NoSub}]
  /\ feed \in [Threads -> Seq(Contents)]
  /\ overlapped \subseteq Subs
  /\ \A t \in Threads : phase[t] = "idle" <=> sub[t] = NoSub
  /\ \A t \in Threads : phase[t] # "idle" => row[sub[t]] # "free"

NoRows(rows, s) == \A id \in Ids : rows[id].sub # s

(* Threads that are in one subscription overlap. *)
Apart ==
  \A t, u \in Threads : t # u /\ sub[t] = sub[u] /\ sub[t] # NoSub => sub[t] \in overlapped

(* What one thread has reached in the synchronisation of a subscription that it
   has to itself. *)
Reached(t) ==
  /\ sub[t] \notin overlapped =>
       /\ phase[t] = "fetch" => NoRows(servers, sub[t])
       /\ phase[t] \in {"create", "more", "restore"} /\ row[sub[t]] = "live" =>
            Continues(servers, sub[t], fetched[sub[t]], feed[t])
  /\ phase[t] \in {"create", "more"} => feed[t] # <<>>

FetchInv ==
  /\ row \in [Subs -> {"free", "live", "removed"}]
  /\ fetched \in [Subs -> Seq(Contents)]
  /\ RowsBelow
  /\ ThreadsBusy /\ Apart
  /\ \A s \in Subs : row[s] = "free" => NoRows(servers, s)
  /\ \A s \in Live \ overlapped : AtRest(s) => Listed(servers, s, fetched[s])
  /\ \A t \in Threads : Reached(t)

(* On either kind of database the next id is above those of all rows. *)
LEMMA NextIsAbove ==
  ASSUME RowsBelow
  PROVE  /\ NextId \in Nat \ {0}
         /\ \A id \in Existing : id < NextId
         /\ Max({last_id, NextId}) \in Nat
         /\ Max({last_id, NextId}) >= last_id
         /\ Max({last_id, NextId}) >= NextId
<1>1. /\ Existing \subseteq Nat
      /\ \A id \in Existing : id <= last_id
      /\ last_id \in Nat
  BY ProxyPoolAssumption DEF RowsBelow, Existing, Ids
<1>2. NextId \in Nat \ {0} /\ \A id \in Existing : id < NextId
  <2>1. CASE ~SQLite
    BY <1>1, <2>1 DEF NextId
  <2>2. CASE SQLite
    <3> DEFINE T == Existing \union {0}
    <3>1. T \subseteq Nat /\ T # {} /\ \A y \in T : y <= last_id
      BY <1>1
    <3>2. \E x \in T : \A y \in T : y <= x
      BY <1>1, <3>1, GreatestNatural
    <3>3. \E x \in T : \A y \in T : x >= y
      BY <3>1, <3>2
    <3>4. Max(T) \in T /\ \A y \in T : Max(T) >= y
      BY <3>3 DEF Max
    <3> HIDE DEF T
    <3>5. NextId = Max(T) + 1
      BY <2>2 DEF NextId, T
    <3>6. Existing \subseteq T
      BY DEF T
    <3>7. PICK x \in T : x = Max(T)
      BY <3>4
    <3>8. x \in Nat /\ NextId = x + 1 /\ \A y \in Existing : y \in Nat /\ x >= y
      BY <1>1, <3>1, <3>4, <3>5, <3>6, <3>7
    <3>9. QED
      BY <3>8
  <2>3. QED
    BY <2>1, <2>2
<1>3. ASSUME NEW a \in Nat, NEW b \in Nat
      PROVE  Max({a, b}) \in Nat /\ Max({a, b}) >= a /\ Max({a, b}) >= b
  <2>1. \E x \in {a, b} : \A y \in {a, b} : x >= y
    <3>1. a >= b \/ b >= a
      OBVIOUS
    <3>2. a >= a /\ b >= b
      OBVIOUS
    <3>3. QED
      BY <3>1, <3>2
  <2>2. Max({a, b}) \in {a, b} /\ \A y \in {a, b} : Max({a, b}) >= y
    BY <2>1 DEF Max
  <2>3. QED
    BY <2>2
<1>4. QED
  BY <1>1, <1>2, <1>3

(* No rows are the beginning of any list. *)
LEMMA NoneListed ==
  ASSUME NEW rows, NEW s, NEW list, NoRows(rows, s)
  PROVE  Begins(rows, s, list, 0)
<1> DEFINE ids == [i \in 1..0 |-> 0]
<1>1. ids \in [1..0 -> Ids] /\ 1..0 = {}
  OBVIOUS
<1>2. Lists(rows, s, list, 0, ids)
  BY <1>1 DEF Lists, NoRows
<1>3. QED
  BY <1>2 DEF Begins

(* A list depends on the rows of its subscription only. *)
LEMMA SameListed ==
  ASSUME NEW rows, NEW rows2, NEW s, NEW list, NEW n,
         \A id \in Ids : /\ rows2[id].sub = s <=> rows[id].sub = s
                         /\ rows[id].sub = s => rows2[id].content = rows[id].content,
         Begins(rows, s, list, n)
  PROVE  Begins(rows2, s, list, n)
<1>1. PICK ids : Lists(rows, s, list, n, ids)
  BY DEF Begins
<1>2. \A i \in 1..n : ids[i] \in Ids /\ rows[ids[i]].sub = s
  BY <1>1 DEF Lists
<1>3. Lists(rows2, s, list, n, ids)
  BY <1>1, <1>2 DEF Lists
<1>4. QED
  BY <1>3 DEF Begins

(* A new row with an id above the others continues the list. *)
LEMMA OneMoreListed ==
  ASSUME NEW rows, NEW rows2, NEW s, NEW list, NEW n \in Nat, NEW m \in Ids,
         \A id \in Ids : rows[id].sub = s => id < m,
         \A id \in Ids \ {m} : rows2[id] = rows[id],
         rows2[m].sub = s, rows2[m].content = list[n + 1],
         Begins(rows, s, list, n)
  PROVE  Begins(rows2, s, list, n + 1)
<1>1. PICK ids : Lists(rows, s, list, n, ids)
  BY DEF Begins
<1> DEFINE more == [i \in 1..(n + 1) |-> IF i = n + 1 THEN m ELSE ids[i]]
<1>2. /\ ids \in [1..n -> Ids]
      /\ \A i, j \in 1..n : i < j => ids[i] < ids[j]
      /\ \A id \in Ids : rows[id].sub = s <=> \E i \in 1..n : ids[i] = id
      /\ \A i \in 1..n : rows[ids[i]].content = list[i]
  BY <1>1 DEF Lists
<1>3. \A i \in 1..n : ids[i] \in Ids /\ rows[ids[i]].sub = s /\ ids[i] < m
  BY <1>2
<1>4. \A i \in 1..(n + 1) : i \in 1..n \/ i = n + 1
  OBVIOUS
<1>5. /\ \A i \in 1..n : more[i] = ids[i] /\ i \in 1..(n + 1)
      /\ more[n + 1] = m /\ n + 1 \in 1..(n + 1)
      /\ more \in [1..(n + 1) -> Ids]
  BY <1>2
<1> HIDE DEF more
<1>6. \A i \in 1..n : ids[i] # m /\ rows2[ids[i]] = rows[ids[i]]
  <2> SUFFICES ASSUME NEW i \in 1..n PROVE ids[i] # m /\ rows2[ids[i]] = rows[ids[i]]
    OBVIOUS
  <2>1. ids[i] \in Int /\ m \in Int /\ ids[i] < m /\ ids[i] \in Ids
    BY <1>3 DEF Ids
  <2>2. QED
    BY <2>1
<1>7. ASSUME NEW i \in 1..(n + 1), NEW j \in 1..(n + 1), i < j
      PROVE  more[i] < more[j]
  <2>1. i \in 1..n
    BY <1>7
  <2>2. CASE j = n + 1
    BY <1>3, <1>5, <2>1, <2>2
  <2>3. CASE j \in 1..n
    BY <1>2, <1>5, <1>7, <2>1, <2>3
  <2>4. QED
    BY <1>4, <2>2, <2>3
<1>8. ASSUME NEW id \in Ids
      PROVE  rows2[id].sub = s <=> \E i \in 1..(n + 1) : more[i] = id
  <2>1. CASE id = m
    BY <1>5, <2>1
  <2>2. CASE id # m
    <3>1. rows2[id].sub = s <=> \E i \in 1..n : ids[i] = id
      BY <1>2, <2>2
    <3>2. (\E i \in 1..(n + 1) : more[i] = id) <=> \E i \in 1..n : ids[i] = id
      BY <1>4, <1>5, <2>2
    <3>3. QED
      BY <3>1, <3>2
  <2>3. QED
    BY <2>1, <2>2
<1>9. ASSUME NEW i \in 1..(n + 1) PROVE rows2[more[i]].content = list[i]
  BY <1>2, <1>4, <1>5, <1>6
<1>10. Lists(rows2, s, list, n + 1, more)
  BY <1>5, <1>7, <1>8, <1>9 DEF Lists
<1>11. QED
  BY <1>10 DEF Begins

(* The same rows of a subscription, before and after a step. *)
SameRows(rows, rows2, s) ==
  \A id \in Ids : /\ rows2[id].sub = s <=> rows[id].sub = s
                  /\ rows[id].sub = s => rows2[id].content = rows[id].content

(* What is said of a subscription stays true as long as its rows stay. *)
LEMMA SameRowsSame ==
  ASSUME NEW rows, NEW rows2, NEW s, NEW list, SameRows(rows, rows2, s)
  PROVE  /\ NoRows(rows, s) => NoRows(rows2, s)
         /\ Listed(rows, s, list) => Listed(rows2, s, list)
         /\ \A rest : Continues(rows, s, list, rest) => Continues(rows2, s, list, rest)
<1>1. \A n : Begins(rows, s, list, n) => Begins(rows2, s, list, n)
  BY SameListed DEF SameRows
<1>2. NoRows(rows, s) => NoRows(rows2, s)
  BY DEF NoRows, SameRows
<1>3. QED
  BY <1>1, <1>2 DEF Listed, Continues

(* A subscription without rows has the beginning of any list, none of it. *)
LEMMA NoRowsListed ==
  ASSUME NEW rows, NEW s, NEW list \in Seq(Contents), NoRows(rows, s)
  PROVE  Listed(rows, s, list) /\ Continues(rows, s, list, list)
<1>1. Len(list) \in Nat /\ 0 \in 0..Len(list) /\ 0 \in Nat
  OBVIOUS
<1>2. Begins(rows, s, list, 0)
  BY NoneListed
<1>3. \A i \in 1..Len(list) : list[i] = list[0 + i]
  OBVIOUS
<1>4. Len(list) = 0 + Len(list)
  BY <1>1
<1>5. QED
  BY <1>1, <1>2, <1>3, <1>4 DEF Listed, Continues

(* What goes on from a beginning is a beginning. *)
LEMMA ContinuesListed ==
  ASSUME NEW rows, NEW s, NEW list \in Seq(Contents), NEW rest \in Seq(Contents),
         Continues(rows, s, list, rest)
  PROVE  Listed(rows, s, list)
<1>1. PICK n \in Nat : Begins(rows, s, list, n) /\ Len(list) = n + Len(rest)
  BY DEF Continues
<1>2. n \in 0..Len(list)
  <2>1. Len(rest) \in Nat /\ Len(list) \in Nat
    OBVIOUS
  <2>2. QED
    BY <1>1, <2>1
<1>3. QED
  BY <1>1, <1>2 DEF Listed

(* Deleting the rows of X leaves the others, and those of no subscription. *)
LEMMA DeletedRows ==
  ASSUME RowsBelow, NEW s \in Subs, UNCHANGED last_id,
         servers' = [id \in Ids |-> IF id \in ServersOf(s) THEN Blank ELSE servers[id]]
  PROVE  /\ RowsBelow'
         /\ NoRows(servers', s)
         /\ \A u \in Subs : u # s => SameRows(servers, servers', u)
         /\ \A u \in Subs : NoRows(servers, u) => NoRows(servers', u)
<1>1. \A id \in Ids : servers'[id] = Blank \/ servers'[id] = servers[id]
  OBVIOUS
<1>2. RowsBelow'
  BY <1>1, BlankIs DEF RowsBelow
<1>3. \A id \in Ids : /\ servers[id].sub = s => servers'[id] = Blank
                      /\ servers[id].sub # s => servers'[id] = servers[id]
  BY BlankIs, ProxyPoolAssumption DEF ServersOf, Existing
<1>4. Blank.sub = NoSub /\ \A u \in Subs : u # NoSub
  BY BlankIs, ProxyPoolAssumption
<1>5. QED
  BY <1>2, <1>3, <1>4 DEF NoRows, SameRows

(* Creating a row gives its subscription one row above the others, and changes
   nothing for the other subscriptions. *)
LEMMA CreatedRow ==
  ASSUME RowsBelow, NEW s \in Subs, NEW c \in Contents, Create(s, c)
  PROVE  /\ RowsBelow'
         /\ \A u \in Subs : u # s => SameRows(servers, servers', u)
         /\ \A list : \A n \in Nat :
              Begins(servers, s, list, n) /\ list[n + 1] = c => Begins(servers', s, list, n + 1)
<1> DEFINE m == NextId
           new == [sub |-> s, content |-> c, measured |-> NoContent]
<1>1. /\ m \in Nat \ {0} /\ m <= MaxId /\ MaxId \in Nat
      /\ \A id \in Existing : id < m
      /\ servers' = [servers EXCEPT ![m] = new]
      /\ last_id' \in Nat /\ last_id' >= last_id /\ last_id' >= m
  BY NextIsAbove, ProxyPoolAssumption DEF Create
<1>2. m \in Ids
  BY <1>1 DEF Ids
<1>3. new \in Row /\ new.sub = s /\ new.content = c
  BY DEF Row
<1> HIDE DEF m, new
<1>4. /\ servers'[m] = new
      /\ \A id \in Ids \ {m} : servers'[id] = servers[id]
      /\ servers' \in [Ids -> Row]
  BY <1>1, <1>2, <1>3 DEF RowsBelow
<1>5. servers[m] = Blank
  BY <1>1, <1>2 DEF Existing
<1>6. \A id \in Ids : servers[id] # Blank => id < m
  BY <1>1 DEF Existing
<1>7. RowsBelow'
  <2>1. ASSUME NEW id \in Ids, servers'[id] # Blank PROVE id <= last_id'
    <3>1. CASE id = m
      BY <1>1, <3>1
    <3>2. CASE id # m
      <4>1. id <= last_id /\ id \in Nat /\ last_id \in Nat
        BY <1>4, <2>1, <3>2 DEF RowsBelow, Ids
      <4>2. QED
        BY <1>1, <4>1
    <3>3. QED
      BY <3>1, <3>2
  <2>2. QED
    BY <1>1, <1>4, <2>1 DEF RowsBelow
<1>8. Blank.sub = NoSub /\ \A u \in Subs : u # NoSub
  BY BlankIs, ProxyPoolAssumption
<1>9. \A u \in Subs : u # s => SameRows(servers, servers', u)
  BY <1>3, <1>4, <1>5, <1>8 DEF SameRows
<1>10. \A id \in Ids : servers[id].sub = s => id < m
  BY <1>6, <1>8
<1>11. ASSUME NEW list, NEW n \in Nat, Begins(servers, s, list, n), list[n + 1] = c
       PROVE  Begins(servers', s, list, n + 1)
  BY <1>2, <1>3, <1>4, <1>10, <1>11, OneMoreListed
<1>12. QED
  BY <1>7, <1>9, <1>11

(* The steps that change neither the rows of servers nor where a thread is. *)
LEMMA FetchStays ==
  ASSUME FetchInv, UNCHANGED <<row, fetched, threadVars>>, RowsBelow',
         \A u \in Subs : SameRows(servers, servers', u)
  PROVE  FetchInv'
<1>1. UNCHANGED <<row, fetched, phase, sub, previous, feed, overlapped>>
  BY DEF threadVars
<1>2. ThreadsBusy' /\ Apart'
  BY <1>1 DEF FetchInv, ThreadsBusy, Apart
<1>3. \A u \in Subs : row'[u] = "free" => NoRows(servers', u)
  BY <1>1, SameRowsSame DEF FetchInv
<1>4. \A u \in Live' \ overlapped' : AtRest(u)' => Listed(servers', u, fetched'[u])
  BY <1>1, SameRowsSame DEF FetchInv, Live, AtRest
<1>5. ASSUME NEW t \in Threads PROVE Reached(t)'
  <2>1. CASE phase[t] = "idle"
    BY <1>1, <2>1 DEF Reached
  <2>2. CASE phase[t] # "idle"
    <3>1. sub[t] \in Subs
      BY <2>2 DEF FetchInv, ThreadsBusy
    <3>2. Reached(t)
      BY DEF FetchInv
    <3>3. QED
      BY <1>1, <3>1, <3>2, SameRowsSame DEF Reached
  <2>3. QED
    BY <2>1, <2>2
<1>6. QED
  BY <1>1, <1>2, <1>3, <1>4, <1>5 DEF FetchInv

(* A thread turns to a subscription. *)
LEMMA FetchStarts ==
  ASSUME FetchInv, NEW t \in Threads, NEW s \in Subs, phase[t] = "idle",
         StartSync(t, s), UNCHANGED <<rowVars, fetched>>,
         row[s] # "removed", row' = [row EXCEPT ![s] = "live"]
  PROVE  FetchInv'
<1>1. /\ phase' = [phase EXCEPT ![t] = "remove"] /\ sub' = [sub EXCEPT ![t] = s]
      /\ UNCHANGED <<feed, servers, last_id, fetched>>
      /\ overlapped' = IF AtRest(s) THEN overlapped ELSE overlapped \union {s}
  BY DEF StartSync, rowVars
<1>2. /\ overlapped \subseteq overlapped' /\ overlapped' \subseteq Subs
      /\ \A u \in Threads : sub[u] = s => s \in overlapped'
  BY <1>1 DEF FetchInv, ThreadsBusy, AtRest
<1>3. sub[t] = NoSub /\ phase'[t] = "remove" /\ sub'[t] = s /\ s # NoSub
  BY <1>1, ProxyPoolAssumption DEF FetchInv, ThreadsBusy
<1>4. /\ row' \in [Subs -> {"free", "live", "removed"}]
      /\ row'[s] = "live" /\ \A u \in Subs \ {s} : row'[u] = row[u]
  BY DEF FetchInv
<1>5. RowsBelow'
  BY <1>1 DEF FetchInv, RowsBelow
<1>6. \A u \in Threads \ {t} : sub'[u] = sub[u] /\ phase'[u] = phase[u]
  BY <1>1 DEF FetchInv, ThreadsBusy
<1>7. ThreadsBusy'
  BY <1>1, <1>2, <1>3, <1>4 DEF FetchInv, ThreadsBusy, Phases
<1>8. Apart'
  <2> SUFFICES ASSUME NEW x \in Threads, NEW u \in Threads, x # u, sub'[x] = sub'[u],
                      sub'[x] # NoSub
               PROVE  sub'[x] \in overlapped'
    BY DEF Apart
  <2>1. CASE x = t \/ u = t
    BY <1>2, <1>3, <1>6, <2>1
  <2>2. CASE x # t /\ u # t
    BY <1>2, <1>6, <2>2 DEF FetchInv, Apart
  <2>3. QED
    BY <2>1, <2>2
<1>9. \A u \in Subs : row'[u] = "free" => NoRows(servers', u)
  BY <1>1, <1>4 DEF FetchInv
<1>10. \A u \in Live' \ overlapped' : AtRest(u)' => Listed(servers', u, fetched'[u])
  <2> SUFFICES ASSUME NEW u \in Live' \ overlapped', AtRest(u)'
               PROVE  Listed(servers', u, fetched'[u])
    OBVIOUS
  <2>1. u \in Subs /\ u # s /\ u # NoSub
    BY <1>3, ProxyPoolAssumption DEF Live, AtRest
  <2>2. u \in Live \ overlapped
    BY <1>2, <1>4, <2>1 DEF Live
  <2>3. AtRest(u)
    BY <1>3, <1>6, <2>1 DEF AtRest
  <2>4. QED
    BY <1>1, <2>2, <2>3 DEF FetchInv
<1>11. ASSUME NEW u \in Threads PROVE Reached(u)'
  <2>1. CASE u = t
    BY <1>3, <2>1 DEF Reached
  <2>2. CASE u # t
    <3>1. Reached(u) /\ phase'[u] = phase[u] /\ sub'[u] = sub[u]
      BY <1>6, <2>2 DEF FetchInv
    <3>2. sub[u] \notin overlapped' => sub[u] \notin overlapped /\ sub[u] # s
      BY <1>2
    <3>3. CASE phase[u] = "idle"
      BY <3>1, <3>3 DEF Reached
    <3>4. CASE phase[u] # "idle"
      <4>1. sub[u] \in Subs
        BY <3>4 DEF FetchInv, ThreadsBusy
      <4>2. sub[u] \notin overlapped' => row'[sub[u]] = row[sub[u]]
        BY <1>4, <3>2, <4>1
      <4>3. QED
        BY <1>1, <3>1, <3>2, <4>2 DEF Reached
    <3>5. QED
      BY <3>3, <3>4
  <2>3. QED
    BY <2>1, <2>2
<1>12. QED
  BY <1>1, <1>4, <1>5, <1>7, <1>8, <1>9, <1>10, <1>11 DEF FetchInv

LEMMA FetchInvAdd ==
  ASSUME FetchInv, NEW t \in Threads, NEW s \in Subs, AddSubscription(t, s)
  PROVE  FetchInv'
<1>1. /\ phase[t] = "idle" /\ row[s] = "free"
      /\ row' = [row EXCEPT ![s] = "live"]
  BY DEF AddSubscription
<1>2. NoRows(servers, s)
  BY <1>1 DEF FetchInv
<1>3. \A u \in Threads : phase[u] # "idle" => sub[u] \in Subs /\ sub[u] # s
  BY <1>1 DEF FetchInv, ThreadsBusy
<1>5. /\ row' \in [Subs -> {"free", "live", "removed"}]
      /\ row'[s] = "live" /\ \A u \in Subs \ {s} : row'[u] = row[u]
  BY <1>1 DEF FetchInv
<1>6. ASSUME UNCHANGED threadVars, fetched' \in [Subs -> Seq(Contents)], RowsBelow',
             Listed(servers', s, fetched'[s]),
             \A u \in Subs \ {s} : SameRows(servers, servers', u) /\ fetched'[u] = fetched[u]
      PROVE  FetchInv'
  <2>1. UNCHANGED <<phase, sub, feed, overlapped>>
    BY <1>6 DEF threadVars
  <2>2. ThreadsBusy' /\ Apart'
    BY <1>3, <1>5, <2>1 DEF FetchInv, ThreadsBusy, Apart
  <2>3. \A u \in Subs : row'[u] = "free" => NoRows(servers', u)
    BY <1>5, <1>6, SameRowsSame DEF FetchInv
  <2>4. ASSUME NEW u \in Live' \ overlapped', AtRest(u)' PROVE Listed(servers', u, fetched'[u])
    <3>1. CASE u = s
      BY <1>6, <3>1
    <3>2. CASE u # s
      <4>1. u \in Subs /\ u \in Live \ overlapped /\ AtRest(u)
        BY <1>5, <2>1, <2>4, <3>2 DEF Live, AtRest
      <4>2. Listed(servers, u, fetched[u])
        BY <4>1 DEF FetchInv
      <4>3. SameRows(servers, servers', u) /\ fetched'[u] = fetched[u]
        BY <1>6, <3>2, <4>1
      <4>4. QED
        BY <4>2, <4>3, SameRowsSame
    <3>3. QED
      BY <3>1, <3>2
  <2>5. ASSUME NEW u \in Threads PROVE Reached(u)'
    <3>1. CASE phase[u] = "idle"
      BY <2>1, <3>1 DEF Reached
    <3>2. CASE phase[u] # "idle"
      <4>1. sub[u] \in Subs \ {s} /\ row'[sub[u]] = row[sub[u]]
        BY <1>3, <1>5, <3>2
      <4>2. SameRows(servers, servers', sub[u]) /\ fetched'[sub[u]] = fetched[sub[u]]
        BY <1>6, <4>1
      <4>3. Reached(u)
        BY DEF FetchInv
      <4>4. QED
        BY <2>1, <4>1, <4>2, <4>3, SameRowsSame DEF Reached
    <3>3. QED
      BY <3>1, <3>2
  <2>6. QED
    BY <1>5, <1>6, <2>2, <2>3, <2>4, <2>5 DEF FetchInv
<1>7. CASE StartSync(t, s) /\ UNCHANGED <<rowVars, fetched>>
  BY <1>1, <1>7, FetchStarts
<1>8. ASSUME NEW c \in Contents, Create(s, c), fetched' = [fetched EXCEPT ![s] = <<c>>],
             UNCHANGED threadVars
      PROVE  FetchInv'
  <2>1. <<c>> \in Seq(Contents) /\ <<c>>[0 + 1] = c /\ Len(<<c>>) = 1
    OBVIOUS
  <2>2. fetched' \in [Subs -> Seq(Contents)] /\ fetched'[s] = <<c>>
        /\ \A u \in Subs \ {s} : fetched'[u] = fetched[u]
    BY <1>8, <2>1 DEF FetchInv
  <2>3. Begins(servers, s, <<c>>, 0)
    BY <1>2, NoneListed
  <2>4. RowsBelow
    BY DEF FetchInv
  <2>5. /\ RowsBelow'
        /\ \A u \in Subs : u # s => SameRows(servers, servers', u)
        /\ Begins(servers', s, <<c>>, 0 + 1)
    BY <1>8, <2>1, <2>3, <2>4, CreatedRow
  <2>6. Listed(servers', s, fetched'[s])
    <3>1. 0 + 1 \in 0..1
      OBVIOUS
    <3>2. QED
      BY <2>1, <2>2, <2>5, <3>1 DEF Listed
  <2>7. QED
    BY <1>6, <1>8, <2>2, <2>5, <2>6
<1>9. CASE UNCHANGED <<rowVars, threadVars, fetched>>
  <2>1. UNCHANGED <<servers, last_id>>
    BY <1>9 DEF rowVars
  <2>2. RowsBelow' /\ fetched \in [Subs -> Seq(Contents)]
    BY <2>1 DEF FetchInv, RowsBelow
  <2>3. Listed(servers, s, fetched[s])
    BY <1>2, <2>2, NoRowsListed
  <2>4. \A u \in Subs : SameRows(servers, servers', u)
    BY <2>1 DEF SameRows
  <2>5. QED
    BY <1>6, <1>9, <2>1, <2>2, <2>3, <2>4
<1>10. QED
  BY <1>7, <1>8, <1>9 DEF AddSubscription

LEMMA FetchInvRemove ==
  ASSUME FetchInv, NEW s \in Subs, RemoveSubscription(s)
  PROVE  FetchInv'
<1>1. /\ row' = [row EXCEPT ![s] = "removed"]
      /\ servers' = [id \in Ids |-> IF id \in ServersOf(s) THEN Blank ELSE servers[id]]
      /\ UNCHANGED <<last_id, phase, sub, feed, overlapped, fetched>>
  BY DEF RemoveSubscription, threadVars
<1>2. RowsBelow
  BY DEF FetchInv
<1>3. /\ RowsBelow'
      /\ \A u \in Subs : u # s => SameRows(servers, servers', u)
      /\ \A u \in Subs : NoRows(servers, u) => NoRows(servers', u)
  BY <1>1, <1>2, DeletedRows
<1>4. /\ row' \in [Subs -> {"free", "live", "removed"}]
      /\ row'[s] = "removed" /\ \A u \in Subs \ {s} : row'[u] = row[u]
  BY <1>1 DEF FetchInv
<1>5. ThreadsBusy' /\ Apart'
  BY <1>1, <1>4 DEF FetchInv, ThreadsBusy, Apart
<1>6. \A u \in Subs : row'[u] = "free" => NoRows(servers', u)
  BY <1>3, <1>4 DEF FetchInv
<1>7. ASSUME NEW u \in Live' \ overlapped', AtRest(u)' PROVE Listed(servers', u, fetched'[u])
  <2>1. u \in Subs /\ u # s /\ u \in Live \ overlapped /\ AtRest(u)
    BY <1>1, <1>4, <1>7 DEF Live, AtRest
  <2>2. Listed(servers, u, fetched[u])
    BY <2>1 DEF FetchInv
  <2>3. QED
    BY <1>1, <1>3, <2>1, <2>2, SameRowsSame
<1>8. ASSUME NEW t \in Threads PROVE Reached(t)'
  <2>1. CASE phase[t] = "idle"
    BY <1>1, <2>1 DEF Reached
  <2>2. CASE phase[t] # "idle"
    <3>1. sub[t] \in Subs
      BY <2>2 DEF FetchInv, ThreadsBusy
    <3>2. Reached(t)
      BY DEF FetchInv
    <3>3. row'[sub[t]] = "live" => sub[t] # s /\ row[sub[t]] = "live"
      BY <1>4, <3>1
    <3>4. QED
      BY <1>1, <1>3, <3>1, <3>2, <3>3, SameRowsSame DEF Reached
  <2>3. QED
    BY <2>1, <2>2
<1>9. QED
  BY <1>1, <1>3, <1>4, <1>5, <1>6, <1>7, <1>8 DEF FetchInv

(* A step of a thread in its subscription: what holds of the others stays. *)
LEMMA FetchGoesOn ==
  ASSUME FetchInv, NEW t \in Threads, phase[t] # "idle", row' = row,
         fetched' \in [Subs -> Seq(Contents)], RowsBelow', ThreadsBusy', Apart', sub' = sub,
         phase'[t] # "idle", Reached(t)',
         \A u \in Threads \ {t} : phase'[u] = phase[u] /\ feed'[u] = feed[u],
         \A u \in Subs : u # sub[t] => /\ SameRows(servers, servers', u)
                                       /\ fetched'[u] = fetched[u]
                                       /\ u \in overlapped' <=> u \in overlapped
  PROVE  FetchInv'
<1>2. sub[t] \in Subs /\ row[sub[t]] # "free"
  BY DEF FetchInv, ThreadsBusy
<1>3. \A u \in Subs : row'[u] = "free" => NoRows(servers', u)
  BY <1>2, SameRowsSame DEF FetchInv
<1>4. ASSUME NEW u \in Live' \ overlapped', AtRest(u)' PROVE Listed(servers', u, fetched'[u])
  <2>1. u \in Subs /\ u # sub[t] /\ u \in Live \ overlapped /\ AtRest(u)
    BY <1>4 DEF Live, AtRest
  <2>2. Listed(servers, u, fetched[u])
    BY <2>1 DEF FetchInv
  <2>3. QED
    BY <2>1, <2>2, SameRowsSame
<1>5. ASSUME NEW u \in Threads, u # t PROVE Reached(u)'
  <2>1. Reached(u) /\ phase'[u] = phase[u] /\ feed'[u] = feed[u]
    BY <1>5 DEF FetchInv
  <2>2. CASE sub[u] = sub[t]
    <3>1. sub[t] # NoSub
      BY <1>2, ProxyPoolAssumption
    <3>2. sub'[u] \in overlapped'
      BY <1>5, <2>2, <3>1 DEF Apart
    <3>3. QED
      BY <2>1, <3>2 DEF Reached
  <2>3. CASE sub[u] # sub[t] /\ phase[u] # "idle"
    <3>1. sub[u] \in Subs
      BY <2>3 DEF FetchInv, ThreadsBusy
    <3>2. /\ SameRows(servers, servers', sub[u]) /\ fetched'[sub[u]] = fetched[sub[u]]
          /\ sub[u] \in overlapped' <=> sub[u] \in overlapped
      BY <2>3, <3>1
    <3>3. QED
      BY <2>1, <3>1, <3>2, SameRowsSame DEF Reached
  <2>4. CASE phase[u] = "idle"
    BY <2>1, <2>4 DEF Reached
  <2>5. QED
    BY <2>2, <2>3, <2>4
<1>6. QED
  BY <1>3, <1>4, <1>5 DEF FetchInv

LEMMA FetchInvDeletes ==
  ASSUME FetchInv, NEW t \in Threads, RemoveServers(t)
  PROVE  FetchInv'
<1>1. /\ phase[t] = "remove" /\ phase' = [phase EXCEPT ![t] = "fetch"]
      /\ servers' = [id \in Ids |-> IF id \in ServersOf(sub[t]) THEN Blank ELSE servers[id]]
      /\ UNCHANGED <<row, last_id, sub, feed, fetched>>
      /\ Settles(t)
  BY DEF RemoveServers, subVars
<1>2. sub[t] \in Subs /\ RowsBelow
  BY <1>1 DEF FetchInv, ThreadsBusy
<1>3. /\ RowsBelow' /\ NoRows(servers', sub[t])
      /\ \A u \in Subs : u # sub[t] => SameRows(servers, servers', u)
  BY <1>1, <1>2, DeletedRows
<1>4. /\ overlapped' = overlapped \/ overlapped' = overlapped \ {sub[t]}
      /\ sub[t] \notin overlapped' /\ sub[t] \in overlapped =>
           \A u \in Threads \ {t} : sub[u] # sub[t]
  BY <1>1 DEF Settles
<1>5. phase'[t] = "fetch" /\ ThreadsBusy'
  BY <1>1, <1>4 DEF FetchInv, ThreadsBusy, Phases
<1>6. Apart'
  <2> SUFFICES ASSUME NEW x \in Threads, NEW u \in Threads, x # u, sub[x] = sub[u],
                      sub[x] # NoSub
               PROVE  sub[x] \in overlapped'
    BY <1>1 DEF Apart
  <2>1. sub[x] \in overlapped
    BY DEF FetchInv, Apart
  <2>2. CASE sub[x] = sub[t]
    BY <1>4, <2>1, <2>2
  <2>3. CASE sub[x] # sub[t]
    BY <1>4, <2>1, <2>3
  <2>4. QED
    BY <2>2, <2>3
<1>7. Reached(t)'
  BY <1>1, <1>3, <1>5 DEF Reached
<1>8. fetched' \in [Subs -> Seq(Contents)]
  BY <1>1 DEF FetchInv
<1>9. \A u \in Threads \ {t} : phase'[u] = phase[u] /\ feed'[u] = feed[u]
  BY <1>1 DEF FetchInv, ThreadsBusy
<1>10. \A u \in Subs : u # sub[t] => (u \in overlapped' <=> u \in overlapped)
  BY <1>4
<1>11. QED
  BY <1>1, <1>3, <1>5, <1>6, <1>7, <1>8, <1>9, <1>10, FetchGoesOn

LEMMA FetchInvFetch ==
  ASSUME FetchInv, NEW t \in Threads, NEW f \in Feeds, Fetch(t, f)
  PROVE  FetchInv'
<1>1. /\ phase[t] = "fetch"
      /\ phase' = [phase EXCEPT ![t] = IF f = <<>> THEN "restore" ELSE "create"]
      /\ feed' = [feed EXCEPT ![t] = f]
      /\ fetched' = [fetched EXCEPT ![sub[t]] = f]
      /\ UNCHANGED <<row, servers, last_id, sub, overlapped>>
  BY DEF Fetch, subVars, rowVars
<1>2. f \in Seq(Contents)
  <2>1. PICK k \in 0..MaxFeed : f \in [1..k -> Contents]
    BY DEF Feeds
  <2>2. k \in Nat
    BY <2>1, ProxyPoolAssumption
  <2>3. QED
    BY <2>1, <2>2
<1>3. sub[t] \in Subs /\ (sub[t] \notin overlapped => NoRows(servers, sub[t]))
  BY <1>1 DEF FetchInv, ThreadsBusy, Reached
<1>4. /\ phase'[t] = IF f = <<>> THEN "restore" ELSE "create"
      /\ feed'[t] = f /\ fetched'[sub[t]] = f
      /\ fetched' \in [Subs -> Seq(Contents)]
      /\ \A u \in Subs : u # sub[t] => fetched'[u] = fetched[u]
  BY <1>1, <1>2, <1>3 DEF FetchInv, ThreadsBusy
<1>5. RowsBelow' /\ \A u \in Subs : SameRows(servers, servers', u)
  BY <1>1 DEF FetchInv, RowsBelow, SameRows
<1>6. /\ ThreadsBusy' /\ Apart'
      /\ \A u \in Threads \ {t} : phase'[u] = phase[u] /\ feed'[u] = feed[u]
  BY <1>1, <1>2 DEF FetchInv, ThreadsBusy, Apart, Phases
<1>7. sub[t] \notin overlapped => Continues(servers', sub'[t], fetched'[sub'[t]], feed'[t])
  BY <1>1, <1>2, <1>3, <1>4, NoRowsListed
<1>8. Reached(t)'
  BY <1>1, <1>4, <1>7 DEF Reached
<1>9. QED
  BY <1>1, <1>4, <1>5, <1>6, <1>8, FetchGoesOn

LEMMA FetchInvCreate ==
  ASSUME FetchInv, NEW t \in Threads, CreateServer(t)
  PROVE  FetchInv'
<1> DEFINE s == sub[t]
           q == feed[t]
           list == fetched[s]
<1>1. /\ phase[t] \in {"create", "more"}
      /\ Create(s, Head(q))
      /\ feed' = [feed EXCEPT ![t] = Tail(q)]
      /\ phase' = [phase EXCEPT ![t] = IF Len(q) = 1 THEN "restore" ELSE "more"]
      /\ UNCHANGED <<row, sub, overlapped, fetched>>
  BY DEF CreateServer, subVars
<1>2. s \in Subs /\ q \in Seq(Contents) /\ q # <<>> /\ RowsBelow
  BY <1>1 DEF FetchInv, ThreadsBusy, Reached
<1>3. /\ Head(q) \in Contents /\ Tail(q) \in Seq(Contents)
      /\ Len(q) \in Nat \ {0} /\ Len(Tail(q)) = Len(q) - 1
      /\ Head(q) = q[1]
      /\ \A i \in 1..Len(Tail(q)) : Tail(q)[i] = q[i + 1]
  BY <1>2
<1>4. /\ RowsBelow'
      /\ \A u \in Subs : u # s => SameRows(servers, servers', u)
      /\ \A n \in Nat :
           Begins(servers, s, list, n) /\ list[n + 1] = Head(q) => Begins(servers', s, list, n + 1)
  BY <1>1, <1>2, <1>3, CreatedRow
<1>5. /\ phase'[t] = IF Len(q) = 1 THEN "restore" ELSE "more"
      /\ feed'[t] = Tail(q)
  BY <1>1 DEF FetchInv, ThreadsBusy
<1>6. /\ ThreadsBusy' /\ Apart'
      /\ \A u \in Threads \ {t} : phase'[u] = phase[u] /\ feed'[u] = feed[u]
  BY <1>1, <1>3 DEF FetchInv, ThreadsBusy, Apart, Phases
<1>7. ASSUME s \notin overlapped, row[s] = "live" PROVE Continues(servers', s, list, Tail(q))
  <2>1. Continues(servers, s, list, q)
    BY <1>1, <1>7 DEF FetchInv, Reached
  <2>2. PICK n \in Nat : /\ Begins(servers, s, list, n)
                         /\ Len(list) = n + Len(q)
                         /\ \A i \in 1..Len(q) : q[i] = list[n + i]
    BY <2>1 DEF Continues
  <2> HIDE DEF s, q, list
  <2>3. Begins(servers', s, list, n + 1)
    BY <1>3, <1>4, <2>2
  <2>4. Len(list) = (n + 1) + Len(Tail(q))
    BY <1>3, <2>2
  <2>5. ASSUME NEW i \in 1..Len(Tail(q)) PROVE Tail(q)[i] = list[(n + 1) + i]
    <3>1. i + 1 \in 1..Len(q) /\ n + (i + 1) = (n + 1) + i
      BY <1>3, <2>2
    <3>2. Tail(q)[i] = q[i + 1] /\ q[i + 1] = list[n + (i + 1)]
      BY <1>3, <2>2, <3>1
    <3>3. QED
      BY <3>1, <3>2
  <2>6. n + 1 \in Nat
    OBVIOUS
  <2>7. QED
    BY <2>3, <2>4, <2>5, <2>6 DEF Continues
<1>8. phase'[t] = "more" => Tail(q) # <<>>
  <2>1. Len(q) # 1 => Len(Tail(q)) # 0
    BY <1>3
  <2>2. Len(<<>>) = 0
    OBVIOUS
  <2> HIDE DEF q
  <2>3. Tail(q) = <<>> => Len(q) = 1
    BY <2>1, <2>2
  <2>4. QED
    BY <1>5, <2>3
<1>9. Reached(t)'
  BY <1>1, <1>5, <1>7, <1>8 DEF Reached
<1>10. fetched' \in [Subs -> Seq(Contents)]
  BY <1>1 DEF FetchInv
<1>11. phase[t] # "idle" /\ phase'[t] # "idle"
  BY <1>1, <1>5
<1>12. QED
  BY <1>1, <1>4, <1>6, <1>9, <1>10, <1>11, FetchGoesOn

LEMMA FetchInvEnds ==
  ASSUME FetchInv, NEW t \in Threads, SyncFails(t) \/ RestoreServerSelections(t)
  PROVE  FetchInv'
<1>1. /\ phase[t] \in {"fetch", "create", "more", "restore"}
      /\ phase' = [phase EXCEPT ![t] = "idle"] /\ sub' = [sub EXCEPT ![t] = NoSub]
      /\ feed' = [feed EXCEPT ![t] = <<>>]
      /\ UNCHANGED <<row, servers, last_id, overlapped, fetched>>
  BY DEF SyncFails, RestoreServerSelections, Ends, subVars, rowVars
<1>2. \A u \in Threads \ {t} : phase'[u] = phase[u] /\ feed'[u] = feed[u] /\ sub'[u] = sub[u]
  BY <1>1 DEF FetchInv, ThreadsBusy
<1>3. phase'[t] = "idle" /\ sub'[t] = NoSub
  BY <1>1 DEF FetchInv, ThreadsBusy
<1>4. RowsBelow' /\ fetched \in [Subs -> Seq(Contents)] /\ feed[t] \in Seq(Contents)
  BY <1>1 DEF FetchInv, RowsBelow, ThreadsBusy
<1>5. ThreadsBusy' /\ Apart'
  <2>1. <<>> \in Seq(Contents)
    OBVIOUS
  <2>2. ThreadsBusy'
    BY <1>1, <1>2, <1>3, <2>1 DEF FetchInv, ThreadsBusy, Phases
  <2>3. Apart'
    BY <1>1, <1>2, <1>3 DEF FetchInv, Apart
  <2>4. QED
    BY <2>2, <2>3
<1>6. ASSUME NEW u \in Live' \ overlapped', AtRest(u)' PROVE Listed(servers', u, fetched'[u])
  <2>1. u \in Subs /\ u \in Live \ overlapped
    BY <1>1, <1>6 DEF Live
  <2>2. CASE u # sub[t]
    <3>1. AtRest(u)
      BY <1>2, <1>6, <2>2 DEF AtRest
    <3>2. QED
      BY <1>1, <2>1, <3>1 DEF FetchInv
  <2>3. CASE u = sub[t]
    <3>1. \/ NoRows(servers, u)
          \/ Continues(servers, u, fetched[u], feed[t])
      BY <1>1, <2>1, <2>3 DEF FetchInv, Reached, Live
    <3>2. QED
      BY <1>1, <1>4, <2>1, <3>1, NoRowsListed, ContinuesListed
  <2>4. QED
    BY <2>2, <2>3
<1>7. ASSUME NEW u \in Threads PROVE Reached(u)'
  <2>1. CASE u = t
    BY <1>3, <2>1 DEF Reached
  <2>2. CASE u # t
    BY <1>1, <1>2, <2>2 DEF FetchInv, Reached
  <2>3. QED
    BY <2>1, <2>2
<1>8. QED
  BY <1>1, <1>4, <1>5, <1>6, <1>7 DEF FetchInv

(* What the latency test holds is contents. *)
ProbeTyped == probe \in [Ids -> Contents \union {NoContent}]

LEMMA FetchInvTest ==
  ASSUME FetchInv, ProbeTyped, StartTest \/ FinishTest
  PROVE  FetchInv' /\ ProbeTyped'
<1>1. UNCHANGED <<row, fetched, threadVars, last_id>>
  BY DEF StartTest, FinishTest, subVars, rowVars
<1>2. ASSUME NEW id \in Ids
      PROVE  /\ servers'[id].sub = servers[id].sub
             /\ servers'[id].content = servers[id].content
             /\ servers'[id] # Blank => servers[id] # Blank
             /\ servers'[id] \in Row
  <2>1. servers[id] \in Row /\ probe[id] \in Contents \union {NoContent}
    BY DEF FetchInv, RowsBelow, ProbeTyped
  <2>2. CASE servers' = servers
    BY <2>1, <2>2
  <2>3. CASE servers' # servers
    <3> DEFINE held == {i \in Ids : probe[i] # NoContent}
    <3>1. servers' = [i \in Ids |-> IF i \in held \intersect Existing
                THEN [servers[i] EXCEPT !.measured = probe[i]] ELSE servers[i]]
      BY <2>3 DEF StartTest, FinishTest, rowVars
    <3>2. QED
      BY <2>1, <3>1 DEF Row, Existing
  <2>4. QED
    BY <2>2, <2>3
<1>3. \A u \in Subs : SameRows(servers, servers', u)
  BY <1>2 DEF SameRows
<1>4. servers' \in [Ids -> Row]
  <2>1. servers' = [id \in Ids |-> servers'[id]]
    BY DEF FetchInv, RowsBelow, StartTest, FinishTest, rowVars
  <2>2. QED
    BY <1>2, <2>1
<1>5. RowsBelow'
  BY <1>1, <1>2, <1>4 DEF FetchInv, RowsBelow
<1>6. ProbeTyped'
  <2>1. \A id \in Ids : servers[id].content \in Contents \union {NoContent}
    BY DEF FetchInv, RowsBelow, Row
  <2>2. QED
    BY <2>1 DEF StartTest, FinishTest, ProbeTyped, NoProbe
<1>7. QED
  BY <1>1, <1>3, <1>5, <1>6, FetchStays

(* A request, or a thread that turns to a subscription that is live. *)
LEMMA FetchInvTurns ==
  ASSUME FetchInv, NEW t \in Threads, NEW s \in Subs,
         ModifySubscription(t, s) \/ Sync(t, s)
  PROVE  FetchInv'
<1>1. /\ phase[t] = "idle" /\ row[s] = "live"
      /\ StartSync(t, s) \/ UNCHANGED threadVars
      /\ UNCHANGED <<row, rowVars, fetched>>
  BY DEF ModifySubscription, Sync, subVars
<1>2. CASE StartSync(t, s)
  <2>1. row' = [row EXCEPT ![s] = "live"]
    BY <1>1 DEF FetchInv
  <2>2. QED
    BY <1>1, <1>2, <2>1, FetchStarts
<1>3. CASE UNCHANGED threadVars
  <2>1. RowsBelow' /\ \A u \in Subs : SameRows(servers, servers', u)
    BY <1>1 DEF rowVars, FetchInv, RowsBelow, SameRows
  <2>2. QED
    BY <1>1, <1>3, <2>1, FetchStays
<1>4. QED
  BY <1>1, <1>2, <1>3

LEMMA FetchInvInit == Init => FetchInv /\ ProbeTyped
<1> SUFFICES ASSUME Init PROVE FetchInv /\ ProbeTyped
  OBVIOUS
<1>1. Blank \in Row /\ Blank.sub = NoSub
  BY BlankIs DEF Row
<1>2. RowsBelow /\ \A s \in Subs : NoRows(servers, s)
  BY <1>1, ProxyPoolAssumption DEF Init, RowsBelow, NoRows
<1>3. <<>> \in Seq(Contents)
  OBVIOUS
<1>4. ThreadsBusy /\ Apart /\ \A t \in Threads : phase[t] = "idle"
  BY <1>3 DEF Init, ThreadsBusy, Apart, Phases
<1>5. \A t \in Threads : Reached(t)
  BY <1>4 DEF Reached
<1>6. /\ row \in [Subs -> {"free", "live", "removed"}] /\ Live = {}
      /\ fetched \in [Subs -> Seq(Contents)]
  BY <1>3 DEF Init, Live
<1>7. ProbeTyped
  BY DEF Init, NoProbe, ProbeTyped
<1>8. QED
  BY <1>2, <1>4, <1>5, <1>6, <1>7 DEF FetchInv

LEMMA FetchInvStep ==
  ASSUME FetchInv, ProbeTyped, [Next]_vars
  PROVE  FetchInv' /\ ProbeTyped'
<1>1. ASSUME NEW t \in Threads, NEW s \in Subs, Request(t, s) \/ Sync(t, s)
      PROVE  FetchInv' /\ ProbeTyped'
  <2>1. UNCHANGED probe
    BY <1>1 DEF Request, AddSubscription, ModifySubscription, Sync
  <2>2. FetchInv'
    BY <1>1, FetchInvAdd, FetchInvTurns DEF Request
  <2>3. QED
    BY <2>1, <2>2 DEF ProbeTyped
<1>2. ASSUME NEW s \in Subs, RemoveSubscription(s)
      PROVE  FetchInv' /\ ProbeTyped'
  BY <1>2, FetchInvRemove DEF RemoveSubscription, ProbeTyped
<1>3. ASSUME NEW t \in Threads, Step(t)
      PROVE  FetchInv' /\ ProbeTyped'
  <2>1. UNCHANGED probe
    BY <1>3 DEF Step, RemoveServers, Fetch, CreateServer, SyncFails, RestoreServerSelections
  <2>2. FetchInv'
    BY <1>3, FetchInvDeletes, FetchInvFetch, FetchInvCreate, FetchInvEnds DEF Step
  <2>3. QED
    BY <2>1, <2>2 DEF ProbeTyped
<1>4. CASE StartTest \/ FinishTest
  BY <1>4, FetchInvTest
<1>5. CASE UNCHANGED vars
  <2>1. UNCHANGED <<row, fetched, threadVars, servers, last_id, probe>>
    BY <1>5 DEF vars, subVars, rowVars
  <2>2. RowsBelow' /\ \A u \in Subs : SameRows(servers, servers', u)
    BY <2>1 DEF FetchInv, RowsBelow, SameRows
  <2>3. FetchInv'
    BY <2>1, <2>2, FetchStays
  <2>4. QED
    BY <2>1, <2>3 DEF ProbeTyped
<1>6. QED
  BY <1>1, <1>2, <1>3, <1>4, <1>5 DEF Next

(* What is stored of a live subscription at rest is what OneFetch says. *)
LEMMA FetchInvIsOneFetch == FetchInv => OneFetch
<1> SUFFICES ASSUME FetchInv, NEW s \in Live \ overlapped, AtRest(s)
             PROVE  \E n \in 0..Len(fetched[s]) : \E ids \in [1..n -> ServersOf(s)] :
                      /\ \A i, j \in 1..n : i < j => ids[i] < ids[j]
                      /\ Range(ids) = ServersOf(s)
                      /\ \A i \in 1..n : servers[ids[i]].content = fetched[s][i]
  BY DEF OneFetch
<1>1. s \in Subs /\ s # NoSub /\ Blank.sub = NoSub
  BY BlankIs, ProxyPoolAssumption DEF Live
<1>2. ServersOf(s) = {id \in Ids : servers[id].sub = s}
  BY <1>1 DEF ServersOf, Existing
<1>3. PICK n \in 0..Len(fetched[s]) : Begins(servers, s, fetched[s], n)
  BY DEF FetchInv, Listed
<1>4. PICK ids : Lists(servers, s, fetched[s], n, ids)
  BY <1>3 DEF Begins
<1>5. /\ ids \in [1..n -> Ids]
      /\ \A i, j \in 1..n : i < j => ids[i] < ids[j]
      /\ \A id \in Ids : servers[id].sub = s <=> \E i \in 1..n : ids[i] = id
      /\ \A i \in 1..n : servers[ids[i]].content = fetched[s][i]
  BY <1>4 DEF Lists
<1>6. ids \in [1..n -> ServersOf(s)]
  BY <1>2, <1>5
<1>7. Range(ids) = ServersOf(s)
  BY <1>2, <1>5 DEF Range
<1>8. QED
  BY <1>5, <1>6, <1>7

(* On either kind of database and with any number of threads: what is stored of
   a subscription between two synchronisations is a beginning of what was
   fetched last, each server once and in order, unless synchronisations of it
   overlapped since one had it to itself (_sync_subscription). *)
THEOREM FromOneFetch == Spec => []OneFetch
<1>1. FetchInv /\ ProbeTyped /\ [Next]_vars => FetchInv' /\ ProbeTyped'
  BY FetchInvStep
<1>2. QED
  BY <1>1, FetchInvInit, FetchInvIsOneFetch, PTL DEF Spec
=============================================================================
