---------------------- MODULE MutationDialogs_proofs ----------------------
(***************************************************************************)
(* What the dialogs send.  The dialog of a subscription agrees with itself,*)
(* for every set of servers and any number of edits and synchronisations;  *)
(* the dialog of a host keeps what was not touched, in each profile, for   *)
(* every set of hosts to chain and any number of edits, rows and headers.  *)
(***************************************************************************)
EXTENDS MutationDialogs, FiniteSetTheorems, SequenceTheorems, TLAPS

-----------------------------------------------------------------------------
(* The dialog of a subscription *)

(* Requests for servers: unserved, or with the ids they were served. *)
Load == {l \in SUBSET SUBSET Servers : l = {} \/ \E ids \in SUBSET Servers : l = {ids}}

Typed == TypeOK /\ loads \in Seq(Load)

(* A dialog starts afresh. *)
Afresh == ~open => seen = {}

(* A bridge that is still as it was drawn is a normal one. *)
BridgeDrawn ==
  \A d \in seen :
    /\ form.category = "bridge" /\ d.form.category = "bridge"
    /\ form.routing_mode = d.form.routing_mode
    /\ form.server_selection_mode = d.form.server_selection_mode
    /\ form.selected_server_ids = d.form.selected_server_ids
    => /\ form.routing_mode = "via_node" /\ form.server_selection_mode = "all"
       /\ form.selected_server_ids = {}

(* A selection that is still as it was drawn has the mode it needs. *)
SelectionDrawn ==
  \A d \in seen :
    /\ form.server_selection_mode = d.form.server_selection_mode
    /\ form.selected_server_ids = d.form.selected_server_ids
    /\ form.server_selection_mode # "selected"
    => form.selected_server_ids = {}

(* Every server of the form was drawn. *)
ServersDrawn ==
  \A d \in seen :
    /\ form.selected_server_ids \subseteq d.servers
    /\ form.preferred_bridge_server_id \in d.servers \union {0}

Drawn == BridgeDrawn /\ SelectionDrawn /\ ServersDrawn

IInv == Typed /\ Afresh /\ Drawn /\ SentAgrees

-----------------------------------------------------------------------------
(* What each effect makes of the form *)

(* NormalizesBridge. *)
LEMMA NormalizesEffect ==
  ASSUME NEW d, NEW f \in Pool
  PROVE  LET g == NormalizesBridge(d, f) IN
         /\ g \in Pool
         /\ g.category = f.category
         /\ g.preferred_bridge_server_id = f.preferred_bridge_server_id
         /\ d.form.category = "bridge" /\ Changed(d, BridgeFields) =>
              /\ g.routing_mode = "via_node" /\ g.server_selection_mode = "all"
              /\ g.selected_server_ids = {}
         /\ ~(d.form.category = "bridge" /\ Changed(d, BridgeFields)) => g = f
  BY DEF NormalizesBridge, Pool, RoutingModes, SelectionModes

(* ClearsSelection. *)
LEMMA ClearsEffect ==
  ASSUME NEW d, NEW f \in Pool
  PROVE  LET g == ClearsSelection(d, f) IN
         /\ g \in Pool
         /\ g.category = f.category /\ g.routing_mode = f.routing_mode
         /\ g.server_selection_mode = f.server_selection_mode
         /\ g.preferred_bridge_server_id = f.preferred_bridge_server_id
         /\ g.selected_server_ids \in {f.selected_server_ids, {}}
         /\ /\ d.form.server_selection_mode # "selected"
            /\ Changed(d, {"server_selection_mode", "selected_server_ids"})
            => g.selected_server_ids = {}
  BY DEF ClearsSelection, Pool

(* DropsUnlisted. *)
LEMMA DropsEffect ==
  ASSUME NEW d, NEW f \in Pool, d.servers \subseteq Servers,
         d.form.selected_server_ids \subseteq Servers
  PROVE  LET g == DropsUnlisted(d, f)
             old == d.form.selected_server_ids
         IN
         /\ g \in Pool
         /\ g.category = f.category /\ g.routing_mode = f.routing_mode
         /\ g.server_selection_mode = f.server_selection_mode
         /\ old \subseteq d.servers => g.selected_server_ids = f.selected_server_ids
         /\ g.selected_server_ids = old /\ ~(old \subseteq d.servers)
              => g = f
         /\ ServersChanged(d) \/ Changed(d, {"selected_server_ids"}) =>
              /\ g.preferred_bridge_server_id \in d.servers \union {0}
              /\ old \subseteq d.servers \/ g.selected_server_ids = old \intersect d.servers
         /\ ~(ServersChanged(d) \/ Changed(d, {"selected_server_ids"})) => g = f
  BY DEF DropsUnlisted, Pool

-----------------------------------------------------------------------------
(* The effects of a drawing leave a form that is as it was drawn only where it
   needs no further effect. *)
LEMMA RenderDraws ==
  ASSUME Typed, Drawn, Render
  PROVE  form' \in Pool /\ Drawn'
<1> DEFINE d == Drawing
           g == NormalizesBridge(d, form)
           h == ClearsSelection(d, g)
           k == DropsUnlisted(d, h)
           old == form.selected_server_ids
<1>1. form \in Pool /\ servers \subseteq Servers /\ old \subseteq Servers
  BY DEF Typed, TypeOK, Pool
<1>2. d.form = form /\ d.servers = servers
  BY DEF Drawing
<1>3. form' = k /\ seen' = {d}
  BY DEF Render
<1>4. /\ g \in Pool
      /\ g.category = form.category
      /\ g.preferred_bridge_server_id = form.preferred_bridge_server_id
      /\ form.category = "bridge" /\ Changed(d, BridgeFields) =>
           /\ g.routing_mode = "via_node" /\ g.server_selection_mode = "all"
           /\ g.selected_server_ids = {}
      /\ ~(form.category = "bridge" /\ Changed(d, BridgeFields)) => g = form
  <2> HIDE DEF d
  <2> QED BY <1>1, <1>2, NormalizesEffect DEF g
<1>5. /\ h \in Pool
      /\ h.category = g.category /\ h.routing_mode = g.routing_mode
      /\ h.server_selection_mode = g.server_selection_mode
      /\ h.preferred_bridge_server_id = g.preferred_bridge_server_id
      /\ h.selected_server_ids \in {g.selected_server_ids, {}}
      /\ /\ form.server_selection_mode # "selected"
         /\ Changed(d, {"server_selection_mode", "selected_server_ids"})
         => h.selected_server_ids = {}
  <2> HIDE DEF d, g
  <2> QED BY <1>2, <1>4, ClearsEffect DEF h
<1>6. /\ k \in Pool
      /\ k.category = h.category /\ k.routing_mode = h.routing_mode
      /\ k.server_selection_mode = h.server_selection_mode
      /\ old \subseteq servers => k.selected_server_ids = h.selected_server_ids
      /\ k.selected_server_ids = old /\ ~(old \subseteq servers) => k = h
      /\ ServersChanged(d) \/ Changed(d, {"selected_server_ids"}) =>
           /\ k.preferred_bridge_server_id \in servers \union {0}
           /\ old \subseteq servers \/ k.selected_server_ids = old \intersect servers
      /\ ~(ServersChanged(d) \/ Changed(d, {"selected_server_ids"})) => k = h
  <2> HIDE DEF d, g, h
  <2> QED BY <1>1, <1>2, <1>5, DropsEffect DEF k
<1>7. k.selected_server_ids = old => k.selected_server_ids = h.selected_server_ids
  BY <1>6
<1> HIDE DEF d, g, h, k
<1>8. BridgeDrawn'
  <2> SUFFICES ASSUME k.category = "bridge", form.category = "bridge",
                      k.routing_mode = form.routing_mode,
                      k.server_selection_mode = form.server_selection_mode,
                      k.selected_server_ids = old
               PROVE  /\ k.routing_mode = "via_node" /\ k.server_selection_mode = "all"
                      /\ k.selected_server_ids = {}
    BY <1>2, <1>3 DEF BridgeDrawn
  <2>1. CASE Changed(d, BridgeFields)
    BY <2>1, <1>4, <1>5, <1>6, <1>7
  <2>2. CASE ~Changed(d, BridgeFields)
    <3>1. PICK b \in seen : \A x \in BridgeFields : b.form[x] = form[x]
      BY <2>2, <1>2 DEF Changed
    <3>2. /\ form.category = b.form.category /\ form.routing_mode = b.form.routing_mode
          /\ form.server_selection_mode = b.form.server_selection_mode
          /\ form.selected_server_ids = b.form.selected_server_ids
      BY <3>1 DEF BridgeFields
    <3>3. form.routing_mode = "via_node" /\ form.server_selection_mode = "all" /\ old = {}
      BY <3>2 DEF Drawn, BridgeDrawn
    <3> QED BY <3>3
  <2> QED BY <2>1, <2>2
<1>9. SelectionDrawn'
  <2> SUFFICES ASSUME k.server_selection_mode = form.server_selection_mode,
                      k.selected_server_ids = old,
                      k.server_selection_mode # "selected"
               PROVE  k.selected_server_ids = {}
    BY <1>2, <1>3 DEF SelectionDrawn
  <2> DEFINE F == {"server_selection_mode", "selected_server_ids"}
  <2>1. CASE Changed(d, F)
    BY <2>1, <1>5, <1>7
  <2>2. CASE ~Changed(d, F)
    <3>1. PICK b \in seen : \A x \in F : b.form[x] = form[x]
      BY <2>2, <1>2 DEF Changed
    <3>2. /\ form.server_selection_mode = b.form.server_selection_mode
          /\ form.selected_server_ids = b.form.selected_server_ids
      BY <3>1
    <3> QED BY <3>2 DEF Drawn, SelectionDrawn
  <2> QED BY <2>1, <2>2
<1>10. k.selected_server_ids \subseteq servers /\ k.preferred_bridge_server_id \in servers \union {0}
  <2>1. h.selected_server_ids \in {old, {}}
    BY <1>4, <1>5
  <2>2. CASE ServersChanged(d) \/ Changed(d, {"selected_server_ids"})
    BY <2>1, <2>2, <1>6
  <2>3. CASE ~(ServersChanged(d) \/ Changed(d, {"selected_server_ids"}))
    <3>1. PICK b \in seen : b.servers = servers
      BY <2>3, <1>2 DEF ServersChanged
    <3>2. old \subseteq servers /\ form.preferred_bridge_server_id \in servers \union {0}
      BY <3>1 DEF Drawn, ServersDrawn
    <3>3. h.preferred_bridge_server_id = form.preferred_bridge_server_id
      BY <1>4, <1>5
    <3> QED BY <2>1, <2>3, <3>2, <3>3, <1>6
  <2> QED BY <2>2, <2>3
<1>11. ServersDrawn'
  BY <1>2, <1>3, <1>10 DEF ServersDrawn
<1> QED BY <1>3, <1>6, <1>8, <1>9, <1>11 DEF Drawn

(* Between two drawings one field is edited, and what it names is drawn. *)
LEMMA EditDraws ==
  ASSUME Typed, Drawn, Edit
  PROVE  form' \in Pool /\ Drawn' /\ UNCHANGED <<seen, servers>>
<1>1. seen = {Drawing} /\ form \in Pool /\ servers \subseteq Servers
  BY DEF Edit, Editable, Settled, Typed, TypeOK
<1>2. /\ form.category = "bridge" =>
           /\ form.routing_mode = "via_node" /\ form.server_selection_mode = "all"
           /\ form.selected_server_ids = {}
      /\ form.server_selection_mode # "selected" => form.selected_server_ids = {}
      /\ form.selected_server_ids \subseteq servers
      /\ form.preferred_bridge_server_id \in servers \union {0}
  BY <1>1 DEF Drawing, Drawn, BridgeDrawn, SelectionDrawn, ServersDrawn
<1>3. CASE TypeText
  BY <1>1, <1>3 DEF TypeText, Drawn, BridgeDrawn, SelectionDrawn, ServersDrawn
<1>4. CASE PickType
  <2>1. PICK v \in Types : form' = [form EXCEPT !.type = v] /\ UNCHANGED <<seen, servers>>
    BY <1>4 DEF PickType, Set
  <2> QED BY <1>1, <1>2, <2>1
       DEF Pool, Drawing, Drawn, BridgeDrawn, SelectionDrawn, ServersDrawn
<1>5. CASE PickCategory
  <2>1. PICK v \in Categories : /\ form.category # v
                                /\ form' = [form EXCEPT !.category = v]
                                /\ UNCHANGED <<seen, servers>>
    BY <1>5 DEF PickCategory, Set
  <2> QED BY <1>1, <1>2, <2>1
       DEF Pool, Categories, Drawing, Drawn, BridgeDrawn, SelectionDrawn, ServersDrawn
<1>6. CASE PickRoutingMode
  <2>1. PICK v \in RoutingModes : /\ form.routing_mode # v
                                  /\ form' = [form EXCEPT !.routing_mode = v]
                                  /\ UNCHANGED <<seen, servers>>
    BY <1>6 DEF PickRoutingMode, Set, RoutingModes
  <2> QED BY <1>1, <1>2, <2>1
       DEF Pool, Drawing, Drawn, BridgeDrawn, SelectionDrawn, ServersDrawn
<1>7. CASE PickSelectionMode
  <2>1. PICK v \in SelectionModes : /\ form.server_selection_mode # v
                                    /\ form' = [form EXCEPT !.server_selection_mode = v]
                                    /\ UNCHANGED <<seen, servers>>
    BY <1>7 DEF PickSelectionMode, Set
  <2> QED BY <1>1, <1>2, <2>1
       DEF Pool, Drawing, Drawn, BridgeDrawn, SelectionDrawn, ServersDrawn
<1>8. CASE PickPreferred
  <2>1. PICK v \in servers \union {0} :
          /\ form' = [form EXCEPT !.preferred_bridge_server_id = v]
          /\ UNCHANGED <<seen, servers>>
    BY <1>8 DEF PickPreferred, Set
  <2> QED BY <1>1, <1>2, <2>1
       DEF Pool, Drawing, Drawn, BridgeDrawn, SelectionDrawn, ServersDrawn
<1>9. ASSUME NEW s \in Servers, ToggleServer(s)
      PROVE  form' \in Pool /\ Drawn' /\ UNCHANGED <<seen, servers>>
  <2> DEFINE old == form.selected_server_ids
             v == IF s \in old THEN old \ {s} ELSE old \union {s}
  <2>1. /\ old # v
        /\ form' = [form EXCEPT !.selected_server_ids = v]
        /\ UNCHANGED <<seen, servers>>
    BY <1>9 DEF ToggleServer, Set
  <2>2. v \subseteq servers
    BY <1>2, <1>9 DEF ToggleServer
  <2> HIDE DEF v
  <2> QED BY <1>1, <1>2, <2>1, <2>2
       DEF Pool, Drawing, Drawn, BridgeDrawn, SelectionDrawn, ServersDrawn
<1> QED BY <1>3, <1>4, <1>5, <1>6, <1>7, <1>8, <1>9 DEF Edit

(* What is submitted was drawn as it is. *)
LEMMA SubmitAgrees ==
  ASSUME Typed, Drawn, Submit
  PROVE  /\ \E s \in Payloads : sent' = {s}
         /\ SentAgrees'
<1> DEFINE pool == IF entity = {} THEN form ELSE normalizePoolPayload(form)
           s == [of |-> entity, listed |-> servers, there |-> rows, chosen |-> chosen,
                 pool |-> pool]
<1>1. sent' = {s}
  BY DEF Submit
<1>2. seen = {Drawing} /\ form \in Pool
  BY DEF Submit, Settled, Typed, TypeOK
<1>3. /\ form.category = "bridge" =>
           /\ form.routing_mode = "via_node" /\ form.server_selection_mode = "all"
           /\ form.selected_server_ids = {}
      /\ form.server_selection_mode # "selected" => form.selected_server_ids = {}
      /\ form.selected_server_ids \subseteq servers
      /\ form.preferred_bridge_server_id \in servers \union {0}
  BY <1>2 DEF Drawing, Drawn, BridgeDrawn, SelectionDrawn, ServersDrawn
<1>4. pool = form
  <2>1. normalizePoolPayload(form) = form
    BY <1>2, <1>3 DEF normalizePoolPayload, Pool
  <2> QED BY <2>1
<1>5. s \in Payloads
  <2>1. entity \in SUBSET StoredPools /\ servers \in SUBSET Servers /\ rows \in SUBSET Servers
    BY DEF Typed, TypeOK
  <2>2. chosen \in BOOLEAN
    BY DEF Typed, TypeOK
  <2>3. s = [of |-> entity, listed |-> servers, there |-> rows, chosen |-> chosen,
             pool |-> form]
    BY <1>4
  <2> QED BY <1>2, <2>1, <2>2, <2>3 DEF Payloads
<1>6. s.pool = form /\ s.listed = servers
  BY <1>4
<1> HIDE DEF s
<1> QED BY <1>1, <1>3, <1>5, <1>6 DEF SentAgrees

-----------------------------------------------------------------------------
(* Every step keeps the invariant *)

(* No dialog is open at first. *)
LEMMA InitInv == Init => IInv
<1> SUFFICES ASSUME Init PROVE IInv
  OBVIOUS
<1>1. defaultValue \in Pool
  BY DEF defaultValue, Pool, Categories, Types, RoutingModes, SelectionModes
<1>2. TypeOK
  <2>1. 0 \in 0..MaxEdits /\ 0 \in 0..MaxSyncs
    BY PoolFormAssumption
  <2>2. /\ open = FALSE /\ filled = FALSE /\ loading = FALSE /\ chosen = FALSE
        /\ entity = {} /\ form = defaultValue /\ seen = {} /\ servers = {} /\ rows = {}
        /\ loads = <<>> /\ edits = 0 /\ syncs = 0 /\ sent = {}
    BY DEF Init, Closed
  <2>3. open \in BOOLEAN /\ filled \in BOOLEAN /\ loading \in BOOLEAN /\ chosen \in BOOLEAN
    BY <2>2
  <2>4. servers \in SUBSET Servers /\ rows \in SUBSET Servers
    BY <2>2
  <2>5. DOMAIN loads = {}
    BY <2>2
  <2>6. edits \in 0..MaxEdits /\ syncs \in 0..MaxSyncs
    BY <2>1, <2>2
  <2>7. form \in Pool
    BY <1>1, <2>2
  <2> QED BY <2>2, <2>3, <2>4, <2>5, <2>6, <2>7, Zenon DEF TypeOK
<1>3. loads \in Seq(Load)
  BY DEF Init, Closed
<1> QED BY <1>2, <1>3
     DEF IInv, Typed, Init, Closed, Afresh, Drawn, BridgeDrawn, SelectionDrawn, ServersDrawn,
         SentAgrees

(* The type of the values that edits, drawings and submissions leave. *)
ValuesTyped ==
  /\ form \in Pool /\ seen \in {{}} \union {{d} : d \in Drawings}
  /\ servers \in SUBSET Servers
  /\ sent \in {{}} \union {{s} : s \in Payloads}

ListsTyped ==
  /\ open \in BOOLEAN /\ filled \in BOOLEAN /\ loading \in BOOLEAN /\ chosen \in BOOLEAN
  /\ entity \in {{}} \union {{p} : p \in StoredPools}
  /\ rows \in SUBSET Servers
  /\ loads \in Seq(Load)

CountsTyped == edits \in 0..MaxEdits /\ syncs \in 0..MaxSyncs

(* The types, in the parts that different steps disturb. *)
LEMMA TypedParts == Typed <=> ValuesTyped /\ ListsTyped /\ CountsTyped
<1>1. loads \in Seq(Load) =>
        \A i \in DOMAIN loads : loads[i] = {} \/ \E ids \in SUBSET Servers : loads[i] = {ids}
  BY DEF Load
<1> QED BY <1>1 DEF Typed, TypeOK, ValuesTyped, ListsTyped, CountsTyped

(* An edit counts, and leaves alone what is not of the form. *)
LEMMA EditFrame ==
  ASSUME Edit, filled \in BOOLEAN
  PROVE  /\ edits < MaxEdits /\ edits' = edits + 1
         /\ UNCHANGED <<open, entity, seen, servers, loads, loading, rows, syncs, sent>>
         /\ filled' \in BOOLEAN
         /\ chosen' = chosen \/ chosen' \in BOOLEAN
<1>1. edits < MaxEdits
  BY DEF Edit, Editable
<1>2. CASE TypeText
  BY <1>1, <1>2 DEF TypeText
<1>3. CASE \E x, v : Set(x, v)
  BY <1>1, <1>3 DEF Set
<1>4. TypeText \/ \E x, v : Set(x, v)
  BY Zenon DEF Edit, PickType, PickCategory, PickRoutingMode, PickSelectionMode, PickPreferred,
         ToggleServer
<1> QED BY <1>2, <1>3, <1>4

(* The counters. *)
LEMMA StepCounts ==
  ASSUME CountsTyped, filled \in BOOLEAN, [Next]_vars
  PROVE  CountsTyped'
<1> USE PoolFormAssumption DEF CountsTyped
<1>1. CASE Edit
  BY <1>1, EditFrame
<1>2. CASE Cancel \/ Submit
  BY <1>2 DEF Cancel, Submit, Closes
<1>3. CASE Opens \/ Render \/ Answers \/ UNCHANGED vars
  BY <1>3 DEF Opens, Open, Render, Answers, Serve, ServersArrive, ServersFail, Listed, vars,
              history
<1>4. CASE Replaced
  BY <1>4 DEF Replaced
<1> QED BY <1>1, <1>2, <1>3, <1>4 DEF Next

(* The requests for servers. *)
LEMMA LoadsStep ==
  ASSUME loads \in Seq(Load), rows \in SUBSET Servers
  PROVE  /\ Append(loads, {}) \in Seq(Load)
         /\ \A i \in DOMAIN loads : [loads EXCEPT ![i] = {rows}] \in Seq(Load)
         /\ \A i \in DOMAIN loads : Without(i) \in Seq(Load)
<1>1. {} \in Load /\ {rows} \in Load
  BY DEF Load
<1>2. Append(loads, {}) \in Seq(Load)
  BY <1>1
<1>3. ASSUME NEW i \in DOMAIN loads PROVE [loads EXCEPT ![i] = {rows}] \in Seq(Load)
  BY <1>1, ExceptSeq
<1>4. ASSUME NEW i \in DOMAIN loads PROVE Without(i) \in Seq(Load)
  <2>1. SubSeq(loads, 1, i - 1) \in Seq(Load)
    BY SubSeqProperties
  <2>2. SubSeq(loads, i + 1, Len(loads)) \in Seq(Load)
    BY SubSeqProperties
  <2> QED BY <2>1, <2>2, ConcatProperties DEF Without
<1> QED BY <1>2, <1>3, <1>4

(* What is loaded. *)
LEMMA StepLists ==
  ASSUME ListsTyped, [Next]_vars
  PROVE  ListsTyped'
<1> DEFINE Entities == {{}} \union {{p} : p \in StoredPools}
<1>1. /\ open \in BOOLEAN /\ filled \in BOOLEAN /\ loading \in BOOLEAN /\ chosen \in BOOLEAN
      /\ entity \in Entities /\ rows \in SUBSET Servers /\ loads \in Seq(Load)
  BY DEF ListsTyped
<1>2. CASE Opens
  <2>1. PICK e \in Entities, r \in SUBSET Servers : Open(e, r)
    BY <1>2 DEF Opens
  <2>2. /\ open' = TRUE /\ filled' = (e # {}) /\ entity' = e /\ rows' = r
        /\ UNCHANGED <<loads, loading, chosen>>
    BY <2>1 DEF Open
  <2>3. filled' \in BOOLEAN
    BY <2>2
  <2> QED BY <1>1, <2>2, <2>3 DEF ListsTyped
<1>3. CASE Render
  <2>1. UNCHANGED <<open, entity, filled, rows, chosen>>
    BY <1>3 DEF Render, history
  <2>2. \/ UNCHANGED <<loads, loading>>
        \/ loads' = Append(loads, {}) /\ loading' = TRUE
    BY <1>3 DEF Render, LoadsServers
  <2>3. loads' \in Seq(Load) /\ loading' \in BOOLEAN
    BY <1>1, <2>2, LoadsStep
  <2> QED BY <1>1, <2>1, <2>3 DEF ListsTyped
<1>4. CASE Edit
  <2>1. /\ UNCHANGED <<open, entity, loads, loading, rows>>
        /\ filled' \in BOOLEAN /\ (chosen' = chosen \/ chosen' \in BOOLEAN)
    BY <1>1, <1>4, EditFrame
  <2>2. chosen' \in BOOLEAN
    BY <1>1, <2>1, Zenon
  <2> QED BY <1>1, <2>1, <2>2 DEF ListsTyped
<1>5. CASE Cancel \/ Submit
  <2>1. /\ open' = FALSE /\ filled' = FALSE /\ loading' = FALSE /\ chosen' = FALSE
        /\ entity' = {} /\ rows' = {} /\ loads' = <<>>
    BY <1>5 DEF Cancel, Submit, Closes
  <2>2. loads' \in Seq(Load)
    BY <2>1
  <2> QED BY <2>1, <2>2 DEF ListsTyped
<1>6. CASE Replaced
  <2>1. rows' \in SUBSET Servers /\ UNCHANGED <<open, entity, filled, loads, loading, chosen>>
    BY <1>6 DEF Replaced, local
  <2> QED BY <1>1, <2>1 DEF ListsTyped
<1>7. CASE Answers
  <2>1. PICK i \in DOMAIN loads : Serve(i) \/ ServersArrive(i) \/ ServersFail(i)
    BY <1>7 DEF Answers
  <2>2. UNCHANGED <<open, entity, filled, rows, chosen>>
    BY <2>1 DEF Serve, ServersArrive, ServersFail, Listed, history
  <2>3. \/ loads' = [loads EXCEPT ![i] = {rows}] /\ UNCHANGED loading
        \/ loads' = Without(i) /\ loading' = FALSE
    BY <2>1 DEF Serve, ServersArrive, ServersFail, Listed
  <2>4. loads' \in Seq(Load) /\ loading' \in BOOLEAN
    BY <1>1, <2>3, LoadsStep
  <2> QED BY <1>1, <2>2, <2>4 DEF ListsTyped
<1>8. CASE UNCHANGED vars
  <2>1. UNCHANGED <<open, filled, loading, chosen, entity, rows, loads>>
    BY <1>8 DEF vars, local, history
  <2> QED BY <1>1, <2>1 DEF ListsTyped
<1> QED BY <1>2, <1>3, <1>4, <1>5, <1>6, <1>7, <1>8 DEF Next

(* What was drawn, and what is sent. *)
LEMMA StepDrawn ==
  ASSUME IInv, [Next]_vars
  PROVE  ValuesTyped' /\ Afresh' /\ Drawn' /\ SentAgrees'
<1>1. /\ Typed /\ Afresh /\ Drawn /\ SentAgrees
      /\ ValuesTyped /\ ListsTyped
  BY TypedParts DEF IInv
<1>2. CASE Opens
  <2>1. PICK e \in {{}} \union {{p} : p \in StoredPools}, r \in SUBSET Servers : Open(e, r)
    BY <1>2 DEF Opens
  <2>2. /\ ~open /\ open' = TRUE /\ sent' = {} /\ UNCHANGED <<seen, servers>>
        /\ form' = IF e = {} THEN defaultValue ELSE CHOOSE p \in e : TRUE
    BY <2>1 DEF Open
  <2>3. seen = {} /\ seen' = {}
    BY <1>1, <2>2 DEF Afresh
  <2>4. form' \in Pool
    <3>1. defaultValue \in Pool
      BY DEF defaultValue, Pool, Categories, Types, RoutingModes, SelectionModes
    <3>2. ASSUME NEW p \in StoredPools, e = {p} PROVE form' \in Pool
      <4>1. form' = p
        BY <2>2, <3>2
      <4> QED BY <4>1 DEF StoredPools
    <3> QED BY <2>2, <3>1, <3>2
  <2>5. ValuesTyped'
    BY <1>1, <2>2, <2>3, <2>4 DEF ValuesTyped
  <2> QED BY <2>2, <2>3, <2>5
       DEF Afresh, Drawn, BridgeDrawn, SelectionDrawn, ServersDrawn, SentAgrees
<1>3. CASE Render
  <2>1. /\ open /\ seen' = {Drawing} /\ UNCHANGED <<open, sent>>
        /\ servers' \in {servers, {}}
    BY <1>3 DEF Render, LoadsServers, history
  <2>2. form' \in Pool /\ Drawn'
    BY <1>1, <1>3, RenderDraws
  <2>3. Drawing \in Drawings
    BY <1>1 DEF Drawing, Drawings, ValuesTyped
  <2>4. ValuesTyped'
    BY <1>1, <2>1, <2>2, <2>3 DEF ValuesTyped
  <2> QED BY <1>1, <2>1, <2>2, <2>4 DEF Afresh, SentAgrees
<1>4. CASE Edit
  <2>1. form' \in Pool /\ Drawn' /\ UNCHANGED <<open, seen, servers, sent>>
    <3>1. filled \in BOOLEAN
      BY <1>1 DEF ListsTyped
    <3> QED BY <1>1, <1>4, <3>1, EditDraws, EditFrame
  <2> QED BY <1>1, <2>1 DEF ValuesTyped, Afresh, SentAgrees
<1>5. CASE Cancel
  <2>1. seen' = {} /\ servers' = {} /\ sent' = {} /\ form' = defaultValue
    BY <1>5 DEF Cancel, Closes
  <2>2. form' \in Pool
    BY <2>1 DEF defaultValue, Pool, Categories, Types, RoutingModes, SelectionModes
  <2> QED BY <2>1, <2>2
       DEF ValuesTyped, Afresh, Drawn, BridgeDrawn, SelectionDrawn, ServersDrawn, SentAgrees
<1>6. CASE Submit
  <2>1. seen' = {} /\ servers' = {} /\ form' = defaultValue
    BY <1>6 DEF Submit, Closes
  <2>2. form' \in Pool
    BY <2>1 DEF defaultValue, Pool, Categories, Types, RoutingModes, SelectionModes
  <2>3. (\E s \in Payloads : sent' = {s}) /\ SentAgrees'
    BY <1>1, <1>6, SubmitAgrees
  <2>4. ValuesTyped'
    BY <2>1, <2>2, <2>3 DEF ValuesTyped
  <2> QED BY <2>1, <2>3, <2>4
       DEF Afresh, Drawn, BridgeDrawn, SelectionDrawn, ServersDrawn
<1>7. CASE Replaced \/ UNCHANGED vars
  <2>1. UNCHANGED <<open, form, seen, servers, sent>>
    BY <1>7 DEF Replaced, vars, local, history
  <2> QED BY <1>1, <2>1
       DEF ValuesTyped, Afresh, Drawn, BridgeDrawn, SelectionDrawn, ServersDrawn, SentAgrees
<1>8. CASE Answers
  <2>1. PICK i \in DOMAIN loads : Serve(i) \/ ServersArrive(i) \/ ServersFail(i)
    BY <1>8 DEF Answers
  <2>2. UNCHANGED <<open, form, seen, sent>>
    BY <2>1 DEF Serve, ServersArrive, ServersFail, Listed, history
  <2>3. servers' \in SUBSET Servers
    <3>1. loads[i] \in Load
      BY <1>1 DEF ListsTyped
    <3>2. \A ids \in loads[i] : ids \in SUBSET Servers
      BY <3>1 DEF Load
    <3>3. servers' = servers \/ servers' = {} \/ \E ids \in loads[i] : servers' = ids
      BY <2>1 DEF Serve, ServersArrive, ServersFail, Listed
    <3> QED BY <1>1, <3>2, <3>3 DEF ValuesTyped
  <2>4. ValuesTyped'
    BY <1>1, <2>2, <2>3 DEF ValuesTyped
  <2> QED BY <1>1, <2>2, <2>4
       DEF Afresh, Drawn, BridgeDrawn, SelectionDrawn, ServersDrawn, SentAgrees
<1> QED BY <1>2, <1>3, <1>4, <1>5, <1>6, <1>7, <1>8 DEF Next

(* Every step of the dialog. *)
LEMMA StepInv == IInv /\ [Next]_vars => IInv'
<1> SUFFICES ASSUME IInv, [Next]_vars PROVE IInv'
  OBVIOUS
<1>1. ListsTyped /\ CountsTyped
  BY TypedParts DEF IInv
<1>2. ValuesTyped' /\ Afresh' /\ Drawn' /\ SentAgrees'
  BY StepDrawn
<1>3. ListsTyped' /\ CountsTyped'
  <2>1. filled \in BOOLEAN
    BY <1>1 DEF ListsTyped
  <2> QED BY <1>1, <2>1, StepLists, StepCounts
<1>4. Typed' <=> ValuesTyped' /\ ListsTyped' /\ CountsTyped'
  BY TypedParts, PTL
<1> QED BY <1>2, <1>3, <1>4 DEF IInv

-----------------------------------------------------------------------------
(* The theorems *)

(* Every drawing of the dialog is followed by what its effects make of it. *)
THEOREM FormInductive == Spec => []IInv
BY InitInv, StepInv, PTL DEF Spec

(* The values of the dialog keep their types. *)
THEOREM FormTypeCorrect == Spec => []TypeOK
<1>1. IInv => TypeOK
  BY DEF IInv, Typed
<1> QED BY <1>1, FormInductive, PTL

(* Whatever is picked in which order, and whenever the servers come: what is sent
   agrees with itself. *)
THEOREM SentAlwaysAgrees == Spec => []SentAgrees
<1>1. IInv => SentAgrees
  BY DEF IInv
<1> QED BY <1>1, FormInductive, PTL

-----------------------------------------------------------------------------
(* The values of the fields of a host *)

(* Rows of headers and of noise. *)
HeaderRow == [name : H!HeaderNames, value : H!Texts]
NoiseRow == [type : H!noiseTypes, packet : H!Texts, delay : H!Delays]

(* Fields by the kind of their values. *)
Choices == {"universal", "is_disabled", "allowinsecure"}
Filled == {"remark", "address"}
Clearable == {"sni", "path", "host", "dns_servers", "allowed_ips"}
Numbers == {"port", "early_data", "mtu"}

(* The values of each field, one by one. *)
LEMMA ValuesAre ==
  /\ \A x \in Choices : H!Values(x) = BOOLEAN
  /\ \A x \in Filled : H!Values(x) = H!Formats
  /\ \A x \in Clearable : H!NullableTexts \subseteq H!Values(x)
  /\ H!Formats \union {"null"} \subseteq H!Values("path")
  /\ \A x \in Numbers : H!Values(x) = H!Ports \union {"null", "undefined"}
  /\ H!Values("weight") = {H!Empty, "1", "5", "undefined"}
  /\ H!Values("chain_ids") = SUBSET HostIds
  /\ H!Values("alpn") = H!alpnOptions \union {H!Empty}
  /\ H!Values("fingerprint") = H!Fingerprints \union {H!Empty}
  /\ H!Values("security") = H!Securities
  /\ H!Values("http_headers") = Seq(HeaderRow)
  /\ H!Values("fragment") = {{}} \union {{g} : g \in [DOMAIN H!NoFragment -> H!Texts]}
  /\ H!Values("noise") = Seq(NoiseRow)
  /\ H!Values("mux_settings") = {{}} \union {{m} : m \in H!MuxSettings}
  /\ H!Values("splithttp_settings") = {{}} \union {{h} : h \in H!SplitHttpSettings}
<1>1. \A x \in Choices : H!Values(x) = BOOLEAN
  BY DEF H!Values, Choices
<1>2. \A x \in Filled : H!Values(x) = H!Formats
  BY DEF H!Values, Filled
<1>3. /\ \A x \in Clearable \ {"path"} : H!Values(x) = H!NullableTexts
      /\ H!Values("path") = H!Formats \union {"null", "undefined"}
      /\ H!NullableTexts \subseteq H!Formats \union {"null", "undefined"}
  BY DEF H!Values, Clearable, H!NullableTexts, H!Formats
<1>4. \A x \in Numbers : H!Values(x) = H!Ports \union {"null", "undefined"}
  BY DEF H!Values, Numbers
<1>5. /\ H!Values("weight") = {H!Empty, "1", "5", "undefined"}
      /\ H!Values("chain_ids") = SUBSET HostIds
      /\ H!Values("alpn") = H!alpnOptions \union {H!Empty}
      /\ H!Values("fingerprint") = H!Fingerprints \union {H!Empty}
      /\ H!Values("security") = H!Securities
  BY DEF H!Values
<1>6. /\ H!Values("http_headers") = Seq(HeaderRow)
      /\ H!Values("noise") = Seq(NoiseRow)
  BY DEF H!Values, HeaderRow, NoiseRow
<1>7. H!Values("fragment") = {{}} \union {{g} : g \in [DOMAIN H!NoFragment -> H!Texts]}
  BY DEF H!Values
<1>8. H!Values("mux_settings") = {{}} \union {{m} : m \in H!MuxSettings}
  BY DEF H!Values
<1>9. H!Values("splithttp_settings") = {{}} \union {{h} : h \in H!SplitHttpSettings}
  BY DEF H!Values
<1>10. QED
  BY <1>1, <1>2, <1>3, <1>4, <1>5, <1>6, <1>7, <1>8, <1>9

(* What a host with nothing set has in each field. *)
LEMMA PlainIs ==
  /\ \A x \in Choices : H!Plain[x] = FALSE
  /\ \A x \in Filled : H!Plain[x] = "text"
  /\ \A x \in Clearable : H!Plain[x] = "null"
  /\ \A x \in Numbers : H!Plain[x] = "null"
  /\ H!Plain["weight"] = "1"
  /\ \A x \in {"chain_ids", "fragment", "mux_settings", "splithttp_settings"} : H!Plain[x] = {}
  /\ H!Plain["alpn"] = "none"
  /\ H!Plain["fingerprint"] = H!Empty
  /\ H!Plain["security"] = "inbound_default"
  /\ \A x \in {"http_headers", "noise"} : H!Plain[x] = <<>>
<1>1. /\ \A x \in Choices : H!Plain[x] = FALSE
      /\ \A x \in Filled : H!Plain[x] = "text"
  BY DEF H!Plain, Choices, Filled
<1>2. /\ \A x \in Clearable : H!Plain[x] = "null"
      /\ \A x \in Numbers : H!Plain[x] = "null"
  BY DEF H!Plain, Clearable, Numbers
<1>3. /\ H!Plain["weight"] = "1"
      /\ \A x \in {"chain_ids", "fragment", "mux_settings", "splithttp_settings"} : H!Plain[x] = {}
      /\ H!Plain["alpn"] = "none"
      /\ H!Plain["fingerprint"] = H!Empty
      /\ H!Plain["security"] = "inbound_default"
      /\ \A x \in {"http_headers", "noise"} : H!Plain[x] = <<>>
  BY DEF H!Plain
<1>4. QED
  BY <1>1, <1>2, <1>3

(* What a host with all of it has in each field. *)
LEMMA RichIs ==
  /\ \A x \in Choices : H!Rich[x] = TRUE
  /\ \A x \in Filled : H!Rich[x] = "text"
  /\ \A x \in Clearable : H!Rich[x] = "text"
  /\ \A x \in Numbers : H!Rich[x] = "443"
  /\ H!Rich["weight"] = "5"
  /\ H!Rich["chain_ids"] = HostIds
  /\ H!Rich["fragment"] = {[packets |-> "text", length |-> "text", interval |-> "text"]}
  /\ H!Rich["mux_settings"] = {[protocol |-> "h2mux", mux_cool_settings |-> {},
                      sing_box_mux_settings |-> {"padding"}]}
  /\ H!Rich["splithttp_settings"] = {[keys |-> {"mode"}, xmux |-> {[max_concurrency |-> "5"]}]}
  /\ H!Rich["alpn"] = "h2"
  /\ H!Rich["fingerprint"] = "chrome"
  /\ H!Rich["security"] = "tls"
  /\ H!Rich["http_headers"] = [name \in {"x"} |-> "text"]
  /\ H!Rich["noise"] = [i \in 1..MaxNoise - 1 |-> [type |-> "str", packet |-> "text", delay |-> "5"]]
<1>1. /\ \A x \in Choices : H!Rich[x] = TRUE
      /\ \A x \in Filled : H!Rich[x] = "text"
      /\ \A x \in Clearable : H!Rich[x] = "text"
  BY DEF H!Rich, Choices, Filled, Clearable
<1>2. \A x \in Numbers : H!Rich[x] = "443"
  BY DEF H!Rich, Numbers
<1>3. /\ H!Rich["weight"] = "5"
      /\ H!Rich["chain_ids"] = HostIds
      /\ H!Rich["alpn"] = "h2"
      /\ H!Rich["fingerprint"] = "chrome"
      /\ H!Rich["security"] = "tls"
  BY DEF H!Rich
<1>4. H!Rich["fragment"] = {[packets |-> "text", length |-> "text", interval |-> "text"]}
  BY DEF H!Rich
<1>5. H!Rich["mux_settings"] = {[protocol |-> "h2mux", mux_cool_settings |-> {},
                      sing_box_mux_settings |-> {"padding"}]}
  BY DEF H!Rich
<1>6. H!Rich["splithttp_settings"] = {[keys |-> {"mode"}, xmux |-> {[max_concurrency |-> "5"]}]}
  <2>1. [H!NoXmux EXCEPT !.max_concurrency = "5"] = [max_concurrency |-> "5"]
    BY DEF H!NoXmux
  <2>2. H!Rich["splithttp_settings"] =
          {[keys |-> {"mode"}, xmux |-> {[H!NoXmux EXCEPT !.max_concurrency = "5"]}]}
    BY DEF H!Rich
  <2>3. QED
    BY <2>1, <2>2
<1>7. H!Rich["http_headers"] = [name \in {"x"} |-> "text"]
  BY DEF H!Rich
<1>8. H!Rich["noise"] = [i \in 1..MaxNoise - 1 |-> [type |-> "str", packet |-> "text", delay |-> "5"]]
  BY DEF H!Rich
<1>9. QED
  BY <1>1, <1>2, <1>3, <1>4, <1>5, <1>6, <1>7, <1>8

(* Each profile's fields. *)
LEMMA SchemaIs ==
  /\ H!Schema("general") = H!GeneralSchema
  /\ H!Schema("wireguard") = H!WireguardSchema
  /\ H!Schema("hysteria2") = H!Hysteria2Schema
  /\ H!Schema("shadowtls") = H!ShadowTlsSchema
  /\ H!Schema("tuic") = H!TuicSchema
  BY DEF H!Schema

(* Fields of a kind of their own. *)
Parts == {"chain_ids", "weight", "alpn", "fingerprint", "security", "http_headers", "noise",
          "fragment", "mux_settings", "splithttp_settings"}

(* The fields of every schema are among those named here. *)
LEMMA FieldsAre ==
  ASSUME NEW p \in H!Profiles
  PROVE  /\ H!Schema(p) \subseteq (Choices \ {"universal"}) \union Filled \union Clearable
                                   \union Numbers \union Parts
         /\ H!HostSchema \subseteq H!Schema(p)
         /\ p # "wireguard" => H!TlsSchema \subseteq H!Schema(p)
         /\ "fingerprint" \in H!Schema(p) <=> p = "general"
         /\ "http_headers" \in H!Schema(p) <=> p = "general"
         /\ "noise" \in H!Schema(p) <=> p = "general"
  BY SchemaIs DEF H!Profiles, H!GeneralSchema, H!WireguardSchema, H!Hysteria2Schema,
     H!ShadowTlsSchema, H!TuicSchema, H!HostSchema, H!TlsSchema, Choices, Filled, Clearable,
     Numbers, Parts

-----------------------------------------------------------------------------
(* Rows of headers, made from a dictionary and back *)

(* Every field there is. *)
Field == Choices \union Filled \union Clearable \union Numbers \union Parts

(* What another client of the panel made differs in one field from the rich one. *)
LEMMA ForeignIs ==
  /\ \A x \in Field \ {"mux_settings"} : H!Foreign[x] = H!Rich[x]
  /\ H!Foreign["mux_settings"] =
       {[protocol |-> "mux_cool",
         mux_cool_settings |-> {[concurrency |-> "null", xudp_proxy_443 |-> "null"]},
         sing_box_mux_settings |-> {}]}
<1> DEFINE cool == [H!SetMuxCool EXCEPT !.xudp_proxy_443 = "null"]
           mux == [H!MuxCool EXCEPT !.mux_cool_settings = {cool}]
<1>1. cool = [concurrency |-> "null", xudp_proxy_443 |-> "null"]
  BY DEF H!SetMuxCool
<1> HIDE DEF cool
<1>2. mux = [protocol |-> "mux_cool", mux_cool_settings |-> {cool}, sing_box_mux_settings |-> {}]
  BY DEF H!MuxCool
<1> HIDE DEF mux
<1>3. Field \subseteq DOMAIN H!Rich
  BY DEF Field, Choices, Filled, Clearable, Numbers, Parts, H!Rich
<1>4. H!Foreign = [H!Rich EXCEPT !["mux_settings"] = {mux}]
  BY DEF H!Foreign, mux, cool
<1>5. "mux_settings" \in Field
  BY DEF Field, Parts
<1>6. QED
  BY <1>1, <1>2, <1>3, <1>4, <1>5

(* A field of a loaded host is that of the plain one or of the rich one, but for the
   one field that another client may have made. *)
LEMMA HostsAre ==
  ASSUME NEW p \in H!Profiles, NEW h \in H!Hosts(p)
  PROVE  /\ DOMAIN h = H!Schema(p) \union {"universal"}
         /\ \A x \in DOMAIN h \ {"mux_settings"} : h[x] \in {H!Plain[x], H!Rich[x]}
         /\ "mux_settings" \in DOMAIN h =>
              h["mux_settings"] \in {H!Plain["mux_settings"], H!Rich["mux_settings"],
                                    H!Foreign["mux_settings"]}
<1>1. PICK r \in {H!Plain, H!Rich, H!Foreign} :
        h = [x \in H!Schema(p) \union {"universal"} |-> r[x]]
  BY DEF H!Hosts
<1>2. H!Schema(p) \union {"universal"} \subseteq Field
  BY FieldsAre DEF Field, Choices
<1>3. \A x \in Field \ {"mux_settings"} : H!Foreign[x] = H!Rich[x]
  BY ForeignIs
<1>4. QED
  BY <1>1, <1>2, <1>3

(* The instance has the definition of FiniteSets. *)
LEMMA CardinalityIs == \A S : H!Cardinality(S) = Cardinality(S)
  BY DEF H!Cardinality, Cardinality

(* SetToSeq enumerates a finite set, each element once. *)
LEMMA Enumerates ==
  ASSUME NEW S, IsFiniteSet(S)
  PROVE  LET q == H!SetToSeq(S) IN
         /\ q \in Seq(S)
         /\ \A x \in S : \E i \in DOMAIN q : q[i] = x
         /\ \A i, j \in DOMAIN q : q[i] = q[j] => i = j
<1> DEFINE n == Cardinality(S)
           q == H!SetToSeq(S)
<1>1. n \in Nat /\ ExistsBijection(1..n, S)
  BY FS_CardinalityType
<1>2. \E f \in [1..n -> S] : H!IsInjective(f)
  BY <1>1 DEF ExistsBijection, Bijection, Injection, Surjection, IsInjective, H!IsInjective
<1>3. q \in [1..n -> S] /\ H!IsInjective(q)
  BY <1>2, CardinalityIs DEF H!SetToSeq
<1> HIDE DEF q
<1>4. q \in Injection(1..n, S)
  BY <1>3 DEF Injection, IsInjective, H!IsInjective
<1>5. IsFiniteSet(1..n) /\ Cardinality(1..n) = n
  BY <1>1, FS_Interval
<1>6. q \in Surjection(1..n, S)
  BY <1>4, <1>5, FS_Injection
<1>7. q \in Seq(S)
  BY <1>1, <1>3
<1>8. \A x \in S : \E i \in DOMAIN q : q[i] = x
  BY <1>3, <1>6 DEF Surjection
<1>9. \A i, j \in DOMAIN q : q[i] = q[j] => i = j
  BY <1>3 DEF H!IsInjective
<1>10. QED
  BY <1>7, <1>8, <1>9 DEF q

(* The rows of a dictionary. *)
LEMMA RowsOfHeaders ==
  ASSUME NEW d, IsFiniteSet(DOMAIN d), DOMAIN d \subseteq H!HeaderNames,
         \A n \in DOMAIN d : d[n] \in H!Texts
  PROVE  H!transformToFields(d) \in Seq(HeaderRow)
<1> DEFINE q == H!SetToSeq(DOMAIN d)
<1>1. q \in Seq(DOMAIN d)
  BY Enumerates
<1>2. H!transformToFields(d) = [i \in DOMAIN q |-> [name |-> q[i], value |-> d[q[i]]]]
  BY DEF H!transformToFields
<1> HIDE DEF q
<1>3. \A i \in DOMAIN q : q[i] \in DOMAIN d
  BY <1>1
<1>4. \A i \in DOMAIN q : [name |-> q[i], value |-> d[q[i]]] \in HeaderRow
  BY <1>3 DEF HeaderRow
<1>5. DOMAIN q = 1..Len(q) /\ Len(q) \in Nat
  BY <1>1
<1>6. QED
  BY <1>2, <1>4, <1>5

(* A dictionary that is made rows of, and a dictionary of these, is as before,
   unless it has an entry without a name. *)
LEMMA RowsAndBack ==
  ASSUME NEW D, IsFiniteSet(D), H!Empty \notin D, NEW d \in [D -> H!Texts]
  PROVE  H!transformToDictionary(H!transformToFields(d)) = d
<1> DEFINE q == H!SetToSeq(D)
           f == H!transformToFields(d)
<1>1. /\ q \in Seq(D)
      /\ \A x \in D : \E i \in DOMAIN q : q[i] = x
      /\ \A i, j \in DOMAIN q : q[i] = q[j] => i = j
  BY Enumerates
<1>2. f = [i \in DOMAIN q |-> [name |-> q[i], value |-> d[q[i]]]]
  BY DEF H!transformToFields
<1> HIDE DEF q, f
<1>3. PICK n \in Nat : n = Len(q)
  BY <1>1
<1>4. DOMAIN q = 1..n /\ \A i \in 1..n : q[i] \in D
  BY <1>1, <1>3
<1>5. DOMAIN f = 1..n /\ \A i \in 1..n : f[i].name = q[i] /\ f[i].value = d[q[i]]
  BY <1>2, <1>4
<1>6. Len(f) = n
  BY <1>2, <1>3, <1>4, <1>5
<1>7. {f[i].name : i \in DOMAIN f} \ {H!Empty} = D
  <2>1. \A x \in D : \E i \in DOMAIN f : x = f[i].name
    BY <1>1, <1>4, <1>5
  <2>2. \A i \in DOMAIN f : f[i].name \in D
    BY <1>4, <1>5
  <2>3. QED
    BY <2>1, <2>2
<1>8. ASSUME NEW x \in D
      PROVE  f[CHOOSE i \in DOMAIN f :
                 /\ f[i].name = x
                 /\ \A j \in i + 1..Len(f) : f[j].name # x].value = d[x]
  <2>1. PICK i \in 1..n : q[i] = x
    BY <1>1, <1>4
  <2>2. f[i].name = x /\ \A j \in i + 1..n : f[j].name # x
    <3>1. \A j \in i + 1..n : j \in 1..n /\ j # i
      OBVIOUS
    <3>2. QED
      BY <1>1, <1>4, <1>5, <2>1, <3>1
  <2>3. PICK k : k = CHOOSE m \in DOMAIN f :
                       /\ f[m].name = x
                       /\ \A j \in m + 1..Len(f) : f[j].name # x
    OBVIOUS
  <2>4. k \in DOMAIN f /\ f[k].name = x
    <3>1. i \in DOMAIN f /\ f[i].name = x /\ \A j \in i + 1..Len(f) : f[j].name # x
      BY <1>5, <1>6, <2>2
    <3>2. QED
      BY <2>3, <3>1
  <2>5. f[k].value = d[x]
    BY <1>5, <2>4
  <2>6. QED
    BY <2>3, <2>5
<1>9. PICK g : g = [x \in D |-> f[CHOOSE i \in DOMAIN f :
                 /\ f[i].name = x
                 /\ \A j \in i + 1..Len(f) : f[j].name # x].value]
  OBVIOUS
<1>10. g = d
  <2>1. \A x \in D : g[x] = d[x]
    BY <1>8, <1>9
  <2>2. QED
    BY <1>9, <2>1
<1>11. H!transformToDictionary(f) = g
  BY <1>7, <1>9 DEF H!transformToDictionary
<1>12. QED
  BY <1>10, <1>11 DEF f

-----------------------------------------------------------------------------
(* The forms that a dialog opens with *)

(* Empty is none of the other texts. *)
LEMMA EmptyIs ==
  H!Empty \notin {"text", "none", "h2", "chrome", "null", "undefined", "443", "70000", "0", "1",
                  "5", "5-", "x", "malformed"}
  BY Zenon DEF H!Empty

(* Each field of the plain host has one of its values. *)
LEMMA PlainTyped == \A x \in Field \ {"http_headers"} : H!Plain[x] \in H!Values(x)
<1>1. \A x \in Choices : H!Plain[x] \in H!Values(x)
  BY PlainIs, ValuesAre
<1>2. \A x \in Filled : H!Plain[x] \in H!Values(x)
  BY PlainIs, ValuesAre DEF H!Texts, H!Formats
<1>3. \A x \in Clearable : H!Plain[x] \in H!Values(x)
  BY PlainIs, ValuesAre DEF H!NullableTexts
<1>4. \A x \in Numbers : H!Plain[x] \in H!Values(x)
  BY PlainIs, ValuesAre
<1>5. /\ H!Plain["weight"] \in H!Values("weight")
      /\ H!Plain["alpn"] \in H!Values("alpn")
      /\ H!Plain["fingerprint"] \in H!Values("fingerprint")
      /\ H!Plain["security"] \in H!Values("security")
  BY PlainIs, ValuesAre DEF H!alpnOptions, H!Securities
<1>6. \A x \in {"chain_ids", "fragment", "mux_settings", "splithttp_settings"} :
        H!Plain[x] \in H!Values(x)
  BY PlainIs, ValuesAre
<1>7. <<>> \in Seq(NoiseRow)
  OBVIOUS
<1>8. H!Plain["noise"] \in H!Values("noise")
  BY <1>7, PlainIs, ValuesAre
<1>9. QED
  BY <1>1, <1>2, <1>3, <1>4, <1>5, <1>6, <1>8 DEF Field, Parts

(* Each field of the rich host has one of its values. *)
LEMMA RichTyped == \A x \in Field \ {"http_headers"} : H!Rich[x] \in H!Values(x)
<1>1. ASSUME NEW x \in Choices PROVE H!Rich[x] \in H!Values(x)
  <2>1. H!Rich[x] = TRUE
    BY RichIs
  <2>2. H!Values(x) = BOOLEAN
    BY ValuesAre
  <2>3. QED
    BY <2>1, <2>2
<1>2. \A x \in Filled : H!Rich[x] \in H!Values(x)
  BY RichIs, ValuesAre DEF H!Texts, H!Formats
<1>3. \A x \in Clearable : H!Rich[x] \in H!Values(x)
  BY RichIs, ValuesAre DEF H!NullableTexts, H!Texts
<1>4. \A x \in Numbers : H!Rich[x] \in H!Values(x)
  BY RichIs, ValuesAre DEF H!Ports
<1>5. /\ H!Rich["weight"] \in H!Values("weight")
      /\ H!Rich["alpn"] \in H!Values("alpn")
      /\ H!Rich["fingerprint"] \in H!Values("fingerprint")
      /\ H!Rich["security"] \in H!Values("security")
  BY RichIs, ValuesAre DEF H!alpnOptions, H!Securities, H!Fingerprints
<1>6. H!Rich["chain_ids"] \in H!Values("chain_ids")
  BY RichIs, ValuesAre
<1>7. H!Rich["fragment"] \in H!Values("fragment")
  <2>1. [packets |-> "text", length |-> "text", interval |-> "text"]
          \in [DOMAIN H!NoFragment -> H!Texts]
    BY DEF H!NoFragment, H!Texts
  <2>2. QED
    BY <2>1, RichIs, ValuesAre
<1>8. H!Rich["mux_settings"] \in H!Values("mux_settings")
  <2>1. [protocol |-> "h2mux", mux_cool_settings |-> {}, sing_box_mux_settings |-> {"padding"}]
          \in H!MuxSettings
    BY DEF H!MuxSettings, H!MuxProtocols, H!SingBoxKeys
  <2>2. PICK m : m = [protocol |-> "h2mux", mux_cool_settings |-> {},
                      sing_box_mux_settings |-> {"padding"}]
    OBVIOUS
  <2>3. H!Rich["mux_settings"] = {m}
    BY <2>2, RichIs
  <2>4. {m} \in H!Values("mux_settings")
    BY <2>1, <2>2, ValuesAre
  <2>5. QED
    BY <2>3, <2>4
<1>9. H!Rich["splithttp_settings"] \in H!Values("splithttp_settings")
  <2>1. [max_concurrency |-> "5"] \in H!XmuxSettings
    BY DEF H!XmuxSettings, H!Numerals
  <2>2. {[max_concurrency |-> "5"]} \in {{}} \union {{k} : k \in H!XmuxSettings}
    BY <2>1
  <2>3. [keys |-> {"mode"}, xmux |-> {[max_concurrency |-> "5"]}] \in H!SplitHttpSettings
    BY <2>2 DEF H!SplitHttpSettings, H!SplitHttpKeys
  <2>4. PICK h : h = [keys |-> {"mode"}, xmux |-> {[max_concurrency |-> "5"]}]
    OBVIOUS
  <2>5. H!Rich["splithttp_settings"] = {h}
    BY <2>4, RichIs
  <2>6. {h} \in H!Values("splithttp_settings")
    BY <2>3, <2>4, ValuesAre
  <2>7. QED
    BY <2>5, <2>6
<1>10. H!Rich["noise"] \in H!Values("noise")
  <2>1. [type |-> "str", packet |-> "text", delay |-> "5"] \in NoiseRow
    BY DEF NoiseRow, H!noiseTypes, H!Texts, H!Delays
  <2>2. MaxNoise - 1 \in Nat
    BY MutationDialogsAssumption
  <2>3. H!Rich["noise"] \in [1..MaxNoise - 1 -> NoiseRow]
    BY <2>1, RichIs
  <2>4. H!Rich["noise"] \in Seq(NoiseRow)
    BY <2>2, <2>3
  <2>5. QED
    BY <2>4, ValuesAre
<1>11. QED
  BY <1>1, <1>2, <1>3, <1>4, <1>5, <1>6, <1>7, <1>8, <1>9, <1>10 DEF Field, Parts

(* So has the field that another client may have made. *)
LEMMA ForeignTyped == H!Foreign["mux_settings"] \in H!Values("mux_settings")
<1>1. [concurrency |-> "null", xudp_proxy_443 |-> "null"] \in H!MuxCoolSettings
  BY DEF H!MuxCoolSettings, H!Numerals
<1>2. PICK c \in H!MuxCoolSettings : c = [concurrency |-> "null", xudp_proxy_443 |-> "null"]
  BY <1>1
<1>3. {c} \in {{}} \union {{k} : k \in H!MuxCoolSettings}
  OBVIOUS
<1>4. [protocol |-> "mux_cool", mux_cool_settings |-> {c}, sing_box_mux_settings |-> {}]
         \in H!MuxSettings
  BY <1>3 DEF H!MuxSettings, H!MuxProtocols
<1>5. PICK m \in H!MuxSettings :
        m = [protocol |-> "mux_cool", mux_cool_settings |-> {c}, sing_box_mux_settings |-> {}]
  BY <1>4
<1>6. H!Foreign["mux_settings"] = {m}
  BY <1>2, <1>5, ForeignIs
<1>7. QED
  BY <1>6, ValuesAre

(* A host of the panel has a header or none. *)
LEMMA HeadersAre ==
  ASSUME NEW d \in {H!Plain["http_headers"], H!Rich["http_headers"]}
  PROVE  \E D \in SUBSET {"x"} : IsFiniteSet(D) /\ H!Empty \notin D /\ d \in [D -> H!Texts]
<1>1. <<>> \in [{} -> H!Texts]
  OBVIOUS
<1>2. [name \in {"x"} |-> "text"] \in [{"x"} -> H!Texts]
  BY DEF H!Texts
<1>3. IsFiniteSet({}) /\ IsFiniteSet({"x"})
  BY FS_EmptySet, FS_Singleton
<1>4. H!Empty \notin {} /\ H!Empty \notin {"x"}
  BY EmptyIs
<1>5. d = <<>> \/ d = [name \in {"x"} |-> "text"]
  BY PlainIs, RichIs
<1>6. CASE d = <<>>
  BY <1>1, <1>3, <1>4, <1>6
<1>7. CASE d = [name \in {"x"} |-> "text"]
  BY <1>2, <1>3, <1>4, <1>7
<1>8. QED
  BY <1>5, <1>6, <1>7

(* Every field has one of its values. *)
FieldsOK(f) == \A x \in DOMAIN f : f[x] \in H!Values(x)

(* A field of a profile, and of its hosts, is one of them. *)
LEMMA ProfileFields ==
  ASSUME NEW p \in H!Profiles
  PROVE  H!Schema(p) \union {"universal"} \subseteq Field
  BY FieldsAre DEF Field, Choices

(* The form of a host that is edited, and of one to be created. *)
LEMMA LoadedTyped ==
  ASSUME NEW p \in H!Profiles, NEW h \in H!Hosts(p)
  PROVE  LET f == H!formMutationToAPIAdapter(h) IN
         /\ DOMAIN f = H!Schema(p) \union {"universal"}
         /\ DOMAIN h = DOMAIN f
         /\ FieldsOK(f)
         /\ p = "general" => f["alpn"] # H!Empty /\ Len(f["noise"]) <= MaxNoise
<1> DEFINE f == H!formMutationToAPIAdapter(h)
<1>1. DOMAIN h = H!Schema(p) \union {"universal"} /\ DOMAIN h \subseteq Field
  BY HostsAre, ProfileFields
<1>2. f = [x \in DOMAIN h |-> IF x = "http_headers" THEN H!transformToFields(h[x]) ELSE h[x]]
  BY DEF H!formMutationToAPIAdapter
<1> HIDE DEF f
<1>3. \A x \in DOMAIN h \ {"mux_settings"} : h[x] \in {H!Plain[x], H!Rich[x]}
  BY HostsAre
<1>4. DOMAIN f = DOMAIN h
  BY <1>2
<1>5. ASSUME NEW x \in DOMAIN f PROVE f[x] \in H!Values(x)
  <2>1. CASE x # "http_headers"
    <3>1. x \in Field /\ f[x] = h[x]
      BY <1>1, <1>2, <1>4, <2>1
    <3>2. CASE x # "mux_settings"
      BY <1>3, <1>4, <2>1, <3>1, <3>2, PlainTyped, RichTyped
    <3>3. CASE x = "mux_settings"
      <4>1. h[x] \in {H!Plain[x], H!Rich[x], H!Foreign[x]}
        BY <1>4, <3>3, HostsAre
      <4>2. H!Plain[x] \in H!Values(x) /\ H!Rich[x] \in H!Values(x) /\ H!Foreign[x] \in H!Values(x)
        BY <2>1, <3>1, <3>3, PlainTyped, RichTyped, ForeignTyped
      <4>3. QED
        BY <3>1, <4>1, <4>2
    <3>4. QED
      BY <3>2, <3>3
  <2>2. CASE x = "http_headers"
    <3>1. PICK D \in SUBSET {"x"} : IsFiniteSet(D) /\ h[x] \in [D -> H!Texts]
      BY <1>3, <1>4, <2>2, HeadersAre
    <3>2. D \subseteq H!HeaderNames
      BY DEF H!HeaderNames
    <3>3. H!transformToFields(h[x]) \in Seq(HeaderRow)
      BY <3>1, <3>2, RowsOfHeaders
    <3>4. f[x] = H!transformToFields(h[x])
      BY <1>2, <1>4, <2>2
    <3>5. QED
      BY <2>2, <3>3, <3>4, ValuesAre
  <2>3. QED
    BY <2>1, <2>2
<1>6. ASSUME p = "general" PROVE f["alpn"] # H!Empty /\ Len(f["noise"]) <= MaxNoise
  <2>1. "alpn" \in DOMAIN h /\ "noise" \in DOMAIN h
    BY <1>1, <1>6, SchemaIs DEF H!GeneralSchema, H!TlsSchema
  <2>2. f["alpn"] \in {"none", "h2"}
    BY <1>2, <1>3, <2>1, PlainIs, RichIs
  <2>3. f["noise"] \in {H!Plain["noise"], H!Rich["noise"]}
    BY <1>2, <1>3, <2>1
  <2>4. Len(H!Plain["noise"]) = 0
    BY PlainIs
  <2>5. Len(H!Rich["noise"]) = MaxNoise - 1
    BY RichIs, MutationDialogsAssumption
  <2>6. QED
    BY <2>2, <2>3, <2>4, <2>5, EmptyIs, MutationDialogsAssumption
<1>7. QED
  BY <1>1, <1>4, <1>5, <1>6 DEF f, FieldsOK

(* The form of a host that is yet to be created. *)
LEMMA DefaultTyped ==
  ASSUME NEW p \in H!Profiles
  PROVE  LET f == H!defaultValue(p) IN
         /\ DOMAIN f = H!Schema(p)
         /\ FieldsOK(f)
         /\ p = "general" => f["alpn"] # H!Empty /\ Len(f["noise"]) <= MaxNoise
<1> DEFINE f == H!defaultValue(p)
<1>1. DOMAIN f = H!Schema(p)
  BY DEF H!defaultValue
<1>2. ASSUME NEW x \in H!Schema(p)
      PROVE  f[x] \in H!Values(x) /\ (x \in {"alpn", "noise"} /\ p = "general" => f[x] = H!Plain[x])
  <2>1. \/ x \in {"remark", "address"} /\ f[x] = H!Empty
        \/ x \in {"sni", "path", "alpn", "dns_servers"} /\ p # "general" /\ f[x] = H!Empty
        \/ x = "port" /\ f[x] = "443"
        \/ x = "weight" /\ f[x] \in {"1", "undefined"}
        \/ x \in {"mtu", "allowed_ips"} /\ f[x] = "undefined"
        \/ x = "fingerprint" /\ f[x] = "none"
        \/ x \notin {"remark", "address"} /\ f[x] = H!Plain[x]
    BY DEF H!defaultValue
  <2>2. x # "http_headers" /\ f[x] = H!Plain[x] => f[x] \in H!Values(x)
    BY PlainTyped, ProfileFields
  <2>3. x = "http_headers" /\ f[x] = H!Plain[x] => f[x] \in H!Values(x)
    <3> HIDE DEF f
    <3>1. <<>> \in Seq(HeaderRow)
      OBVIOUS
    <3>2. H!Plain["http_headers"] = <<>> /\ H!Values("http_headers") = Seq(HeaderRow)
      BY PlainIs, ValuesAre
    <3>3. QED
      BY <3>1, <3>2
  <2>4. x \in {"remark", "address", "sni", "path", "alpn", "dns_servers"} => H!Empty \in H!Values(x)
    BY ValuesAre DEF Filled, Clearable, H!Texts, H!NullableTexts, H!Formats
  <2>5. /\ "443" \in H!Values("port") /\ {"1", "undefined"} \subseteq H!Values("weight")
        /\ "undefined" \in H!Values("mtu") /\ "undefined" \in H!Values("allowed_ips")
        /\ "none" \in H!Values("fingerprint")
    BY ValuesAre DEF Numbers, Clearable, H!Ports, H!NullableTexts, H!Fingerprints
  <2> HIDE DEF f
  <2>6. f[x] \in H!Values(x)
    BY <2>1, <2>2, <2>3, <2>4, <2>5
  <2>7. x \in {"alpn", "noise"} /\ p = "general" => f[x] = H!Plain[x]
    BY <2>1
  <2>8. QED
    BY <2>6, <2>7
<1> HIDE DEF f
<1>3. ASSUME p = "general" PROVE f["alpn"] # H!Empty /\ Len(f["noise"]) <= MaxNoise
  <2>1. "alpn" \in H!Schema(p) /\ "noise" \in H!Schema(p)
    BY <1>3, SchemaIs DEF H!GeneralSchema, H!TlsSchema
  <2>2. f["alpn"] = "none" /\ f["noise"] = <<>>
    BY <1>2, <1>3, <2>1, PlainIs
  <2>3. Len(<<>>) = 0
    OBVIOUS
  <2>4. QED
    BY <2>2, <2>3, EmptyIs, MutationDialogsAssumption
<1>4. QED
  BY <1>1, <1>2, <1>3 DEF f, FieldsOK

-----------------------------------------------------------------------------
(* An edit gives one field one of its values *)

(* What is known of the form while it is edited. *)
FormTyped ==
  /\ profile \in H!Profiles /\ section \in H!Sections \union {"none"}
  /\ host = {} \/ \E h \in H!Hosts(profile) : host = {h}
  /\ DOMAIN hostForm = H!Schema(profile) \union UNION {DOMAIN h : h \in host}
  /\ FieldsOK(hostForm)
  /\ profile = "general" => hostForm["alpn"] # H!Empty

(* A field is given one of its values. *)
SetsField ==
  \E x \in H!Schema(profile) \ {"noise"} : \E v \in H!Values(x) :
    (x = "alpn" => v # H!Empty) /\ H!Set(x, v)

(* A field of the schema has one of its values. *)
LEMMA SchemaValues ==
  ASSUME FormTyped, NEW x \in H!Schema(profile)
  PROVE  hostForm[x] \in H!Values(x)
  BY DEF FormTyped, FieldsOK

(* How an edit is shown to give a field one of its values. *)
LEMMA SetsIs ==
  ASSUME NEW x \in H!Schema(profile) \ {"noise"}, NEW v \in H!Values(x),
         x = "alpn" => v # H!Empty, H!Set(x, v)
  PROVE  SetsField
  BY DEF SetsField

(* Remark, switch, address, port and weight. *)
LEMMA CommonSet == ASSUME FormTyped, H!CommonFields PROVE SetsField
<1>1. {"remark", "is_disabled", "address", "port", "weight"} \subseteq H!Schema(profile) \ {"noise"}
  BY FieldsAre DEF FormTyped, H!HostSchema
<1>2. CASE H!RemarkField
  <2>1. H!Values("remark") = H!Formats
    BY ValuesAre DEF Filled
  <2>2. QED
    BY <1>1, <1>2, <2>1, SetsIs DEF H!RemarkField
<1>3. CASE H!AddressField
  <2>1. H!Values("address") = H!Formats
    BY ValuesAre DEF Filled
  <2>2. QED
    BY <1>1, <1>3, <2>1, SetsIs DEF H!AddressField
<1>4. CASE H!IsDisabled
  <2>1. H!Values("is_disabled") = BOOLEAN
    BY ValuesAre DEF Choices
  <2>2. PICK b \in BOOLEAN : b = ~hostForm["is_disabled"]
    OBVIOUS
  <2>3. H!Set("is_disabled", b)
    BY <1>4, <2>2 DEF H!IsDisabled
  <2>4. QED
    BY <1>1, <2>1, <2>3, SetsIs
<1>5. CASE H!PortField
  <2>1. H!Ports \subseteq H!Values("port")
    BY ValuesAre DEF Numbers
  <2>2. QED
    BY <1>1, <1>5, <2>1, SetsIs DEF H!PortField
<1>6. CASE H!WeightField
  <2>1. {H!Empty, "5"} \subseteq H!Values("weight")
    BY ValuesAre
  <2>2. QED
    BY <1>1, <1>6, <2>1, SetsIs DEF H!WeightField
<1>7. QED
  BY <1>2, <1>3, <1>4, <1>5, <1>6 DEF H!CommonFields

(* A host joins the chain or leaves it. *)
LEMMA ChainSet == ASSUME FormTyped, H!ChainHostsField PROVE SetsField
<1>1. "chain_ids" \in H!Schema(profile)
  BY FieldsAre DEF FormTyped, H!HostSchema
<1>2. H!Values("chain_ids") = SUBSET HostIds
  BY ValuesAre
<1>3. hostForm["chain_ids"] \subseteq HostIds
  BY <1>1, <1>2, SchemaValues
<1>4. PICK ids \in SUBSET HostIds : H!Set("chain_ids", ids)
  <2>1. PICK id \in HostIds :
          H!Set("chain_ids", IF id \in hostForm["chain_ids"] THEN hostForm["chain_ids"] \ {id}
                             ELSE hostForm["chain_ids"] \union {id})
    BY DEF H!ChainHostsField
  <2>2. CASE id \in hostForm["chain_ids"]
    BY <1>3, <2>1, <2>2
  <2>3. CASE id \notin hostForm["chain_ids"]
    BY <1>3, <2>1, <2>3
  <2>4. QED
    BY <2>2, <2>3
<1>5. QED
  BY <1>1, <1>2, <1>4, SetsIs

(* A text that can be null. *)
LEMMA ClearableSet ==
  ASSUME FormTyped, NEW x \in Clearable \intersect H!Schema(profile), H!ClearableTextField(x)
  PROVE  SetsField
<1>1. x \notin {"noise", "alpn"}
  BY DEF Clearable
<1>2. H!NullableTexts \subseteq H!Values(x) /\ H!Formats \union {"null"} \subseteq H!Values("path")
  BY ValuesAre
<1>3. H!Empty \in H!NullableTexts /\ H!Texts \union {"null"} \subseteq H!NullableTexts
  BY DEF H!NullableTexts, H!Texts
<1>4. (IF x = "path" THEN H!Formats ELSE H!Texts) \union {"null"} \subseteq H!Values(x)
  BY <1>2, <1>3
<1>5. PICK v \in H!Values(x) : H!Set(x, v)
  BY <1>2, <1>3, <1>4 DEF H!ClearableTextField
<1>6. QED
  BY <1>1, <1>5, SetsIs

(* The settings of TLS. *)
LEMMA TlsSet ==
  ASSUME FormTyped, H!TlsSchema \subseteq H!Schema(profile), H!TlsFields
  PROVE  SetsField
<1>1. {"sni", "alpn", "allowinsecure"} \subseteq H!Schema(profile)
  BY DEF H!TlsSchema
<1>2. CASE H!ClearableTextField("sni")
  BY <1>1, <1>2, ClearableSet DEF Clearable
<1>3. CASE H!AlpnField
  <2>1. H!alpnOptions \subseteq H!Values("alpn")
    BY ValuesAre
  <2>2. H!Empty \notin H!alpnOptions
    BY EmptyIs DEF H!alpnOptions
  <2>3. QED
    BY <1>1, <1>3, <2>1, <2>2, SetsIs DEF H!AlpnField
<1>4. CASE H!AllowInsecureField
  <2>1. H!Values("allowinsecure") = BOOLEAN
    BY ValuesAre DEF Choices
  <2>2. PICK b \in BOOLEAN : b = ~hostForm["allowinsecure"]
    OBVIOUS
  <2>3. H!Set("allowinsecure", b)
    BY <1>4, <2>2 DEF H!AllowInsecureField
  <2>4. QED
    BY <1>1, <2>1, <2>3, SetsIs
<1>5. QED
  BY <1>2, <1>3, <1>4 DEF H!TlsFields

(* A sequence is one shorter, and of what it was. *)
LEMMA RemoveAtIs ==
  ASSUME NEW S, NEW q \in Seq(S), NEW i \in DOMAIN q
  PROVE  H!RemoveAt(q, i) \in Seq(S) /\ Len(H!RemoveAt(q, i)) = Len(q) - 1
<1>1. i \in 1..Len(q) /\ Len(q) \in Nat
  OBVIOUS
<1>2. PICK a : a = SubSeq(q, 1, i - 1)
  OBVIOUS
<1>3. PICK b : b = SubSeq(q, i + 1, Len(q))
  OBVIOUS
<1>4. a \in Seq(S) /\ Len(a) = i - 1
  BY <1>1, <1>2
<1>5. b \in Seq(S) /\ Len(b) = Len(q) - i
  BY <1>1, <1>3
<1>6. a \o b \in Seq(S) /\ Len(a \o b) = Len(a) + Len(b)
  BY <1>4, <1>5, ConcatProperties
<1>7. H!RemoveAt(q, i) = a \o b
  BY <1>2, <1>3 DEF H!RemoveAt
<1>8. QED
  BY <1>1, <1>4, <1>5, <1>6, <1>7

(* A row of a list is changed. *)
LEMMA ReplacedRow ==
  ASSUME NEW S, NEW q \in Seq(S), NEW i \in DOMAIN q, NEW r \in S
  PROVE  [q EXCEPT ![i] = r] \in Seq(S) /\ Len([q EXCEPT ![i] = r]) = Len(q)
  OBVIOUS

(* Rows of headers are added, removed and typed. *)
LEMMA HeadersSet ==
  ASSUME FormTyped, "http_headers" \in H!Schema(profile), H!HttpHeadersDynamicFields
  PROVE  SetsField
<1>1. PICK fields : fields = hostForm["http_headers"]
  OBVIOUS
<1>2. H!Values("http_headers") = Seq(HeaderRow)
  BY ValuesAre
<1>3. fields \in Seq(HeaderRow)
  BY <1>1, <1>2, SchemaValues
<1>4. ASSUME NEW list \in Seq(HeaderRow), H!Set("http_headers", list) PROVE SetsField
  BY <1>2, <1>4, SetsIs
<1>5. CASE H!Set("http_headers", <<>>)
  <2>1. <<>> \in Seq(HeaderRow)
    OBVIOUS
  <2>2. QED
    BY <1>4, <1>5, <2>1
<1>6. CASE H!Set("http_headers", Append(fields, [name |-> H!Empty, value |-> H!Empty]))
  <2>1. [name |-> H!Empty, value |-> H!Empty] \in HeaderRow
    BY DEF HeaderRow, H!HeaderNames, H!Texts
  <2>2. Append(fields, [name |-> H!Empty, value |-> H!Empty]) \in Seq(HeaderRow)
    BY <1>3, <2>1
  <2>3. QED
    BY <1>4, <1>6, <2>2
<1>7. ASSUME NEW i \in DOMAIN fields, H!Set("http_headers", H!RemoveAt(fields, i)) PROVE SetsField
  BY <1>3, <1>4, <1>7, RemoveAtIs
<1>8. \A i \in DOMAIN fields : fields[i] \in HeaderRow
  BY <1>3
<1>9. ASSUME NEW i \in DOMAIN fields, NEW n \in H!HeaderNames,
             H!Set("http_headers", [fields EXCEPT ![i].name = n])
      PROVE  SetsField
  <2>1. [fields[i] EXCEPT !.name = n] \in HeaderRow
    BY <1>8 DEF HeaderRow
  <2>2. [fields EXCEPT ![i] = [fields[i] EXCEPT !.name = n]] \in Seq(HeaderRow)
    BY <1>3, <2>1, ReplacedRow
  <2>3. QED
    BY <1>4, <1>9, <2>2
<1>10. ASSUME NEW i \in DOMAIN fields, NEW v \in H!Texts,
              H!Set("http_headers", [fields EXCEPT ![i].value = v])
       PROVE  SetsField
  <2>1. [fields[i] EXCEPT !.value = v] \in HeaderRow
    BY <1>8 DEF HeaderRow
  <2>2. [fields EXCEPT ![i] = [fields[i] EXCEPT !.value = v]] \in Seq(HeaderRow)
    BY <1>3, <2>1, ReplacedRow
  <2>3. QED
    BY <1>4, <1>10, <2>2
<1>11. QED
  BY <1>1, <1>5, <1>6, <1>7, <1>9, <1>10 DEF H!HttpHeadersDynamicFields

(* A key is switched. *)
LEMMA SymDiffIs == ASSUME NEW S, NEW A \in SUBSET S, NEW k \in S
                   PROVE  H!SymDiff(A, {k}) \in SUBSET S
  BY DEF H!SymDiff

(* The settings of split-http, and those of xmux. *)
LEMMA SplitHttpSet ==
  ASSUME FormTyped, "splithttp_settings" \in H!Schema(profile),
         H!SplitHttpFields \/ H!SplitHttpXmuxFields
  PROVE  SetsField
<1>1. PICK old : old = hostForm["splithttp_settings"]
  OBVIOUS
<1>2. H!Values("splithttp_settings") = {{}} \union {{h} : h \in H!SplitHttpSettings}
  BY ValuesAre
<1>3. \A h \in old : h \in H!SplitHttpSettings
  BY <1>1, <1>2, SchemaValues
<1>4. ASSUME NEW h \in H!SplitHttpSettings, H!Set("splithttp_settings", {h}) PROVE SetsField
  BY <1>2, <1>4, SetsIs
<1>5. CASE H!Set("splithttp_settings", {})
  BY <1>2, <1>5, SetsIs
<1>6. CASE H!Set("splithttp_settings", {H!SplitHttp})
  <2>1. H!SplitHttp \in H!SplitHttpSettings
    <3>1. {H!NoXmux} \in {{k} : k \in H!XmuxSettings}
      BY DEF H!NoXmux, H!XmuxSettings, H!Numerals
    <3>2. QED
      BY <3>1 DEF H!SplitHttpSettings, H!SplitHttp
  <2>2. QED
    BY <1>4, <1>6, <2>1
<1>7. ASSUME NEW h \in old, NEW k \in H!SplitHttpKeys,
             H!Set("splithttp_settings", {[h EXCEPT !.keys = H!SymDiff(@, {k})]})
      PROVE  SetsField
  <2>1. h \in H!SplitHttpSettings /\ h.keys \in SUBSET H!SplitHttpKeys
    BY <1>3 DEF H!SplitHttpSettings
  <2>2. PICK new \in SUBSET H!SplitHttpKeys : new = H!SymDiff(h.keys, {k})
    BY <2>1, SymDiffIs
  <2>3. [h EXCEPT !.keys = new] \in H!SplitHttpSettings
    BY <2>1, <2>2 DEF H!SplitHttpSettings
  <2>4. QED
    BY <1>4, <1>7, <2>2, <2>3
<1>8. ASSUME NEW h \in old,
             H!Set("splithttp_settings", {[h EXCEPT !.xmux = IF @ = {} THEN {H!NoXmux} ELSE {}]})
      PROVE  SetsField
  <2>1. h \in H!SplitHttpSettings
    BY <1>3
  <2>2. PICK new \in {{}, {H!NoXmux}} : new = IF h.xmux = {} THEN {H!NoXmux} ELSE {}
    OBVIOUS
  <2>3. new \in {{}} \union {{k} : k \in H!XmuxSettings}
    BY <2>2 DEF H!NoXmux, H!XmuxSettings, H!Numerals
  <2>4. [h EXCEPT !.xmux = new] \in H!SplitHttpSettings
    BY <2>1, <2>3 DEF H!SplitHttpSettings
  <2>5. QED
    BY <1>4, <1>8, <2>2, <2>4
<1>9. ASSUME NEW h \in old, NEW x \in h.xmux, NEW v \in H!Numerals \union {"text"},
             H!Set("splithttp_settings", {[h EXCEPT !.xmux = {[x EXCEPT !.max_concurrency = v]}]})
      PROVE  SetsField
  <2>1. h \in H!SplitHttpSettings /\ x \in H!XmuxSettings
    BY <1>3 DEF H!SplitHttpSettings
  <2>2. PICK new : new = [x EXCEPT !.max_concurrency = v]
    OBVIOUS
  <2>3. new \in H!XmuxSettings
    BY <2>1, <2>2 DEF H!XmuxSettings
  <2>4. {new} \in {{}} \union {{l} : l \in H!XmuxSettings}
    BY <2>3
  <2>5. [h EXCEPT !.xmux = {new}] \in H!SplitHttpSettings
    BY <2>1, <2>4 DEF H!SplitHttpSettings
  <2>6. QED
    BY <1>4, <1>9, <2>2, <2>5
<1>10. CASE H!SplitHttpFields
  <2>1. \/ H!Set("splithttp_settings", IF old = {} THEN {H!SplitHttp} ELSE {})
        \/ \E h \in old, k \in H!SplitHttpKeys :
             H!Set("splithttp_settings", {[h EXCEPT !.keys = H!SymDiff(@, {k})]})
    BY <1>1, <1>10 DEF H!SplitHttpFields
  <2>2. CASE H!Set("splithttp_settings", IF old = {} THEN {H!SplitHttp} ELSE {})
    <3>1. CASE old = {}
      BY <1>6, <2>2, <3>1
    <3>2. CASE old # {}
      BY <1>5, <2>2, <3>2
    <3>3. QED
      BY <3>1, <3>2
  <2>3. QED
    BY <1>7, <2>1, <2>2
<1>11. CASE H!SplitHttpXmuxFields
  BY <1>1, <1>8, <1>9, <1>11 DEF H!SplitHttpXmuxFields
<1>12. QED
  BY <1>10, <1>11

(* The texts of a fragment. *)
Fragment == [DOMAIN H!NoFragment -> H!Texts]

(* The fragment is switched, and its texts are typed. *)
LEMMA FragmentSet ==
  ASSUME FormTyped, "fragment" \in H!Schema(profile), H!FragmentField
  PROVE  SetsField
<1>1. PICK old : old = hostForm["fragment"]
  OBVIOUS
<1>2. H!Values("fragment") = {{}} \union {{g} : g \in Fragment}
  BY ValuesAre DEF Fragment
<1>3. \A g \in old : g \in Fragment
  BY <1>1, <1>2, SchemaValues
<1>4. ASSUME NEW g \in Fragment, H!Set("fragment", {g}) PROVE SetsField
  BY <1>2, <1>4, SetsIs
<1>5. CASE H!Set("fragment", {})
  BY <1>2, <1>5, SetsIs
<1>6. CASE H!Set("fragment", {H!NoFragment})
  <2>1. H!NoFragment \in Fragment
    BY DEF Fragment, H!NoFragment, H!Texts
  <2>2. QED
    BY <1>4, <1>6, <2>1
<1>7. ASSUME NEW g \in old, NEW k \in {"packets", "length", "interval"}, NEW v \in H!Texts,
             H!Set("fragment", {[g EXCEPT ![k] = v]})
      PROVE  SetsField
  <2>1. [g EXCEPT ![k] = v] \in Fragment
    BY <1>3 DEF Fragment
  <2>2. QED
    BY <1>4, <1>7, <2>1
<1>8. CASE H!Set("fragment", IF old = {} THEN {H!NoFragment} ELSE {})
  <2>1. CASE old = {}
    BY <1>6, <1>8, <2>1
  <2>2. CASE old # {}
    BY <1>5, <1>8, <2>2
  <2>3. QED
    BY <2>1, <2>2
<1>9. QED
  BY <1>1, <1>7, <1>8 DEF H!FragmentField

(* The multiplexing is switched, its protocol chosen, its settings changed. *)
LEMMA MuxSet ==
  ASSUME FormTyped, "mux_settings" \in H!Schema(profile), H!MuxSettingsFields
  PROVE  SetsField
<1>1. PICK old : old = hostForm["mux_settings"]
  OBVIOUS
<1>2. H!Values("mux_settings") = {{}} \union {{m} : m \in H!MuxSettings}
  BY ValuesAre
<1>3. \A m \in old : m \in H!MuxSettings
  BY <1>1, <1>2, SchemaValues
<1>4. ASSUME NEW m \in H!MuxSettings, H!Set("mux_settings", {m}) PROVE SetsField
  BY <1>2, <1>4, SetsIs
<1>5. CASE H!Set("mux_settings", {})
  BY <1>2, <1>5, SetsIs
<1>6. CASE H!Set("mux_settings", {H!MuxCool})
  <2>1. H!SetMuxCool \in H!MuxCoolSettings
    BY DEF H!SetMuxCool, H!MuxCoolSettings, H!Numerals, H!xudpOptions
  <2>2. {H!SetMuxCool} \in {{}} \union {{c} : c \in H!MuxCoolSettings}
    BY <2>1
  <2>3. H!MuxCool \in H!MuxSettings
    BY <2>2 DEF H!MuxSettings, H!MuxCool, H!MuxProtocols
  <2>4. QED
    BY <1>4, <1>6, <2>3
<1>7. ASSUME NEW m \in old, NEW v \in H!MuxProtocols,
             H!Set("mux_settings", {[m EXCEPT !.protocol = v]})
      PROVE  SetsField
  <2>1. [m EXCEPT !.protocol = v] \in H!MuxSettings
    BY <1>3 DEF H!MuxSettings
  <2>2. QED
    BY <1>4, <1>7, <2>1
<1>8. ASSUME NEW m \in old, NEW k \in H!SingBoxKeys,
             H!Set("mux_settings", {[m EXCEPT !.sing_box_mux_settings = H!SymDiff(@, {k})]})
      PROVE  SetsField
  <2>1. m \in H!MuxSettings /\ m.sing_box_mux_settings \in SUBSET H!SingBoxKeys
    BY <1>3 DEF H!MuxSettings
  <2>2. PICK new \in SUBSET H!SingBoxKeys : new = H!SymDiff(m.sing_box_mux_settings, {k})
    BY <2>1, SymDiffIs
  <2>3. [m EXCEPT !.sing_box_mux_settings = new] \in H!MuxSettings
    BY <2>1, <2>2 DEF H!MuxSettings
  <2>4. QED
    BY <1>4, <1>8, <2>2, <2>3
<1>9. ASSUME NEW m \in old, NEW d \in H!MuxCoolSettings,
             H!Set("mux_settings", {[m EXCEPT !.mux_cool_settings = {d}]})
      PROVE  SetsField
  <2>1. {d} \in {{}} \union {{c} : c \in H!MuxCoolSettings}
    OBVIOUS
  <2>2. [m EXCEPT !.mux_cool_settings = {d}] \in H!MuxSettings
    BY <1>3, <2>1 DEF H!MuxSettings
  <2>3. QED
    BY <1>4, <1>9, <2>2
<1>10. ASSUME NEW m \in old,
              NEW c \in IF m.mux_cool_settings = {} THEN {H!NoMuxCool} ELSE m.mux_cool_settings,
              \/ \E v \in H!Numerals \ {c.concurrency} :
                   H!Set("mux_settings",
                         {[m EXCEPT !.mux_cool_settings = {[c EXCEPT !.concurrency = v]}]})
              \/ \E v \in H!xudpOptions :
                   H!Set("mux_settings",
                         {[m EXCEPT !.mux_cool_settings = {[c EXCEPT !.xudp_proxy_443 = v]}]})
       PROVE  SetsField
  <2>1. c \in H!MuxCoolSettings
    <3>1. H!NoMuxCool \in H!MuxCoolSettings
      BY DEF H!NoMuxCool, H!MuxCoolSettings, H!Numerals
    <3>2. \A k \in m.mux_cool_settings : k \in H!MuxCoolSettings
      BY <1>3 DEF H!MuxSettings
    <3>3. QED
      BY <3>1, <3>2
  <2>2. \A v \in H!Numerals : [c EXCEPT !.concurrency = v] \in H!MuxCoolSettings
    BY <2>1 DEF H!MuxCoolSettings
  <2>3. \A v \in H!xudpOptions : [c EXCEPT !.xudp_proxy_443 = v] \in H!MuxCoolSettings
    BY <2>1 DEF H!MuxCoolSettings
  <2>4. QED
    BY <1>9, <1>10, <2>2, <2>3
<1>11. CASE H!Set("mux_settings", IF old = {} THEN {H!MuxCool} ELSE {})
  <2>1. CASE old = {}
    BY <1>6, <1>11, <2>1
  <2>2. CASE old # {}
    BY <1>5, <1>11, <2>2
  <2>3. QED
    BY <2>1, <2>2
<1>12. QED
  BY <1>1, <1>7, <1>8, <1>10, <1>11 DEF H!MuxSettingsFields

(* The security, with the settings of TLS where it has them. *)
LEMMA SecuritySet ==
  ASSUME FormTyped, profile = "general", H!SecurityFields
  PROVE  SetsField
<1>1. /\ H!TlsSchema \subseteq H!Schema(profile)
      /\ {"security", "fingerprint"} \subseteq H!Schema(profile)
  BY SchemaIs DEF H!GeneralSchema
<1>2. ASSUME NEW v \in H!Securities, H!Set("security", v) PROVE SetsField
  <2>1. v \in H!Values("security")
    BY ValuesAre
  <2>2. QED
    BY <1>1, <1>2, <2>1, SetsIs
<1>3. CASE H!TlsFields
  BY <1>1, <1>3, TlsSet
<1>4. CASE H!FingerprintField
  <2>1. H!Fingerprints \subseteq H!Values("fingerprint")
    BY ValuesAre
  <2>2. QED
    BY <1>1, <1>4, <2>1, SetsIs DEF H!FingerprintField
<1>5. QED
  BY <1>2, <1>3, <1>4 DEF H!SecurityFields

(* In the general profile: one field is set, or the rows of noise are. *)
LEMMA GeneralSet ==
  ASSUME FormTyped, H!GeneralProfileFields
  PROVE  SetsField \/ (section = "camouflage" /\ profile = "general" /\ H!NoiseField)
<1>1. profile = "general"
  <2>1. section \in {"network", "split-http", "camouflage", "mux", "security"}
    BY DEF H!GeneralProfileFields, H!In
  <2>2. QED
    BY <2>1 DEF FormTyped, H!Sections
<1>2. {"host", "path", "early_data", "http_headers", "splithttp_settings", "fragment", "mux_settings"}
         \subseteq H!Schema(profile)
  BY <1>1, SchemaIs DEF H!GeneralSchema
<1>3. CASE H!ClearableTextField("host") \/ H!ClearableTextField("path")
  BY <1>2, <1>3, ClearableSet DEF Clearable
<1>4. CASE H!EarlyDataField
  <2>1. H!Ports \subseteq H!Values("early_data")
    BY ValuesAre DEF Numbers
  <2>2. QED
    BY <1>2, <1>4, <2>1, SetsIs DEF H!EarlyDataField
<1>5. CASE H!HttpHeadersDynamicFields
  BY <1>2, <1>5, HeadersSet
<1>6. CASE H!SplitHttpFields \/ H!SplitHttpXmuxFields
  BY <1>2, <1>6, SplitHttpSet
<1>7. CASE H!FragmentField
  BY <1>2, <1>7, FragmentSet
<1>8. CASE H!MuxSettingsFields
  BY <1>2, <1>8, MuxSet
<1>9. CASE H!SecurityFields
  BY <1>1, <1>9, SecuritySet
<1>10. QED
  BY <1>1, <1>3, <1>4, <1>5, <1>6, <1>7, <1>8, <1>9 DEF H!GeneralProfileFields, H!In

(* In the other profiles. *)
LEMMA OtherProfilesSet ==
  ASSUME FormTyped,
         \/ H!WireguardProfileFields \/ H!Hysteria2ProfileFields
         \/ H!ShadowTlsProfileFields \/ H!TuicProfileFields
  PROVE  SetsField
<1>1. CASE H!WireguardProfileFields
  <2>1. profile = "wireguard"
    <3>1. section = "wireguard"
      BY <1>1 DEF H!WireguardProfileFields, H!In
    <3>2. QED
      BY <3>1 DEF FormTyped, H!Sections
  <2>2. {"path", "allowed_ips", "mtu", "dns_servers"} \subseteq H!Schema(profile)
    BY <2>1, SchemaIs DEF H!WireguardSchema
  <2>3. /\ {H!Empty, "443"} \subseteq H!Values("mtu")
        /\ H!Texts \subseteq H!Values("dns_servers") /\ H!Texts \subseteq H!Values("allowed_ips")
    BY ValuesAre DEF Numbers, Clearable, H!Ports, H!NullableTexts
  <2>4. CASE H!ClearableTextField("path")
    BY <2>2, <2>4, ClearableSet DEF Clearable
  <2>5. CASE H!MtuField
    BY <2>2, <2>3, <2>5, SetsIs DEF H!MtuField
  <2>6. CASE H!DNSServersField
    BY <2>2, <2>3, <2>6, SetsIs DEF H!DNSServersField
  <2>7. CASE H!AllowedIpsField
    BY <2>2, <2>3, <2>7, SetsIs DEF H!AllowedIpsField
  <2>8. QED
    BY <1>1, <2>4, <2>5, <2>6, <2>7 DEF H!WireguardProfileFields
<1>2. CASE H!TlsFields /\ profile \in {"hysteria2", "shadowtls", "tuic"}
  <2>1. H!TlsSchema \subseteq H!Schema(profile)
    BY <1>2, FieldsAre DEF FormTyped
  <2>2. QED
    BY <1>2, <2>1, TlsSet
<1>3. CASE H!ClearableTextField("path") /\ profile = "hysteria2"
  <2>1. "path" \in H!Schema(profile)
    BY <1>3, SchemaIs DEF H!Hysteria2Schema
  <2>2. QED
    BY <1>3, <2>1, ClearableSet DEF Clearable
<1>4. QED
  BY <1>1, <1>2, <1>3 DEF H!Hysteria2ProfileFields, H!ShadowTlsProfileFields, H!TuicProfileFields

(* Whatever is edited: one field is set, or the rows of noise are. *)
LEMMA EditSets ==
  ASSUME FormTyped, H!Edit
  PROVE  SetsField \/ (section = "camouflage" /\ profile = "general" /\ H!NoiseField)
  BY CommonSet, ChainSet, GeneralSet, OtherProfilesSet DEF H!Edit

-----------------------------------------------------------------------------
(* What is sent *)

(* A field that was not touched has what the panel had for it, or what the form
   starts with. *)
Untouched ==
  /\ \A h \in host : \A x \in H!Schema(profile) \ touched :
       hostForm[x] = H!formMutationToAPIAdapter(h)[x]
  /\ host = {} => \A x \in H!Schema(profile) \ touched :
       hostForm[x] = H!defaultValue(profile)[x]

(* What becomes of each field on its way to the panel. *)
LEMMA ParsedIs ==
  ASSUME FormTyped
  PROVE  LET v == H!Parsed(hostForm) IN
         /\ v = [x \in H!Schema(profile) |-> v[x]]
         /\ \A x \in H!Schema(profile) :
              /\ x \in {"port", "early_data"} =>
                   v[x] = IF hostForm[x] = H!Empty THEN "null" ELSE hostForm[x]
              /\ x \in {"weight", "mtu"} =>
                   v[x] = IF hostForm[x] = H!Empty THEN "0" ELSE hostForm[x]
              /\ x = "mux_settings" => v[x] = H!DefaultedMux(hostForm[x])
              /\ x \notin {"port", "early_data", "weight", "mtu", "mux_settings"} =>
                   v[x] = hostForm[x]
<1>1. DOMAIN hostForm \intersect H!Schema(profile) = H!Schema(profile)
  BY DEF FormTyped
<1>2. PICK S : S = H!Schema(profile)
  OBVIOUS
<1>3. H!Parsed(hostForm) = [x \in S |->
         CASE x \in {"port", "early_data"} /\ hostForm[x] = H!Empty -> "null"
           [] x \in {"weight", "mtu"} /\ hostForm[x] = H!Empty -> "0"
           [] x = "mux_settings" -> H!DefaultedMux(hostForm[x])
           [] OTHER -> hostForm[x]]
  BY <1>1, <1>2 DEF H!Parsed
<1>4. PICK v : v = H!Parsed(hostForm)
  OBVIOUS
<1>5. v = [x \in S |-> v[x]]
  BY <1>3, <1>4
<1>6. ASSUME NEW x \in S
      PROVE  /\ x \in {"port", "early_data"} =>
                  v[x] = IF hostForm[x] = H!Empty THEN "null" ELSE hostForm[x]
             /\ x \in {"weight", "mtu"} =>
                  v[x] = IF hostForm[x] = H!Empty THEN "0" ELSE hostForm[x]
             /\ x = "mux_settings" => v[x] = H!DefaultedMux(hostForm[x])
             /\ x \notin {"port", "early_data", "weight", "mtu", "mux_settings"} =>
                  v[x] = hostForm[x]
  BY <1>3, <1>4
<1>7. QED
  BY <1>2, <1>4, <1>5, <1>6

(* What is sent for each field. *)
LEMMA PayloadIs ==
  ASSUME FormTyped
  PROVE  LET v == H!Payload(hostForm) IN
         /\ DOMAIN v = H!Schema(profile)
         /\ \A x \in H!Schema(profile) :
              /\ x \in {"port", "early_data"} =>
                   v[x] = IF hostForm[x] = H!Empty THEN "null" ELSE hostForm[x]
              /\ x \in {"weight", "mtu"} =>
                   v[x] = IF hostForm[x] = H!Empty THEN "0" ELSE hostForm[x]
              /\ x = "alpn" => \/ v[x] = hostForm[x]
                               \/ hostForm[x] = "none" /\ v[x] = H!Empty
              /\ x = "fingerprint" => v[x] = IF hostForm[x] = "none" THEN H!Empty ELSE hostForm[x]
              /\ x = "http_headers" => v[x] = H!transformToDictionary(hostForm[x])
              /\ x = "mux_settings" => v[x] = H!DefaultedMux(hostForm[x])
              /\ x \notin {"port", "early_data", "weight", "mtu", "alpn", "fingerprint",
                           "http_headers", "mux_settings"} =>
                   v[x] = hostForm[x]
<1>1. profile \in H!Profiles /\ DOMAIN hostForm \intersect H!Schema(profile) = H!Schema(profile)
  BY DEF FormTyped
<1>2. PICK S : S = H!Schema(profile)
  OBVIOUS
<1>3. PICK a : a = H!Parsed(hostForm)
  OBVIOUS
<1>4. DOMAIN a = S /\ a = [x \in S |-> a[x]]
  BY <1>2, <1>3, ParsedIs
<1>5. \A x \in S : /\ x \in {"port", "early_data"} =>
                        a[x] = IF hostForm[x] = H!Empty THEN "null" ELSE hostForm[x]
                   /\ x \in {"weight", "mtu"} =>
                        a[x] = IF hostForm[x] = H!Empty THEN "0" ELSE hostForm[x]
                   /\ x = "mux_settings" => a[x] = H!DefaultedMux(hostForm[x])
                   /\ x \notin {"port", "early_data", "weight", "mtu", "mux_settings"} =>
                        a[x] = hostForm[x]
  BY <1>2, <1>3, ParsedIs
<1>6. PICK v : v = H!Payload(hostForm)
  OBVIOUS
<1>7. "fingerprint" \in DOMAIN hostForm <=> profile = "general"
  <2>1. ASSUME NEW h \in H!Hosts(profile)
        PROVE  "fingerprint" \in DOMAIN h <=> "fingerprint" \in S
    <3>1. DOMAIN h = S \union {"universal"}
      BY <1>1, <1>2, HostsAre
    <3>2. QED
      BY <3>1
  <2>2. "fingerprint" \in DOMAIN hostForm <=> "fingerprint" \in S
    BY <1>2, <2>1 DEF FormTyped
  <2>3. QED
    BY <1>1, <1>2, <2>2, FieldsAre
<1>8. CASE profile # "general"
  <2>1. v = a
    BY <1>3, <1>6, <1>7, <1>8 DEF H!Payload
  <2>2. "fingerprint" \notin S /\ "http_headers" \notin S
    BY <1>1, <1>2, <1>8, FieldsAre
  <2>3. QED
    BY <1>2, <1>4, <1>5, <1>6, <2>1, <2>2
<1>9. CASE profile = "general"
  <2>1. {"fingerprint", "http_headers", "alpn"} \subseteq S
    BY <1>2, <1>9, SchemaIs DEF H!GeneralSchema, H!TlsSchema
  <2>2. PICK b : b = H!transformFormValue(a)
    OBVIOUS
  <2>3. v = [b EXCEPT !["http_headers"] = H!transformToDictionary(@)]
    BY <1>3, <1>6, <1>7, <1>9, <2>2 DEF H!Payload, H!transformFormValueHttpHeaders
  <2>4. a["alpn"] = hostForm["alpn"] /\ a["fingerprint"] = hostForm["fingerprint"]
        /\ hostForm["alpn"] # H!Empty
    BY <1>5, <1>9, <2>1 DEF FormTyped
  <2>5. /\ DOMAIN b = S
        /\ \A x \in S \ {"alpn", "fingerprint"} : b[x] = a[x]
        /\ \/ b["alpn"] = hostForm["alpn"]
           \/ hostForm["alpn"] = "none" /\ b["alpn"] = H!Empty
        /\ b["fingerprint"] = IF hostForm["fingerprint"] = "none" THEN H!Empty
                              ELSE hostForm["fingerprint"]
    <3>1. CASE hostForm["fingerprint"] = H!Empty
      <4>1. b = a
        BY <2>2, <2>4, <3>1 DEF H!transformFormValue
      <4>2. H!Empty # "none"
        BY EmptyIs
      <4>3. QED
        BY <1>4, <2>4, <3>1, <4>1, <4>2
    <3>2. CASE hostForm["fingerprint"] # H!Empty
      <4>1. b = [a EXCEPT !["alpn"] = IF @ = "none" THEN H!Empty ELSE @,
                          !["fingerprint"] = IF @ = "none" THEN H!Empty ELSE @]
        BY <2>2, <2>4, <3>2 DEF H!transformFormValue
      <4>2. QED
        BY <1>4, <2>1, <2>4, <4>1
    <3>3. QED
      BY <3>1, <3>2
  <2>6. /\ DOMAIN v = S
        /\ \A x \in S \ {"http_headers"} : v[x] = b[x]
        /\ v["http_headers"] = H!transformToDictionary(b["http_headers"])
    BY <2>1, <2>3, <2>5
  <2>7. b["http_headers"] = hostForm["http_headers"]
    BY <1>5, <2>1, <2>5
  <2>8. ASSUME NEW x \in S
        PROVE /\ x \in {"port", "early_data"} =>
                   v[x] = IF hostForm[x] = H!Empty THEN "null" ELSE hostForm[x]
              /\ x \in {"weight", "mtu"} =>
                   v[x] = IF hostForm[x] = H!Empty THEN "0" ELSE hostForm[x]
              /\ x = "alpn" => \/ v[x] = hostForm[x]
                               \/ hostForm[x] = "none" /\ v[x] = H!Empty
              /\ x = "fingerprint" => v[x] = IF hostForm[x] = "none" THEN H!Empty ELSE hostForm[x]
              /\ x = "http_headers" => v[x] = H!transformToDictionary(hostForm[x])
              /\ x = "mux_settings" => v[x] = H!DefaultedMux(hostForm[x])
              /\ x \notin {"port", "early_data", "weight", "mtu", "alpn", "fingerprint",
                           "http_headers", "mux_settings"} =>
                   v[x] = hostForm[x]
    <3>1. x \in {"port", "early_data", "weight", "mtu"} => v[x] = a[x]
      BY <2>5, <2>6
    <3>2. x \notin {"alpn", "fingerprint", "http_headers"} => v[x] = a[x]
      BY <2>5, <2>6
    <3>3. x \in {"alpn", "fingerprint"} => v[x] = b[x]
      BY <2>6
    <3>4. QED
      BY <1>5, <2>5, <2>6, <2>7, <3>1, <3>2, <3>3
  <2>9. QED
    BY <1>2, <1>6, <2>6, <2>8
<1>10. QED
  BY <1>8, <1>9

(* Settings of the multiplexing that the panel had, and that are valid, stay. *)
LEMMA MuxStays ==
  ASSUME NEW mux \in {H!Plain["mux_settings"], H!Rich["mux_settings"], H!Foreign["mux_settings"]},
         \A m \in mux : \A c \in m.mux_cool_settings : c.xudp_proxy_443 # "null"
  PROVE  H!DefaultedMux(mux) = mux
<1>1. CASE mux = H!Plain["mux_settings"]
  <2>1. mux = {}
    BY <1>1, PlainIs
  <2>2. QED
    BY <2>1 DEF H!DefaultedMux
<1>2. CASE mux = H!Rich["mux_settings"]
  <2>1. PICK m : m = [protocol |-> "h2mux", mux_cool_settings |-> {},
                      sing_box_mux_settings |-> {"padding"}]
    OBVIOUS
  <2>2. mux = {m}
    BY <1>2, <2>1, RichIs
  <2>3. PICK cools : cools = {[c EXCEPT !.xudp_proxy_443 = IF @ = "undefined" THEN "reject" ELSE @] :
                                c \in m.mux_cool_settings}
    OBVIOUS
  <2>4. cools = {}
    BY <2>1, <2>3
  <2>5. [m EXCEPT !.mux_cool_settings = cools] = m
    BY <2>1, <2>4
  <2>6. H!DefaultedMux(mux) = {[m EXCEPT !.mux_cool_settings = cools]}
    BY <2>2, <2>3 DEF H!DefaultedMux
  <2>7. QED
    BY <2>2, <2>5, <2>6
<1>3. CASE mux = H!Foreign["mux_settings"]
  <2>1. PICK c : c = [concurrency |-> "null", xudp_proxy_443 |-> "null"]
    OBVIOUS
  <2>2. PICK m : m = [protocol |-> "mux_cool", mux_cool_settings |-> {c},
                      sing_box_mux_settings |-> {}]
    OBVIOUS
  <2>3. mux = {m}
    BY <1>3, <2>1, <2>2, ForeignIs
  <2>4. m \in mux /\ c \in m.mux_cool_settings /\ c.xudp_proxy_443 = "null"
    BY <2>1, <2>2, <2>3
  <2>5. QED
    BY <2>4
<1>4. QED
  BY <1>1, <1>2, <1>3

(* A free text that nobody typed is one that the panel takes. *)
LEMMA UntypedTaken ==
  ASSUME FormTyped, Untouched, NEW x \in (H!Schema(profile) \ touched) \intersect H!FreeTexts
  PROVE  /\ x \in {"remark", "address", "path"} => hostForm[x] # H!Malformed
         /\ x = "noise" => \A i \in DOMAIN hostForm[x] : hostForm[x][i].delay = "5"
         /\ x = "splithttp_settings" =>
              \A g \in hostForm[x] : \A k \in g.xmux : k.max_concurrency \in H!Numerals
<1>1. profile \in H!Profiles
  BY DEF FormTyped
<1>2. \/ hostForm[x] \in {H!Plain[x], H!Rich[x]}
      \/ x \in {"remark", "address", "path"} /\ hostForm[x] = H!Empty
  <2>1. CASE host = {}
    <3>1. hostForm[x] = H!defaultValue(profile)[x]
      BY <2>1 DEF Untouched
    <3>2. \/ x \in {"remark", "address", "path"} /\ H!defaultValue(profile)[x] = H!Empty
          \/ H!defaultValue(profile)[x] = H!Plain[x]
      BY DEF H!defaultValue, H!FreeTexts
    <3>3. QED
      BY <3>1, <3>2
  <2>2. CASE host # {}
    <3>1. PICK h \in H!Hosts(profile) : host = {h}
      BY <2>2 DEF FormTyped
    <3>2. x \in DOMAIN h /\ x # "mux_settings" /\ x # "http_headers"
      BY <1>1, <3>1, HostsAre DEF H!FreeTexts
    <3>3. h[x] \in {H!Plain[x], H!Rich[x]}
      BY <1>1, <3>2, HostsAre
    <3>4. hostForm[x] = h[x]
      BY <3>1, <3>2 DEF Untouched, H!formMutationToAPIAdapter
    <3>5. QED
      BY <3>3, <3>4
  <2>3. QED
    BY <2>1, <2>2
<1>3. x \in {"remark", "address", "path"} => hostForm[x] # H!Malformed
  <2>1. ASSUME x \in {"remark", "address", "path"} PROVE hostForm[x] \in {"text", "null", H!Empty}
    BY <1>2, <2>1, PlainIs, RichIs DEF Filled, Clearable
  <2>2. H!Malformed \notin {"text", "null", H!Empty}
    BY EmptyIs DEF H!Malformed
  <2>3. QED
    BY <2>1, <2>2
<1>4. ASSUME x = "noise" PROVE \A i \in DOMAIN hostForm[x] : hostForm[x][i].delay = "5"
  <2>1. hostForm[x] = <<>> \/
        hostForm[x] = [i \in 1..MaxNoise - 1 |-> [type |-> "str", packet |-> "text", delay |-> "5"]]
    BY <1>2, <1>4, PlainIs, RichIs
  <2>2. CASE hostForm[x] = <<>>
    <3>1. \A i \in DOMAIN <<>> : FALSE
      OBVIOUS
    <3>2. QED
      BY <2>2, <3>1
  <2>3. CASE hostForm[x] =
          [i \in 1..MaxNoise - 1 |-> [type |-> "str", packet |-> "text", delay |-> "5"]]
    BY <2>3
  <2>4. QED
    BY <2>1, <2>2, <2>3
<1>5. ASSUME x = "splithttp_settings"
      PROVE  \A g \in hostForm[x] : \A k \in g.xmux : k.max_concurrency \in H!Numerals
  <2>1. hostForm[x] = {} \/
        hostForm[x] = {[keys |-> {"mode"}, xmux |-> {[max_concurrency |-> "5"]}]}
    BY <1>2, <1>5, PlainIs, RichIs
  <2>2. QED
    BY <2>1 DEF H!Numerals
<1>6. QED
  BY <1>3, <1>4, <1>5

(* What the panel refuses: texts that were typed. *)
LEMMA PayloadTaken ==
  ASSUME FormTyped, Untouched, H!Valid(hostForm)
  PROVE  H!Refuses(H!Payload(hostForm)) \subseteq touched \intersect H!FreeTexts
<1>1. PICK v : v = H!Payload(hostForm)
  OBVIOUS
<1>2. PICK S : S = H!Schema(profile)
  OBVIOUS
<1>3. DOMAIN v = S
  BY <1>1, <1>2, PayloadIs
<1>4. \A x \in S : hostForm[x] \in H!Values(x)
  BY <1>2, SchemaValues
<1>5. "alpn" \in S => v["alpn"] \in H!alpnOptions \union {H!Empty}
  <2>1. "alpn" \in S => hostForm["alpn"] \in H!alpnOptions \union {H!Empty}
    BY <1>4, ValuesAre
  <2>2. "alpn" \in S => v["alpn"] = hostForm["alpn"] \/ v["alpn"] = H!Empty
    BY <1>1, <1>2, PayloadIs
  <2>3. QED
    BY <2>1, <2>2
<1>6. "fingerprint" \in S => v["fingerprint"] \in (H!Fingerprints \ {"none"}) \union {H!Empty}
  <2>1. "fingerprint" \in S => hostForm["fingerprint"] \in H!Fingerprints \union {H!Empty}
    BY <1>4, ValuesAre
  <2>2. "fingerprint" \in S =>
          v["fingerprint"] = IF hostForm["fingerprint"] = "none" THEN H!Empty
                             ELSE hostForm["fingerprint"]
    BY <1>1, <1>2, PayloadIs
  <2>3. QED
    BY <2>1, <2>2
<1>7. "weight" \in S => v["weight"] # "null"
  <2>1. "weight" \in S => hostForm["weight"] \in {H!Empty, "1", "5", "undefined"}
    BY <1>4, ValuesAre
  <2>2. "weight" \in S =>
          v["weight"] = IF hostForm["weight"] = H!Empty THEN "0" ELSE hostForm["weight"]
    BY <1>1, <1>2, PayloadIs
  <2>3. QED
    BY <2>1, <2>2
<1>8. "fragment" \in S => ~\E g \in v["fragment"] : \E k \in DOMAIN g : g[k] = H!Empty
  <2>1. SUFFICES ASSUME "fragment" \in S
                 PROVE  \A g \in v["fragment"] : \A k \in DOMAIN g : g[k] # H!Empty
    OBVIOUS
  <2>2. v["fragment"] = hostForm["fragment"]
    BY <1>1, <1>2, <2>1, PayloadIs
  <2>3. "fragment" \in DOMAIN hostForm
    BY <1>2, <2>1 DEF FormTyped
  <2>4. \A g \in hostForm["fragment"] : \A k \in DOMAIN g : g[k] # H!Empty
    BY <2>3 DEF H!Valid
  <2>5. QED
    BY <2>2, <2>4
<1>9. ASSUME NEW x \in S, x \notin touched \intersect H!FreeTexts
      PROVE  ~CASE x \in {"remark", "address", "path"} -> v[x] = H!Malformed
                [] x = "alpn" -> v[x] \notin H!alpnOptions \union {H!Empty}
                [] x = "fingerprint" -> v[x] \notin (H!Fingerprints \ {"none"}) \union {H!Empty}
                [] x = "weight" -> v[x] = "null"
                [] x = "fragment" -> \E g \in v[x] : \E k \in DOMAIN g : g[k] = H!Empty
                [] x = "noise" -> \E i \in DOMAIN v[x] : v[x][i].delay # "5"
                [] x = "splithttp_settings" ->
                     \E g \in v[x] : \E k \in g.xmux : k.max_concurrency \notin H!Numerals
                [] OTHER -> FALSE
  <2>1. CASE x \in {"alpn", "fingerprint", "weight"}
    BY <1>5, <1>6, <1>7, <2>1
  <2>2. CASE x = "fragment"
    BY <1>8, <2>2
  <2>3. CASE x \in H!FreeTexts
    <3>1. /\ x \in {"remark", "address", "path"} => hostForm[x] # H!Malformed
          /\ x = "noise" => \A i \in DOMAIN hostForm[x] : hostForm[x][i].delay = "5"
          /\ x = "splithttp_settings" =>
               \A g \in hostForm[x] : \A k \in g.xmux : k.max_concurrency \in H!Numerals
      BY <1>2, <1>9, <2>3, UntypedTaken
    <3>2. v[x] = hostForm[x]
      BY <1>1, <1>2, <2>3, PayloadIs DEF H!FreeTexts
    <3>3. x \in {"remark", "address", "path", "noise", "splithttp_settings"}
      BY <2>3 DEF H!FreeTexts
    <3>4. CASE x \in {"remark", "address", "path"}
      BY <3>1, <3>2, <3>4
    <3>5. CASE x = "noise"
      BY <3>1, <3>2, <3>5
    <3>6. CASE x = "splithttp_settings"
      BY <3>1, <3>2, <3>6
    <3>7. QED
      BY <3>3, <3>4, <3>5, <3>6
  <2>4. CASE x \notin {"alpn", "fingerprint", "weight", "fragment"} \union H!FreeTexts
    BY <2>4 DEF H!FreeTexts
  <2>5. QED
    BY <2>1, <2>2, <2>3, <2>4
<1>10. QED
  BY <1>1, <1>3, <1>9 DEF H!Refuses

(* What the panel has afterwards of what was not touched. *)
LEMMA PayloadKeeps ==
  ASSUME FormTyped, Untouched, H!Valid(hostForm), NEW h \in host,
         NEW x \in H!Schema(profile) \ touched
  PROVE  H!Stored(H!Payload(hostForm))[x] = h[x]
<1>1. PICK v : v = H!Payload(hostForm)
  OBVIOUS
<1>2. h \in H!Hosts(profile) /\ profile \in H!Profiles
  BY DEF FormTyped
<1>3. x \in DOMAIN h /\ x \in Field /\ x # "universal"
  <2>1. DOMAIN h = H!Schema(profile) \union {"universal"}
    BY <1>2, HostsAre
  <2>2. x \in (Choices \ {"universal"}) \union Filled \union Clearable \union Numbers \union Parts
    BY <1>2, FieldsAre
  <2>3. "universal" \notin Filled \union Clearable \union Numbers \union Parts
    BY DEF Filled, Clearable, Numbers, Parts
  <2>4. QED
    BY <2>1, <2>2, <2>3 DEF Field
<1>4. hostForm[x] = IF x = "http_headers" THEN H!transformToFields(h[x]) ELSE h[x]
  BY <1>3 DEF Untouched, H!formMutationToAPIAdapter
<1>5. x # "mux_settings" => h[x] \in {H!Plain[x], H!Rich[x]}
  BY <1>2, <1>3, HostsAre
<1>6. x \in DOMAIN v
  BY <1>1, PayloadIs
<1>7. H!Stored(v)[x] = CASE x = "alpn" /\ v[x] = H!Empty -> "none"
                         [] x = "weight" /\ v[x] = "undefined" -> "1"
                         [] OTHER -> v[x]
  BY <1>3, <1>6 DEF H!Stored
<1>8. CASE x = "alpn"
  <2>1. h[x] \in {"none", "h2"}
    BY <1>5, <1>8, PlainIs, RichIs
  <2>2. v[x] = h[x] \/ (h[x] = "none" /\ v[x] = H!Empty)
    BY <1>1, <1>4, <1>8, PayloadIs
  <2>3. QED
    BY <1>1, <1>7, <1>8, <2>1, <2>2, EmptyIs
<1>9. CASE x = "weight"
  <2>1. h[x] \in {"1", "5"}
    BY <1>5, <1>9, PlainIs, RichIs
  <2>2. v[x] = h[x]
    BY <1>1, <1>4, <1>9, <2>1, PayloadIs, EmptyIs
  <2>3. QED
    BY <1>1, <1>7, <1>9, <2>1, <2>2
<1>10. CASE x = "fingerprint"
  <2>1. h[x] \in {H!Empty, "chrome"}
    BY <1>5, <1>10, PlainIs, RichIs
  <2>2. v[x] = h[x]
    BY <1>1, <1>4, <1>10, <2>1, PayloadIs, EmptyIs
  <2>3. QED
    BY <1>1, <1>7, <1>10, <2>2
<1>11. CASE x \in Numbers
  <2>1. h[x] \in {"null", "443"}
    BY <1>5, <1>11, PlainIs, RichIs DEF Numbers
  <2>2. x \notin {"http_headers", "alpn", "weight", "fingerprint", "mux_settings"}
    BY <1>11 DEF Numbers
  <2>3. v[x] = h[x]
    BY <1>1, <1>4, <1>11, <2>1, <2>2, PayloadIs, EmptyIs DEF Numbers
  <2>4. QED
    BY <1>1, <1>7, <2>2, <2>3
<1>12. CASE x = "http_headers"
  <2>1. PICK D \in SUBSET {"x"} : IsFiniteSet(D) /\ H!Empty \notin D /\ h[x] \in [D -> H!Texts]
    BY <1>5, <1>12, HeadersAre
  <2>2. H!transformToDictionary(H!transformToFields(h[x])) = h[x]
    BY <2>1, RowsAndBack
  <2>3. v[x] = h[x]
    BY <1>1, <1>4, <1>12, <2>2, PayloadIs
  <2>4. QED
    BY <1>1, <1>7, <1>12, <2>3
<1>13. CASE x = "mux_settings"
  <2>1. h[x] \in {H!Plain[x], H!Rich[x], H!Foreign[x]}
    BY <1>2, <1>3, <1>13, HostsAre
  <2>2. hostForm[x] = h[x] /\ x \in DOMAIN hostForm
    BY <1>4, <1>13 DEF FormTyped
  <2>3. \A m \in h[x] : \A c \in m.mux_cool_settings : c.xudp_proxy_443 # "null"
    BY <1>13, <2>2 DEF H!Valid
  <2>4. H!DefaultedMux(h[x]) = h[x]
    BY <1>13, <2>1, <2>3, MuxStays
  <2>5. v[x] = h[x]
    BY <1>1, <1>13, <2>2, <2>4, PayloadIs
  <2>6. QED
    BY <1>1, <1>7, <1>13, <2>5
<1>14. CASE x \notin {"alpn", "weight", "fingerprint", "http_headers", "mux_settings"} \union Numbers
  <2>1. v[x] = h[x]
    BY <1>1, <1>4, <1>14, PayloadIs DEF Numbers
  <2>2. QED
    BY <1>1, <1>7, <1>14, <2>1
<1>15. QED
  BY <1>8, <1>9, <1>10, <1>11, <1>12, <1>13, <1>14

-----------------------------------------------------------------------------
(* Every step of the dialog of a host keeps its invariant *)

(* The rows of noise that will be sent, and those that are drawn. *)
NoiseTyped ==
  /\ copy \in Seq(NoiseRow) /\ Len(copy) <= MaxNoise
  /\ profile = "general" => Len(hostForm["noise"]) <= MaxNoise
  /\ H!NoiseIsDrawn

HostAfresh == ~hostOpen => section = "none" /\ copy = <<>> /\ touched = {}

HostTyped ==
  /\ hostOpen \in BOOLEAN /\ aliased \in BOOLEAN /\ hostEdits \in 0..MaxHostEdits
  /\ touched \subseteq H!Schema(profile)

HostSent ==
  /\ hostSent = {} \/ \E s \in hostSent : hostSent = {s} /\ s.touched \subseteq DOMAIN s.host
  /\ H!KeepsUntouched /\ H!OnlyTypedIsRefused

HostInv == FormTyped /\ NoiseTyped /\ HostAfresh /\ HostTyped /\ Untouched /\ HostSent

(* A dialog that is not open. *)
LEMMA HostClosed ==
  H!Closed => FormTyped /\ NoiseTyped /\ HostAfresh /\ HostTyped /\ Untouched
<1> SUFFICES ASSUME hostOpen = FALSE, host = {}, profile = "general",
                    hostForm = H!defaultValue("general"), section = "none", copy = <<>>,
                    aliased = FALSE, touched = {}, hostEdits = 0
             PROVE  FormTyped /\ NoiseTyped /\ HostAfresh /\ HostTyped /\ Untouched
  BY DEF H!Closed
<1>1. profile \in H!Profiles
  BY DEF H!Profiles
<1>2. /\ DOMAIN hostForm = H!Schema(profile) /\ FieldsOK(hostForm)
      /\ hostForm["alpn"] # H!Empty /\ Len(hostForm["noise"]) <= MaxNoise
  BY <1>1, DefaultTyped
<1>3. FormTyped
  BY <1>1, <1>2 DEF FormTyped
<1>4. <<>> \in Seq(NoiseRow) /\ Len(<<>>) = 0
  OBVIOUS
<1>5. NoiseTyped
  BY <1>2, <1>4, MutationDialogsAssumption DEF NoiseTyped, H!NoiseIsDrawn, H!In
<1>6. hostEdits \in 0..MaxHostEdits
  BY MutationDialogsAssumption
<1>7. HostTyped
  BY <1>6 DEF HostTyped
<1>8. HostAfresh /\ Untouched
  BY DEF HostAfresh, Untouched
<1>9. QED
  BY <1>3, <1>5, <1>7, <1>8

(* No dialog is open at first. *)
LEMMA HostInit == H!Init => HostInv
<1> SUFFICES ASSUME H!Init PROVE HostInv
  OBVIOUS
<1>1. FormTyped /\ NoiseTyped /\ HostAfresh /\ HostTyped /\ Untouched
  BY HostClosed DEF H!Init
<1>2. HostSent
  BY DEF H!Init, HostSent, H!KeepsUntouched, H!OnlyTypedIsRefused
<1>3. QED
  BY <1>1, <1>2 DEF HostInv

(* The dialog closes. *)
LEMMA HostCloses ==
  ASSUME H!Closes
  PROVE  FormTyped' /\ NoiseTyped' /\ HostAfresh' /\ HostTyped' /\ Untouched'
<1>1. H!Closed'
  BY DEF H!Closes, H!Closed
<1>2. QED
  BY <1>1, HostClosed, PTL

(* It is cancelled. *)
LEMMA CancelKeeps == ASSUME HostInv, H!Cancel PROVE HostInv'
<1>1. H!Closes /\ hostSent' = {}
  BY DEF H!Cancel
<1>2. HostSent'
  BY <1>1 DEF HostSent, H!KeepsUntouched, H!OnlyTypedIsRefused
<1>3. QED
  BY <1>1, <1>2, HostCloses DEF HostInv

(* It is submitted: what is sent is taken, and keeps what was not touched. *)
LEMMA SubmitKeeps == ASSUME HostInv, H!Submit PROVE HostInv'
<1>1. PICK v : v = H!Payload(hostForm)
  OBVIOUS
<1>2. /\ H!Closes /\ H!Valid(hostForm)
      /\ hostSent' = {[of |-> host, touched |-> touched, host |-> v]}
  BY <1>1 DEF H!Submit
<1>3. DOMAIN v = H!Schema(profile)
  BY <1>1, PayloadIs DEF HostInv
<1>4. H!Refuses(v) \subseteq touched \intersect H!FreeTexts
  BY <1>1, <1>2, PayloadTaken DEF HostInv
<1>5. \A h \in host : \A x \in DOMAIN v \ touched : H!Stored(v)[x] = h[x]
  BY <1>1, <1>2, <1>3, PayloadKeeps DEF HostInv
<1>6. touched \subseteq DOMAIN v
  BY <1>3 DEF HostInv, HostTyped
<1>7. PICK s : s = [of |-> host, touched |-> touched, host |-> v]
  OBVIOUS
<1>8. s.of = host /\ s.touched = touched /\ s.host = v /\ hostSent' = {s}
  BY <1>2, <1>7
<1>9. HostSent'
  <2>1. H!KeepsUntouched'
    BY <1>5, <1>8 DEF H!KeepsUntouched
  <2>2. H!OnlyTypedIsRefused'
    BY <1>4, <1>8 DEF H!OnlyTypedIsRefused
  <2>3. QED
    BY <1>6, <1>8, <2>1, <2>2 DEF HostSent
<1>10. QED
  BY <1>2, <1>9, HostCloses DEF HostInv

(* A dialog opens with the form of a host, or with the one of its protocol. *)
LEMMA OpenKeeps ==
  ASSUME HostInv, NEW protocol \in H!Protocols, NEW e,
         e = {} \/ \E h \in H!Hosts(H!useProfileStrategy(protocol)) : e = {h},
         ~hostOpen, H!Open(e, protocol)
  PROVE  HostInv'
<1>1. PICK p : p = H!useProfileStrategy(protocol)
  OBVIOUS
<1>2. p \in H!Profiles
  BY <1>1 DEF H!useProfileStrategy, H!Profiles
<1>3. /\ hostOpen' = TRUE /\ host' = e /\ profile' = p /\ hostSent' = {}
      /\ hostForm' = IF e = {} THEN H!defaultValue(p)
                     ELSE H!formMutationToAPIAdapter(CHOOSE h \in e : TRUE)
      /\ UNCHANGED <<section, copy, aliased, touched, hostEdits>>
  BY <1>1 DEF H!Open
<1>4. section' = "none" /\ copy' = <<>> /\ touched' = {}
  BY <1>3 DEF HostInv, HostAfresh
<1>5. /\ DOMAIN hostForm' = H!Schema(p) \union UNION {DOMAIN h : h \in e}
      /\ FieldsOK(hostForm')
      /\ p = "general" => hostForm'["alpn"] # H!Empty /\ Len(hostForm'["noise"]) <= MaxNoise
      /\ \A h \in e : hostForm' = H!formMutationToAPIAdapter(h)
      /\ e = {} => hostForm' = H!defaultValue(p)
  <2>1. CASE e = {}
    <3>1. hostForm' = H!defaultValue(p)
      BY <1>3, <2>1
    <3>2. QED
      BY <1>2, <2>1, <3>1, DefaultTyped
  <2>2. CASE e # {}
    <3>1. PICK h \in H!Hosts(p) : e = {h}
      BY <1>1, <2>2
    <3>2. (CHOOSE g \in e : TRUE) = h
      BY <3>1
    <3>3. hostForm' = H!formMutationToAPIAdapter(h)
      BY <1>3, <3>1, <3>2
    <3>4. UNION {DOMAIN g : g \in e} = DOMAIN h
      BY <3>1
    <3>5. /\ DOMAIN hostForm' = H!Schema(p) \union {"universal"}
          /\ DOMAIN h = DOMAIN hostForm'
          /\ FieldsOK(hostForm')
          /\ p = "general" => hostForm'["alpn"] # H!Empty /\ Len(hostForm'["noise"]) <= MaxNoise
      BY <1>2, <3>3, LoadedTyped
    <3>6. QED
      BY <3>1, <3>3, <3>4, <3>5
  <2>3. QED
    BY <2>1, <2>2
<1>6. FormTyped'
  BY <1>1, <1>2, <1>3, <1>4, <1>5 DEF FormTyped
<1>7. NoiseTyped'
  <2>1. <<>> \in Seq(NoiseRow) /\ Len(<<>>) = 0
    OBVIOUS
  <2>2. QED
    BY <1>3, <1>4, <1>5, <2>1, MutationDialogsAssumption DEF NoiseTyped, H!NoiseIsDrawn, H!In
<1>8. HostAfresh'
  BY <1>3 DEF HostAfresh
<1>9. HostTyped'
  BY <1>3, <1>4 DEF HostInv, HostTyped
<1>10. Untouched'
  <2>1. /\ host' = e /\ \A h \in e : hostForm' = H!formMutationToAPIAdapter(h)
        /\ profile' = p /\ (e = {} => hostForm' = H!defaultValue(p))
    BY <1>3, <1>5
  <2>2. QED
    BY <2>1 DEF Untouched
<1>11. HostSent'
  BY <1>3 DEF HostSent, H!KeepsUntouched, H!OnlyTypedIsRefused
<1>12. QED
  BY <1>6, <1>7, <1>8, <1>9, <1>10, <1>11 DEF HostInv

(* What was sent stays. *)
LEMMA SentStays == ASSUME HostSent, UNCHANGED hostSent PROVE HostSent'
  BY DEF HostSent, H!KeepsUntouched, H!OnlyTypedIsRefused

(* NoiseField takes its copy as it is drawn. *)
LEMMA ToggleKeeps == ASSUME HostInv, H!ToggleSection PROVE HostInv'
<1>1. PICK s \in H!Sections \union {"none"} :
        /\ hostOpen /\ section' = s
        /\ copy' = IF s = "camouflage" THEN hostForm["noise"] ELSE <<>>
        /\ aliased' = (s = "camouflage")
        /\ UNCHANGED <<hostOpen, host, profile, hostForm, touched, hostEdits, hostSent>>
  BY DEF H!ToggleSection
<1>2. FormTyped'
  BY <1>1 DEF HostInv, FormTyped, H!Sections
<1>3. NoiseTyped'
  <2>1. CASE s = "camouflage"
    <3>1. profile = "general"
      BY <1>1, <2>1 DEF HostInv, FormTyped, H!Sections
    <3>2. "noise" \in H!Schema(profile)
      BY <3>1, SchemaIs DEF H!GeneralSchema
    <3>3. hostForm["noise"] \in Seq(NoiseRow)
      BY <3>2, SchemaValues, ValuesAre DEF HostInv
    <3>4. copy' = hostForm["noise"] /\ UNCHANGED <<hostForm, profile>>
      BY <1>1, <2>1
    <3>5. QED
      BY <3>1, <3>3, <3>4 DEF HostInv, NoiseTyped, H!NoiseIsDrawn
  <2>2. CASE s # "camouflage"
    <3>1. <<>> \in Seq(NoiseRow) /\ Len(<<>>) = 0
      OBVIOUS
    <3>2. copy' = <<>> /\ section' = s /\ UNCHANGED <<hostForm, profile>>
      BY <1>1, <2>2
    <3>3. QED
      BY <2>2, <3>1, <3>2, MutationDialogsAssumption
      DEF HostInv, NoiseTyped, H!NoiseIsDrawn, H!In
  <2>3. QED
    BY <2>1, <2>2
<1>4. HostAfresh'
  BY <1>1 DEF HostAfresh
<1>5. HostTyped'
  <2>1. aliased' \in BOOLEAN
    BY <1>1
  <2>2. QED
    BY <1>1, <2>1 DEF HostInv, HostTyped
<1>6. Untouched'
  BY <1>1 DEF HostInv, Untouched
<1>7. HostSent'
  BY <1>1, SentStays DEF HostInv
<1>8. QED
  BY <1>2, <1>3, <1>4, <1>5, <1>6, <1>7 DEF HostInv

(* An edit sets one field of the form. *)
LEMMA EditsIs ==
  ASSUME HostInv, NEW x \in H!Schema(profile), NEW v \in H!Values(x), x = "alpn" => v # H!Empty,
         H!Edits(x, v)
  PROVE  /\ FormTyped' /\ HostAfresh' /\ Untouched' /\ HostSent'
         /\ hostEdits' \in 0..MaxHostEdits /\ touched' \subseteq H!Schema(profile)'
         /\ UNCHANGED <<hostOpen, profile, section>>
         /\ \A y \in H!Schema(profile) : hostForm'[y] = IF y = x THEN v ELSE hostForm[y]
<1>1. /\ hostOpen /\ hostEdits < MaxHostEdits
      /\ hostForm' = [hostForm EXCEPT ![x] = v]
      /\ touched' = touched \union {x} /\ hostEdits' = hostEdits + 1
      /\ UNCHANGED <<hostOpen, host, profile, section, hostSent>>
  BY DEF H!Edits
<1>2. FormTyped /\ touched \subseteq H!Schema(profile)
  BY DEF HostInv, HostTyped
<1>3. DOMAIN hostForm' = DOMAIN hostForm /\ H!Schema(profile) \subseteq DOMAIN hostForm
  BY <1>1, <1>2 DEF FormTyped
<1>4. \A y \in DOMAIN hostForm : hostForm'[y] = IF y = x THEN v ELSE hostForm[y]
  BY <1>1
<1>5. FieldsOK(hostForm')
  BY <1>2, <1>3, <1>4 DEF FormTyped, FieldsOK
<1>6. profile = "general" => hostForm'["alpn"] # H!Empty
  <2>1. profile = "general" => "alpn" \in DOMAIN hostForm
    BY <1>3, SchemaIs DEF H!GeneralSchema, H!TlsSchema
  <2>2. QED
    BY <1>2, <1>4, <2>1 DEF FormTyped
<1>7. FormTyped'
  BY <1>1, <1>2, <1>3, <1>5, <1>6 DEF FormTyped, H!Sections
<1>8. HostAfresh'
  BY <1>1 DEF HostAfresh
<1>9. Untouched'
  <2>1. \A y \in H!Schema(profile) \ (touched \union {x}) : hostForm'[y] = hostForm[y]
    BY <1>3, <1>4
  <2>2. touched' = touched \union {x} /\ UNCHANGED <<host, profile>>
    BY <1>1
  <2>3. \A y \in H!Schema(profile) \ touched' :
          /\ \A h \in host : hostForm'[y] = H!formMutationToAPIAdapter(h)[y]
          /\ host = {} => hostForm'[y] = H!defaultValue(profile)[y]
    BY <2>1, <2>2 DEF HostInv, Untouched
  <2>4. QED
    BY <2>2, <2>3 DEF Untouched
<1>10. HostSent'
  BY <1>1, SentStays DEF HostInv
<1>11. hostEdits' \in 0..MaxHostEdits
  <2>1. hostEdits \in 0..MaxHostEdits
    BY DEF HostInv, HostTyped
  <2>2. QED
    BY <1>1, <2>1, MutationDialogsAssumption
<1>12. touched' \subseteq H!Schema(profile)'
  BY <1>1, <1>2
<1>13. QED
  BY <1>1, <1>3, <1>4, <1>7, <1>8, <1>9, <1>10, <1>11, <1>12

(* A field outside NoiseField is set. *)
LEMMA SetKeeps == ASSUME HostInv, SetsField PROVE HostInv'
<1>1. PICK x \in H!Schema(profile) \ {"noise"} : \E v \in H!Values(x) :
        (x = "alpn" => v # H!Empty) /\ H!Set(x, v)
  BY DEF SetsField
<1>2. PICK v \in H!Values(x) : (x = "alpn" => v # H!Empty) /\ H!Set(x, v)
  BY <1>1
<1>3. H!Edits(x, v) /\ UNCHANGED <<copy, aliased>>
  BY <1>2 DEF H!Set
<1>4. /\ FormTyped' /\ HostAfresh' /\ Untouched' /\ HostSent'
      /\ hostEdits' \in 0..MaxHostEdits /\ touched' \subseteq H!Schema(profile)'
      /\ UNCHANGED <<hostOpen, profile, section>>
      /\ \A y \in H!Schema(profile) : hostForm'[y] = IF y = x THEN v ELSE hostForm[y]
  BY <1>2, <1>3, EditsIs
<1>5. NoiseTyped'
  <2>1. profile = "general" => hostForm'["noise"] = hostForm["noise"]
    <3>1. profile = "general" => "noise" \in H!Schema(profile)
      BY SchemaIs DEF H!GeneralSchema
    <3>2. QED
      BY <1>4, <3>1
  <2>2. section = "camouflage" => profile = "general"
    BY DEF HostInv, FormTyped, H!Sections
  <2>3. QED
    BY <1>3, <1>4, <2>1, <2>2 DEF HostInv, NoiseTyped, H!NoiseIsDrawn, H!In
<1>6. HostTyped'
  BY <1>3, <1>4 DEF HostInv, HostTyped
<1>7. QED
  BY <1>4, <1>5, <1>6 DEF HostInv

(* Rows are drawn one for each row of the form, also where the copy is another. *)
LEMMA NoiseKeeps ==
  ASSUME HostInv, section = "camouflage", profile = "general", H!NoiseField
  PROVE  HostInv'
<1>1. "noise" \in H!Schema(profile) /\ H!Values("noise") = Seq(NoiseRow)
  BY SchemaIs, ValuesAre DEF H!GeneralSchema
<1>2. PICK old : old = hostForm["noise"]
  OBVIOUS
<1>3. /\ old \in Seq(NoiseRow) /\ copy \in Seq(NoiseRow)
      /\ Len(copy) = Len(old) /\ Len(copy) <= MaxNoise
  <2>1. old \in Seq(NoiseRow)
    BY <1>1, <1>2, SchemaValues DEF HostInv
  <2>2. QED
    BY <1>2, <2>1 DEF HostInv, NoiseTyped, H!NoiseIsDrawn, H!In
<1>4. ASSUME NEW new \in Seq(NoiseRow), Len(new) <= MaxNoise, H!Edits("noise", new),
             copy' \in Seq(NoiseRow), Len(copy') = Len(new), aliased' \in BOOLEAN
      PROVE  HostInv'
  <2>1. /\ FormTyped' /\ HostAfresh' /\ Untouched' /\ HostSent'
        /\ hostEdits' \in 0..MaxHostEdits /\ touched' \subseteq H!Schema(profile)'
        /\ UNCHANGED <<hostOpen, profile, section>>
        /\ \A y \in H!Schema(profile) : hostForm'[y] = IF y = "noise" THEN new ELSE hostForm[y]
    BY <1>1, <1>4, EditsIs
  <2>2. hostForm'["noise"] = new
    BY <1>1, <2>1
  <2>3. NoiseTyped'
    BY <1>4, <2>1, <2>2 DEF NoiseTyped, H!NoiseIsDrawn
  <2>4. HostTyped'
    BY <1>4, <2>1 DEF HostInv, HostTyped
  <2>5. QED
    BY <2>1, <2>3, <2>4 DEF HostInv
<1>5. ASSUME NEW list \in Seq(NoiseRow), Len(list) <= MaxNoise, H!Rewrite(list) PROVE HostInv'
  BY <1>4, <1>5 DEF H!Rewrite
<1>6. CASE H!addForm
  <2>1. H!NoRow \in NoiseRow
    BY DEF H!NoRow, NoiseRow, H!noiseTypes, H!Texts, H!Delays
  <2>2. PICK list : list = Append(copy, H!NoRow)
    OBVIOUS
  <2>3. list \in Seq(NoiseRow) /\ Len(list) = Len(copy) + 1
    BY <1>3, <2>1, <2>2
  <2>4. Len(copy) < MaxNoise /\ H!Rewrite(list)
    BY <1>6, <2>2 DEF H!addForm
  <2>5. Len(list) <= MaxNoise
    BY <1>3, <2>3, <2>4, MutationDialogsAssumption
  <2>6. QED
    BY <1>5, <2>3, <2>4, <2>5
<1>7. ASSUME NEW i \in DOMAIN copy, H!removeForm(i) PROVE HostInv'
  <2>1. PICK list : list = H!RemoveAt(copy, i)
    OBVIOUS
  <2>2. list \in Seq(NoiseRow) /\ Len(list) = Len(copy) - 1
    BY <1>3, <1>7, <2>1, RemoveAtIs
  <2>3. Len(list) <= MaxNoise
    BY <1>3, <2>2, MutationDialogsAssumption
  <2>4. QED
    BY <1>5, <1>7, <2>1, <2>2, <2>3 DEF H!removeForm
<1>8. ASSUME NEW i \in DOMAIN copy, H!TypeRow(i) PROVE HostInv'
  <2>1. i \in DOMAIN old /\ old[i] \in NoiseRow
    BY <1>3, <1>8
  <2>2. PICK r : /\ \/ \E v \in H!noiseTypes : r = [old[i] EXCEPT !.type = v]
                    \/ \E v \in H!Texts : r = [old[i] EXCEPT !.packet = v]
                    \/ \E v \in H!Delays : r = [old[i] EXCEPT !.delay = v]
                 /\ H!Edits("noise", [old EXCEPT ![i] = r])
                 /\ copy' = IF aliased THEN [copy EXCEPT ![i] = r] ELSE copy
                 /\ UNCHANGED aliased
    BY <1>2, <1>8 DEF H!TypeRow
  <2>3. r \in NoiseRow
    BY <2>1, <2>2 DEF NoiseRow
  <2>4. [old EXCEPT ![i] = r] \in Seq(NoiseRow) /\ Len([old EXCEPT ![i] = r]) = Len(old)
    BY <1>3, <2>1, <2>3, ReplacedRow
  <2>5. [copy EXCEPT ![i] = r] \in Seq(NoiseRow) /\ Len([copy EXCEPT ![i] = r]) = Len(copy)
    BY <1>3, <1>8, <2>3, ReplacedRow
  <2>6. copy' \in Seq(NoiseRow) /\ Len(copy') = Len(old)
    <3>1. CASE aliased
      BY <1>3, <2>2, <2>5, <3>1
    <3>2. CASE ~aliased
      BY <1>3, <2>2, <3>2
    <3>3. QED
      BY <3>1, <3>2
  <2>7. aliased' \in BOOLEAN
    BY <2>2 DEF HostInv, HostTyped
  <2>8. PICK new : new = [old EXCEPT ![i] = r]
    OBVIOUS
  <2>9. new \in Seq(NoiseRow) /\ Len(new) = Len(old) /\ Len(old) <= MaxNoise
    BY <1>3, <2>4, <2>8
  <2>10. QED
    BY <1>4, <2>2, <2>6, <2>7, <2>8, <2>9
<1>9. QED
  BY <1>6, <1>7, <1>8 DEF H!NoiseField

(* Every step of the dialog of a host. *)
LEMMA HostStep == ASSUME HostInv, H!Next PROVE HostInv'
<1>1. CASE H!Opens
  BY <1>1, OpenKeeps DEF H!Opens
<1>2. CASE H!ToggleSection
  BY <1>2, ToggleKeeps
<1>3. CASE H!Edit
  <2>1. FormTyped
    BY DEF HostInv
  <2>2. QED
    BY <1>3, <2>1, EditSets, SetKeeps, NoiseKeeps
<1>4. CASE H!Cancel
  BY <1>4, CancelKeeps
<1>5. CASE H!Submit
  BY <1>5, SubmitKeeps
<1>6. QED
  BY <1>1, <1>2, <1>3, <1>4, <1>5 DEF H!Next

-----------------------------------------------------------------------------
(* The dialogs together *)

DialogsInv == IInv /\ HostInv

(* The dialog that is not open is left alone. *)
LEMMA HostStays == ASSUME HostInv, UNCHANGED hostVars PROVE HostInv'
<1>1. UNCHANGED <<hostOpen, host, profile, hostForm, section, copy, aliased, touched, hostEdits,
                  hostSent>>
  BY DEF hostVars
<1>2. HostSent'
  BY <1>1, SentStays DEF HostInv
<1>3. FormTyped'
  BY <1>1 DEF HostInv, FormTyped, H!Sections
<1>4. NoiseTyped'
  BY <1>1 DEF HostInv, NoiseTyped, H!NoiseIsDrawn, H!In
<1>5. HostAfresh' /\ HostTyped' /\ Untouched'
  BY <1>1 DEF HostInv, HostAfresh, HostTyped, Untouched
<1>6. QED
  BY <1>2, <1>3, <1>4, <1>5 DEF HostInv

(* What is forgotten is what was sent. *)
LEMMA ForgetsKeeps == ASSUME DialogsInv, Forgets PROVE DialogsInv'
<1>1. /\ ~open /\ sent' = {} /\ hostSent' = {}
      /\ UNCHANGED <<open, entity, form, filled, seen, servers, loads, loading, rows, chosen,
                     edits, syncs>>
      /\ UNCHANGED <<hostOpen, host, profile, hostForm, section, copy, aliased, touched,
                     hostEdits>>
  BY DEF Forgets, local
<1>2. HostInv'
  <2>1. HostSent'
    BY <1>1 DEF HostSent, H!KeepsUntouched, H!OnlyTypedIsRefused
  <2>2. FormTyped'
    BY <1>1 DEF DialogsInv, HostInv, FormTyped, H!Sections
  <2>3. NoiseTyped'
    BY <1>1 DEF DialogsInv, HostInv, NoiseTyped, H!NoiseIsDrawn, H!In
  <2>4. HostAfresh' /\ HostTyped' /\ Untouched'
    BY <1>1 DEF DialogsInv, HostInv, HostAfresh, HostTyped, Untouched
  <2>5. QED
    BY <2>1, <2>2, <2>3, <2>4 DEF HostInv
<1>3. IInv'
  <2>1. ValuesTyped /\ ListsTyped /\ CountsTyped
    BY TypedParts DEF DialogsInv, IInv
  <2>2. ValuesTyped' /\ ListsTyped' /\ CountsTyped'
    BY <1>1, <2>1 DEF ValuesTyped, ListsTyped, CountsTyped
  <2>3. Typed' <=> ValuesTyped' /\ ListsTyped' /\ CountsTyped'
    BY TypedParts, PTL
  <2>4. Afresh' /\ Drawn' /\ SentAgrees'
    BY <1>1 DEF DialogsInv, IInv, Afresh, Drawn, BridgeDrawn, SelectionDrawn, ServersDrawn,
                SentAgrees
  <2>5. QED
    BY <2>2, <2>3, <2>4 DEF IInv
<1>4. QED
  BY <1>2, <1>3 DEF DialogsInv

(* Every step of the dialogs. *)
LEMMA DialogsStep == DialogsInv /\ [DialogsNext]_dialogVars => DialogsInv'
<1> SUFFICES ASSUME DialogsInv, [DialogsNext]_dialogVars PROVE DialogsInv'
  OBVIOUS
<1>1. IInv /\ HostInv
  BY DEF DialogsInv
<1>2. CASE PoolDialog
  BY <1>1, <1>2, StepInv, HostStays DEF PoolDialog, DialogsInv
<1>3. CASE HostDialog
  BY <1>1, <1>3, StepInv, HostStep DEF HostDialog, DialogsInv
<1>4. CASE Forgets
  BY <1>4, ForgetsKeeps
<1>5. CASE UNCHANGED dialogVars
  BY <1>1, <1>5, StepInv, HostStays DEF dialogVars, DialogsInv
<1>6. QED
  BY <1>2, <1>3, <1>4, <1>5 DEF DialogsNext

(* The invariant has the types. *)
LEMMA HostTypes == HostInv => H!TypeOK
<1> SUFFICES ASSUME HostInv PROVE H!TypeOK
  OBVIOUS
<1>1. copy \in H!Values("noise")
  BY ValuesAre DEF HostInv, NoiseTyped
<1>2. touched \subseteq DOMAIN hostForm
  BY DEF HostInv, HostTyped, FormTyped
<1>3. \A x \in DOMAIN hostForm : hostForm[x] \in H!Values(x)
  BY DEF HostInv, FormTyped, FieldsOK
<1>4. QED
  BY <1>1, <1>2, <1>3, Zenon DEF HostInv, FormTyped, NoiseTyped, HostTyped, HostSent, H!TypeOK

-----------------------------------------------------------------------------
(* The theorems of the dialogs *)

(* One dialog is open at a time, and what is known of each is kept by the other. *)
THEOREM DialogsInductive == DialogsSpec => []DialogsInv
<1>1. DialogsInit => DialogsInv
  BY InitInv, HostInit DEF DialogsInit, DialogsInv
<1>2. QED
  BY <1>1, DialogsStep, PTL DEF DialogsSpec

(* The values of both forms keep their types: a field of a host is always one that
   its schema or its host has, with a value that is known for it. *)
THEOREM DialogsTypeCorrect == DialogsSpec => []DialogsTypeOK
<1>1. DialogsInv => DialogsTypeOK
  BY HostTypes DEF DialogsInv, IInv, Typed, DialogsTypeOK
<1>2. QED
  BY <1>1, DialogsInductive, PTL

(* In the dialogs together, too, what a subscription sends agrees with itself. *)
THEOREM DialogsSendAgrees == DialogsSpec => []SentAgrees
<1>1. DialogsInv => SentAgrees
  BY DEF DialogsInv, IInv
<1>2. QED
  BY <1>1, DialogsInductive, PTL

(* In each profile, with any number of edits, rows of noise and headers, and chained
   hosts: what was not touched of a host is stored again as it was, the rows of noise
   that are sent are drawn, and if the panel refuses what is sent, it is for one of
   the texts without a pattern in the dialog, which the administrator typed. *)
THEOREM HostAlwaysKept == DialogsSpec => []HostIsKept
<1>1. DialogsInv => HostIsKept
  BY DEF DialogsInv, HostInv, NoiseTyped, HostSent, HostIsKept
<1>2. QED
  BY <1>1, DialogsInductive, PTL

=============================================================================
