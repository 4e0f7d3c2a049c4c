------------------------------- MODULE PoolForm -------------------------------
(***************************************************************************)
(* The dialog that creates and edits a subscription of the proxy pool.     *)
(*                                                                         *)
(* Its form is corrected by effects: functions that React runs after it    *)
(* has drawn the dialog, if a value they depend on is not the one of the   *)
(* drawing before.  They see the values that were drawn and set values of  *)
(* the form, which is drawn again.  Meanwhile the servers of the           *)
(* subscription arrive, once or twice, from a panel where they are         *)
(* replaced at any time.                                                   *)
(*                                                                         *)
(* The texts (name, url, naming template), the switch is_active and the    *)
(* bridge_subscription_id touch no other field: of them it matters whether *)
(* name and url are filled.  A type is "subscription" or "link", for       *)
(* vless, vmess and trojan.                                                *)
(***************************************************************************)
EXTENDS Naturals, Sequences

CONSTANTS
  Servers,       \* ids of servers, the panel's rows
  MaxEdits,      \* bound: edits of one form
  MaxSyncs       \* bound: the servers are replaced while a form is open

ASSUME PoolFormAssumption ==
  /\ Servers \subseteq Nat \ {0}
  /\ MaxEdits \in Nat /\ MaxSyncs \in Nat

VARIABLES
  open,        \* the dialog is
  entity,      \* {pool}, as it was loaded for the edition, or {} for a creation
  form,        \* values of the form
  filled,      \* its name and url are not empty
  seen,        \* values and servers of the last drawing, {} before the first
  servers,     \* that the dialog lists
  loads,       \* requests for them: {} until they are served, then {ids}
  loading,     \* serversLoading
  rows,        \* ids the panel has for the subscription
  chosen,      \* the administrator has set a field the selection depends on
  edits, syncs,
  sent         \* {} or {what was submitted}

local == <<form, filled, seen, servers, loads, loading>>
history == <<chosen, edits, syncs, sent>>
vars == <<open, entity, local, rows, history>>

Categories == {"bridge", "external"}
Types == {"link", "subscription"}
RoutingModes == {"direct", "via_node", "both"}
SelectionModes == {"all", "manual", "selected"}

(* A subscription; 0 is null. *)
Pool == [category : Categories, type : Types, routing_mode : RoutingModes,
         server_selection_mode : SelectionModes,
         preferred_bridge_server_id : Servers \union {0},
         selected_server_ids : SUBSET Servers]

(* What the panel may have stored. *)
StoredPools ==
  {p \in Pool : /\ p.category = "bridge" => /\ p.routing_mode = "via_node"
                                            /\ p.server_selection_mode = "all"
                /\ p.server_selection_mode # "selected" => p.selected_server_ids = {}}

defaultValue ==
  [category |-> "bridge", type |-> "link", routing_mode |-> "via_node",
   server_selection_mode |-> "all", preferred_bridge_server_id |-> 0,
   selected_server_ids |-> {}]

Closed ==
  /\ open = FALSE /\ entity = {} /\ form = defaultValue /\ filled = FALSE
  /\ seen = {} /\ servers = {} /\ loads = <<>> /\ loading = FALSE
  /\ rows = {} /\ chosen = FALSE /\ edits = 0 /\ syncs = 0

Init == Closed /\ sent = {}

-----------------------------------------------------------------------------
(* The effects, in the order they are written.  d is what was drawn. *)

Drawing == [form |-> form, servers |-> servers]
Settled == seen = {Drawing}

(* One of the fields was not drawn the same before. *)
Changed(d, fields) == \A before \in seen : \E x \in fields : before.form[x] # d.form[x]
ServersChanged(d) == \A before \in seen : before.servers # d.servers

BridgeFields == {"category", "routing_mode", "server_selection_mode", "selected_server_ids"}

(* Mutant: it normalizes the mode and leaves the selection. *)
NormalizesBridge_ModeOnly(d, f) ==
  IF d.form.category = "bridge" /\ Changed(d, BridgeFields)
  THEN [f EXCEPT !.routing_mode = "via_node"] ELSE f

(* A bridge is reached via nodes and selects nothing. *)
NormalizesBridge(d, f) ==
  IF d.form.category = "bridge" /\ Changed(d, BridgeFields)
  THEN [f EXCEPT !.routing_mode = "via_node", !.server_selection_mode = "all",
                 !.selected_server_ids = {}]
  ELSE f

(* Only the mode "selected" has a selection. *)
ClearsSelection(d, f) ==
  IF d.form.server_selection_mode # "selected"
     /\ Changed(d, {"server_selection_mode", "selected_server_ids"})
  THEN [f EXCEPT !.selected_server_ids = {}] ELSE f

(* Mutant: an emptied selection is filled again with what was loaded. *)
DropsUnlisted_Restores(d, f) ==
  LET old == d.form.selected_server_ids IN
  IF ServersChanged(d) \/ Changed(d, {"selected_server_ids"})
  THEN [f EXCEPT !.preferred_bridge_server_id = IF @ \in d.servers THEN @ ELSE 0,
                 !.selected_server_ids =
                    IF old = {} THEN UNION {p.selected_server_ids : p \in entity}
                    ELSE IF old \subseteq d.servers THEN @ ELSE old \intersect d.servers]
  ELSE f

(* What is not among the servers is dropped. *)
DropsUnlisted(d, f) ==
  LET old == d.form.selected_server_ids IN
  IF ServersChanged(d) \/ Changed(d, {"selected_server_ids"})
  THEN [f EXCEPT !.preferred_bridge_server_id = IF @ \in d.servers THEN @ ELSE 0,
                 !.selected_server_ids =
                    IF old \subseteq d.servers THEN @ ELSE old \intersect d.servers]
  ELSE f

(* The servers are loaded as the dialog opens and for each other category; of
   nothing that is yet to be created there are none. *)
LoadsServers(d) ==
  IF ~Changed(d, {"category"}) THEN UNCHANGED <<servers, loads, loading>>
  ELSE IF entity = {} THEN servers' = {} /\ UNCHANGED <<loads, loading>>
  ELSE loads' = Append(loads, {}) /\ loading' = TRUE /\ UNCHANGED servers

(* The dialog is drawn, and the effects run. *)
Render ==
  /\ open /\ ~Settled
  /\ LET d == Drawing IN
     /\ form' = DropsUnlisted(d, ClearsSelection(d, NormalizesBridge(d, form)))
     /\ LoadsServers(d)
     /\ seen' = {d}
  /\ UNCHANGED <<open, entity, filled, rows, history>>

-----------------------------------------------------------------------------
(* The administrator.  A click finds the effects of the drawing it was made on
   done, as React sees to. *)

(* The dialog comes with the values of the entity, and resets the form to them. *)
Open(e, r) ==
  /\ ~open
  /\ open' = TRUE /\ entity' = e /\ rows' = r
  /\ form' = IF e = {} THEN defaultValue ELSE CHOOSE p \in e : TRUE
  /\ filled' = (e # {})
  /\ sent' = {}
  /\ UNCHANGED <<seen, servers, loads, loading, chosen, edits, syncs>>

SelectionFields == {"category", "server_selection_mode", "selected_server_ids"}

Editable == open /\ Settled /\ edits < MaxEdits

Set(x, v) ==
  /\ form[x] # v
  /\ form' = [form EXCEPT ![x] = v]
  /\ chosen' = (chosen \/ x \in SelectionFields)
  /\ edits' = edits + 1
  /\ UNCHANGED <<open, entity, filled, seen, servers, loads, loading, rows,
                 syncs, sent>>

isExternalSubscription == form.category = "external" /\ form.type = "subscription"

TypeText ==
  /\ filled' = ~filled
  /\ edits' = edits + 1
  /\ UNCHANGED <<open, entity, form, seen, servers, loads, loading, rows,
                 chosen, syncs, sent>>

PickType == \E t \in Types : Set("type", t)
PickCategory == \E c \in Categories : Set("category", c)
PickRoutingMode ==
  \E m \in (IF form.category = "bridge" THEN {"via_node"} ELSE RoutingModes) :
    Set("routing_mode", m)
PickSelectionMode ==
  isExternalSubscription /\ \E m \in SelectionModes : Set("server_selection_mode", m)

(* Mutant: any server may be typed. *)
PickPreferred_Any ==
  /\ entity # {}
  /\ \E s \in Servers : Set("preferred_bridge_server_id", s)

(* Drawn for a bridge and for the manual choice, once there are servers. *)
PickPreferred ==
  /\ \/ form.category = "bridge"
     \/ isExternalSubscription /\ form.server_selection_mode = "manual"
  /\ entity # {} /\ ~loading
  /\ \E s \in servers \union {0} : Set("preferred_bridge_server_id", s)

ToggleServer(s) ==
  /\ isExternalSubscription /\ form.server_selection_mode = "selected"
  /\ entity # {} /\ ~loading /\ s \in servers
  /\ LET old == form.selected_server_ids IN
     Set("selected_server_ids", IF s \in old THEN old \ {s} ELSE old \union {s})

Edit ==
  /\ Editable
  /\ \/ TypeText \/ PickType \/ PickCategory \/ PickRoutingMode \/ PickSelectionMode
     \/ PickPreferred \/ \E s \in Servers : ToggleServer(s)

Closes ==
  /\ open' = FALSE /\ entity' = {} /\ form' = defaultValue /\ filled' = FALSE
  /\ seen' = {} /\ servers' = {} /\ loads' = <<>> /\ loading' = FALSE
  /\ rows' = {} /\ chosen' = FALSE /\ edits' = 0 /\ syncs' = 0

Cancel == open /\ Settled /\ Closes /\ sent' = {}

(* fetchUpdatePool; a creation sends the form as it is. *)
normalizePoolPayload(f) ==
  IF f.category = "bridge" THEN [f EXCEPT !.routing_mode = "via_node"] ELSE f

(* The name and the URL are required.  The dialog closes whatever comes of it. *)
Submit ==
  /\ open /\ Settled /\ filled
  /\ sent' = {[of |-> entity, listed |-> servers, there |-> rows, chosen |-> chosen,
               pool |-> IF entity = {} THEN form ELSE normalizePoolPayload(form)]}
  /\ Closes

-----------------------------------------------------------------------------
(* The panel *)

(* A synchronisation gives the servers new ids, and some may be gone. *)
Replaced ==
  /\ open /\ entity # {} /\ syncs < MaxSyncs
  /\ rows' \in SUBSET Servers
  /\ syncs' = syncs + 1
  /\ UNCHANGED <<open, entity, local, chosen, edits, sent>>

Serve(i) ==
  /\ loads[i] = {}
  /\ loads' = [loads EXCEPT ![i] = {rows}]
  /\ UNCHANGED <<open, entity, form, filled, seen, servers, loading, rows,
                 history>>

Without(i) == SubSeq(loads, 1, i - 1) \o SubSeq(loads, i + 1, Len(loads))

Listed(i, ids) ==
  /\ servers' = ids
  /\ loads' = Without(i) /\ loading' = FALSE
  /\ UNCHANGED <<open, entity, form, filled, seen, rows, history>>

(* Answers arrive in any order, and the last to arrive is listed; the first one
   ends serversLoading. *)
ServersArrive(i) == \E ids \in loads[i] : Listed(i, ids)
ServersFail(i) == Listed(i, {})

Answers == (\E i \in DOMAIN loads : Serve(i) \/ ServersArrive(i) \/ ServersFail(i))

Opens ==
  \/ Open({}, {})
  \/ \E p \in StoredPools, r \in SUBSET Servers : Open({p}, r)

Next == Opens \/ Render \/ Edit \/ Cancel \/ Submit \/ Replaced \/ Answers
Spec == Init /\ [][Next]_vars

(* React draws what has changed, and the panel answers. *)
Fairness == WF_vars(Render)
FairSpec == Spec /\ Fairness

-----------------------------------------------------------------------------
(* Properties *)

Drawings == [form : Pool, servers : SUBSET Servers]
Payloads == [of : SUBSET StoredPools, listed : SUBSET Servers, there : SUBSET Servers,
             chosen : BOOLEAN, pool : Pool]

TypeOK ==
  /\ open \in BOOLEAN /\ filled \in BOOLEAN /\ loading \in BOOLEAN
  /\ entity = {} \/ \E p \in entity : entity = {p} /\ p \in StoredPools
  /\ form \in Pool
  /\ seen = {} \/ \E d \in seen : seen = {d} /\ d \in Drawings
  /\ servers \in SUBSET Servers /\ rows \in SUBSET Servers
  /\ \A i \in DOMAIN loads : loads[i] = {} \/ \E ids \in SUBSET Servers : loads[i] = {ids}
  /\ chosen \in BOOLEAN
  /\ edits \in 0..MaxEdits /\ syncs \in 0..MaxSyncs
  /\ sent = {} \/ \E s \in sent : sent = {s} /\ s \in Payloads

(* What is submitted agrees with itself, whatever was picked in which order and
   whenever the servers came: a bridge is reached via nodes and selects nothing,
   only the mode "selected" has a selection, and every server it names was in
   the list the dialog showed.  The panel would store it otherwise. *)
SentAgrees ==
  \A s \in sent :
    /\ s.pool.category = "bridge" => /\ s.pool.routing_mode = "via_node"
                                     /\ s.pool.server_selection_mode = "all"
    /\ s.pool.server_selection_mode # "selected" => s.pool.selected_server_ids = {}
    /\ s.pool.selected_server_ids \subseteq s.listed
    /\ s.pool.preferred_bridge_server_id \in s.listed \union {0}

(* The effects come to an end: none undoes for ever what another one did. *)
Settles == []<>(open => Settled)

(* A selection that the administrator did not touch is saved as it was, if the
   panel had its servers all the time. *)
KeepsSelection ==
  \A s \in sent : \A p \in s.of :
    /\ s.pool.server_selection_mode = "selected" /\ p.server_selection_mode = "selected"
    /\ ~s.chosen
    /\ p.selected_server_ids \subseteq s.there
    => s.pool.selected_server_ids = p.selected_server_ids
=============================================================================
