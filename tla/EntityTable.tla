----------------------------- MODULE EntityTable -----------------------------
(***************************************************************************)
(* The tables of the dashboard (libs/entity-table and the modules' tables):*)
(* what a table asks the server for, how its pages, its search, its filter *)
(* and its sorting move, what the cache of TanStack Query shows meanwhile, *)
(* and how the ticks of a selectable table become the list that is saved.  *)
(*                                                                         *)
(* A step of the user is a click, whose whole handler, with the render and *)
(* the effects that follow it, is one action.  Requests are sent, answered *)
(* and received in steps of their own.                                     *)
(***************************************************************************)
EXTENDS Integers, FiniteSets, SequencesExt

CONSTANTS
    Entities,     \* ids; a larger id was created later
    Matching,     \* the entities that the one search keyword finds
    Owned,        \* the entities that the one option of the filter leaves
    Sizes,        \* rows per page the user may choose
    DefaultSize,  \* the default of useLocalStorage, 10 in the code
    TableNames,   \* the tables the user may open
    Populations,  \* what the server may have when the table is opened
    MaxPicked,    \* bound on the entities the parent entity starts with
    MaxSteps      \* bound on the user's steps, for each table

ASSUME EntityTableAssumption ==
    /\ Entities \subseteq Nat /\ IsFiniteSet(Entities)
    /\ Matching \subseteq Entities /\ Owned \subseteq Entities
    /\ Sizes \subseteq Nat \ {0} /\ DefaultSize \in Sizes
    /\ Populations \subseteq SUBSET Entities
    /\ MaxPicked \in Nat /\ MaxSteps \in [TableNames -> Nat]

VARIABLES
    table,          \* the table that is open
    db,             \* the entities the server has
    page, size,     \* usePagination
    stored,         \* the rows per page kept in localStorage
    keyword,        \* what is typed in TableSearch
    primaryFilter,  \* what usePrimaryFiltering has of it
    filter,         \* useFilters: whether the option is picked
    sort,           \* useSorting: a sequence of at most one column
    inbound,        \* the entity selected in the sidebar
    cache,          \* query key -> data, for the keys fetched so far
    flight,         \* query key -> request under way
    failed,         \* keys whose last fetch failed
    blind,          \* history: see RowsAreTheAnswer
    mutations,      \* changes under way
    selectedRow,    \* RowSelectionState: index of a row -> whether it is ticked
    selectedEntity, \* the entities those ticks stand for
    existing,       \* existingEntityIds, from the parent entity as loaded
    clicked,        \* history: the rows clicked since their ticks were set
    saved,          \* what the server has of it
    parentStale,    \* the parent entity is fetched again
    steps

place == <<page, size, stored, keyword, primaryFilter, filter, sort, inbound>>
requests == <<cache, flight, failed, blind>>
ticks == <<selectedRow, selectedEntity, existing, clicked>>
server == <<db, mutations, saved, parentStale>>
vars == <<table, place, requests, ticks, server, steps>>

-----------------------------------------------------------------------------
(* The columns of the tables: those a header menu sorts by, and the ones   *)
(* with a filter.                                                          *)

usersColumns(isSudo) ==
    [sorts |-> {"username", "used_traffic", "expire_date"},
     filters |-> IF isSudo THEN {"owner_username"} ELSE {}]
adminsColumns == [sorts |-> {"username", "is_sudo"}, filters |-> {}]
servicesColumns == [sorts |-> {"name", "users", "inbounds"}, filters |-> {}]
userServicesColumns == [sorts |-> {"name", "users", "inbounds"}, filters |-> {}]
serviceInboundsColumns == [sorts |-> {"tag", "protocol", "node"}, filters |-> {}]
serviceUsersColumns ==
    [sorts |-> {"username", "activated", "used_traffic", "expire"}, filters |-> {}]
nodesColumns ==
    [sorts |-> {"name", "status", "address", "usage_coefficient"}, filters |-> {}]
hostsColumns == [sorts |-> {"remark", "address", "port", "chain_ids"}, filters |-> {}]
poolsColumns ==
    [sorts |-> {"name", "category", "type", "routing_mode", "server_count",
                "server_selection_mode", "is_active", "last_sync_at"},
     filters |-> {}]

(* What the fetch functions send for a key.                                *)

Paged(k) == [route |-> k.table, page |-> k.page, size |-> k.size, keyword |-> k.keyword,
             filter |-> k.filter, desc |-> k.desc]
fetchUsers(k) == [Paged(k) EXCEPT !.page = IF @ = 0 THEN 1 ELSE @]
fetchAdmins(k) == Paged(k)
fetchServices(k) == Paged(k)
fetchUserServices(k) == Paged(k)
fetchSelectableServiceInbounds(k) == Paged(k)
fetchServiceUsers(k) == [Paged(k) EXCEPT !.filter = FALSE, !.desc = TRUE]
fetchNodes(k) == Paged(k)
fetchHosts(k) == Paged(k)
fetchPools(k) == Paged(k)

(* The tables: the hook they are built on, their columns, their fetch.     *)

EntityTableOf(columns) == [hook |-> "entity", columns |-> columns]
DoubleEntityTable(columns) == [hook |-> "double", columns |-> columns]
SelectableEntityTable(columns) == [hook |-> "selectable", columns |-> columns]
SidebarEntityTable(columns) == [hook |-> "sidebar", columns |-> columns]

UsersTable(isSudo) == EntityTableOf(usersColumns(isSudo))
AdminsTable == EntityTableOf(adminsColumns)
ServicesTable == EntityTableOf(servicesColumns)
NodesTable == EntityTableOf(nodesColumns)
PoolsTable == EntityTableOf(poolsColumns)
ServicesUsersTable == DoubleEntityTable(serviceUsersColumns)
UserServicesTable == SelectableEntityTable(userServicesColumns)
ServiceInboundsTable == SelectableEntityTable(serviceInboundsColumns)
InboundHostsTable == SidebarEntityTable(hostsColumns)

TableOf ==
    [users |-> UsersTable(FALSE), usersOfAll |-> UsersTable(TRUE),
     admins |-> AdminsTable, services |-> ServicesTable, nodes |-> NodesTable,
     pools |-> PoolsTable, serviceUsers |-> ServicesUsersTable,
     userServices |-> UserServicesTable,
     serviceInbounds |-> ServiceInboundsTable, hosts |-> InboundHostsTable]

RequestOf(k) ==
    CASE k.table \in {"users", "usersOfAll"} -> fetchUsers(k)
      [] k.table = "admins" -> fetchAdmins(k)
      [] k.table = "services" -> fetchServices(k)
      [] k.table = "nodes" -> fetchNodes(k)
      [] k.table = "pools" -> fetchPools(k)
      [] k.table = "serviceUsers" -> fetchServiceUsers(k)
      [] k.table = "userServices" -> fetchUserServices(k)
      [] k.table = "serviceInbounds" -> fetchSelectableServiceInbounds(k)
      [] k.table = "hosts" -> fetchHosts(k)

ASSUME TablesAssumption == TableNames \subseteq DOMAIN TableOf

Selectable == TableOf[table].hook = "selectable"
Columns == TableOf[table].columns

-----------------------------------------------------------------------------
(* The query key.  The first four hooks write sorting[0]?.desc || true,    *)
(* which is true whatever the column is sorted by; the sidebar's does not. *)

SortedBy == IF sort = <<>> THEN "created_at" ELSE sort[1].id
Descending ==
    \/ TableOf[table].hook # "sidebar"
    \/ sort # <<>> /\ sort[1].desc
Key == [table |-> table, page |-> page, size |-> size, keyword |-> primaryFilter,
        filter |-> filter, sortBy |-> SortedBy, desc |-> Descending,
        inbound |-> inbound]

(* The server: a page below 1 is refused (the routes declare ge = 1).  The *)
(* routes of the hosts and of a service's users take no keyword, and that  *)
(* of the pools takes neither page nor search: it answers with all of      *)
(* them.  Only the users' takes an order, and in this model each of its    *)
(* columns orders the users as they were created; the others answer in the *)
(* order of the ids.                                                       *)

Searching == {"users", "usersOfAll", "admins", "services", "nodes",
              "userServices", "serviceInbounds"}
Ordering == {"users", "usersOfAll"}

InOrder == [desc \in BOOLEAN |-> [S \in SUBSET Entities |->
    CHOOSE q \in [1 .. Cardinality(S) -> S] :
        \A i, j \in 1 .. Cardinality(S) : i < j => IF desc THEN q[i] > q[j] ELSE q[i] < q[j]]]

Found(d, r) == {x \in d : /\ r.keyword /\ r.route \in Searching => x \in Matching
                          /\ r.filter => x \in Owned}
Ordered(d, r) == InOrder[r.desc /\ r.route \in Ordering][Found(d, r)]
PageOf(q, p, n) == SubSeq(q, (p - 1) * n + 1, Min({p * n, Len(q)}))
Ceiling(n, d) == (n + d - 1) \div d
Refused == [refused |-> TRUE, entities |-> <<>>, pageCount |-> 0]

Answer(d, r) ==
    CASE r.route = "pools" -> [refused |-> FALSE, pageCount |-> 1,
                               entities |-> InOrder[FALSE][d]]
      [] r.route # "pools" /\ r.page < 1 -> Refused
      [] OTHER -> [refused |-> FALSE,
                   entities |-> PageOf(Ordered(d, r), r.page, r.size),
                   pageCount |-> Ceiling(Cardinality(Found(d, r)), r.size)]

(* useQuery.  A key that was never fetched starts with the initial data    *)
(* and, as nothing is ever fresh, every key that comes into view is        *)
(* fetched, unless a fetch of it is still under way.                       *)

initialData == [refused |-> FALSE, entities |-> <<>>, pageCount |-> 1]
DataOf(k, c) == IF k \in DOMAIN c THEN c[k] ELSE initialData
data == DataOf(Key, cache)
isFetching == Key \in DOMAIN flight
Sent == [stage |-> "sent", answer |-> initialData]
WithFlight(k, f) == [x \in DOMAIN flight \cup {k} |-> IF x = k THEN f ELSE flight[x]]
WithoutFlight(k) == [x \in DOMAIN flight \ {k} |-> flight[x]]

(* EntityDataTable: skeletons while fetching, otherwise the page, which    *)
(* the client sorts once more.                                             *)

Rows ==
    IF isFetching THEN <<>>
    ELSE IF sort = <<>> THEN data.entities
    ELSE InOrder[sort[1].desc][ToSet(data.entities)]

-----------------------------------------------------------------------------
(* The effects of SelectableEntityTable: for the rows of new data the      *)
(* ticks are set again from existingEntityIds; then the entities are       *)
(* looked up by the indexes of the ticks.                                  *)

\* Mutant: a row that is not the parent's keeps the tick its index had.
TicksAfter_OnlySets(rows, ids) ==
    [i \in DOMAIN selectedRow \cup 0 .. Len(rows) - 1 |->
        \/ i < Len(rows) /\ rows[i + 1] \in ids
        \/ i \in DOMAIN selectedRow /\ selectedRow[i]]

TicksAfter(rows, ids) ==
    [i \in DOMAIN selectedRow \cup 0 .. Len(rows) - 1 |->
        IF i < Len(rows) THEN rows[i + 1] \in ids ELSE selectedRow[i]]
EntitiesTicked(ts, rows) ==
    {rows[i + 1] : i \in {j \in DOMAIN ts : ts[j] /\ j < Len(rows)}}
\* Mutant: the indexes are kept instead of the entities.
Select_Indexes(ts, rows) ==
    /\ selectedRow' = ts
    /\ selectedEntity' = {i \in DOMAIN ts : ts[i]}

Select(ts, rows) ==
    /\ selectedRow' = ts
    /\ selectedEntity' = EntitiesTicked(ts, rows)
NewData(rows, ids) ==
    IF Selectable THEN Select(TicksAfter(rows, ids), rows) /\ clicked' = {}
    ELSE UNCHANGED <<selectedRow, selectedEntity, clicked>>

(* What the render after a step of the user does: another key comes into   *)
(* view, with what the cache has of it.                                    *)

\* Mutant: the effects do not run when another page comes into view.
KeyChanges_NoEffects ==
    /\ IF Key' \in DOMAIN flight THEN UNCHANGED <<flight, blind>>
       ELSE flight' = WithFlight(Key', Sent) /\ blind' = blind \ {Key'}
    /\ UNCHANGED <<selectedRow, selectedEntity, clicked>>

KeyChanges ==
    IF Key' = Key THEN UNCHANGED <<flight, blind, selectedRow, selectedEntity, clicked>>
    ELSE /\ flight' = IF Key' \in DOMAIN flight THEN flight ELSE WithFlight(Key', Sent)
         /\ blind' = IF Key' \in DOMAIN flight THEN blind ELSE blind \ {Key'}
         /\ NewData(DataOf(Key', cache).entities, existing)

UserStep == steps < MaxSteps[table] /\ steps' = steps + 1
Rerender ==
    /\ UNCHANGED <<table, stored, cache, failed, existing, server>>
    /\ KeyChanges

-----------------------------------------------------------------------------
(* Pages.  useEntityTable gives the table pageIndex - 1 of pageCount + 1   *)
(* pages, but the updates act on the state, which counts from 1.           *)

\* Mutant: the count of the server, without the extra page.
getPageCount_Raw == IF data.pageCount = 0 THEN 1 ELSE data.pageCount

getPageCount == data.pageCount + 1
ClampedTo(i) == IF i > getPageCount - 1 THEN getPageCount - 1 ELSE IF i < 0 THEN 0 ELSE i
getCanPreviousPage == page - 1 > 0
getCanNextPage == page - 1 < getPageCount - 1

SetPage(i) ==
    /\ page' = ClampedTo(i)
    /\ UNCHANGED <<size, keyword, primaryFilter, filter, sort, inbound>>
    /\ Rerender

FirstPage == UserStep /\ getCanPreviousPage /\ SetPage(1)
PreviousPage == UserStep /\ getCanPreviousPage /\ SetPage(page - 1)
NextPage == UserStep /\ getCanNextPage /\ SetPage(page + 1)
LastPage == UserStep /\ getCanNextPage /\ SetPage(getPageCount - 1)

(* The rows per page: setPageSize, then setPageIndex(1), then localStorage. *)
SetPageSize(n) ==
    /\ UserStep /\ n # size
    /\ size' = n /\ page' = ClampedTo(1) /\ stored' = n
    /\ UNCHANGED <<table, keyword, primaryFilter, filter, sort, inbound,
                   cache, failed, existing, server>>
    /\ KeyChanges

(* The search keeps the page it is on.                                     *)
TypeKeyword ==
    /\ UserStep
    /\ keyword' = ~keyword
    /\ UNCHANGED <<table, page, size, stored, primaryFilter, filter, sort, inbound,
                   requests, ticks, server>>

(* useDebouncedCallback: 500 ms after the last keystroke.                  *)
\* Mutant: the effect does not depend on the keyword once it was set.
Debounce_Once ==
    /\ primaryFilter # keyword /\ keyword
    /\ primaryFilter' = keyword
    /\ UNCHANGED <<page, size, keyword, filter, sort, inbound, steps>>
    /\ Rerender

Debounce ==
    /\ primaryFilter # keyword
    /\ primaryFilter' = keyword
    /\ UNCHANGED <<page, size, keyword, filter, sort, inbound, steps>>
    /\ Rerender

(* The filter of a column; on a narrow screen the drawer keeps the page,   *)
(* and has no button that clears.                                          *)
PickFilter(isDesktop) ==
    /\ UserStep /\ Columns.filters # {} /\ ~filter
    /\ filter' = TRUE
    /\ page' = IF isDesktop THEN ClampedTo(1) ELSE page
    /\ UNCHANGED <<size, keyword, primaryFilter, sort, inbound>>
    /\ Rerender

handleClearingFilter ==
    /\ UserStep /\ Columns.filters # {} /\ filter
    /\ filter' = FALSE /\ page' = ClampedTo(1)
    /\ UNCHANGED <<size, keyword, primaryFilter, sort, inbound>>
    /\ Rerender

(* DataTableColumnHeader.                                                  *)
ToggleSorting(column, desc) ==
    /\ UserStep /\ column \in Columns.sorts
    /\ sort' = <<[id |-> column, desc |-> desc]>>
    /\ UNCHANGED <<page, size, keyword, primaryFilter, filter, inbound>>
    /\ Rerender

(* SidebarEntitySelection selects an inbound (0 is none) and keeps the page. *)
setSidebarEntityId(i) ==
    /\ UserStep /\ TableOf[table].hook = "sidebar" /\ inbound # i
    /\ inbound' = i
    /\ UNCHANGED <<page, size, keyword, primaryFilter, filter, sort>>
    /\ Rerender

(* The user leaves the page and comes back: the state of the hooks is new, *)
(* but for localStorage; the cache is kept.                                *)
Reopen ==
    /\ UserStep /\ UNCHANGED table
    /\ page' = 1 /\ size' = stored /\ keyword' = FALSE /\ primaryFilter' = FALSE
    /\ filter' = FALSE /\ sort' = <<>> /\ inbound' = IF inbound = 0 THEN 0 ELSE 1
    /\ existing' = IF Selectable THEN saved ELSE existing
    /\ flight' = IF Key' \in DOMAIN flight THEN flight ELSE WithFlight(Key', Sent)
    /\ blind' = IF Key' \in DOMAIN flight THEN blind ELSE blind \ {Key'}
    /\ LET rows == DataOf(Key', cache).entities IN
       IF Selectable
       THEN /\ Select([i \in existing' \cup 0 .. Len(rows) - 1 |->
                          i >= Len(rows) \/ rows[i + 1] \in existing'], rows)
            /\ clicked' = {}
       ELSE UNCHANGED <<selectedRow, selectedEntity, clicked>>
    /\ parentStale' = FALSE
    /\ UNCHANGED <<stored, cache, failed, db, mutations, saved>>

-----------------------------------------------------------------------------
(* Requests of the current key and of keys that were left.                 *)

Serve(k) ==
    /\ flight[k].stage = "sent"
    /\ flight' = WithFlight(k, [stage |-> "answered", answer |-> Answer(db, RequestOf(k))])
    /\ UNCHANGED <<table, place, cache, failed, blind, ticks, server, steps>>

(* The answer arrives.  Data that equals what the cache has keeps its      *)
(* identity, so that the effects do not run.                               *)
Deliver(k) ==
    /\ flight[k].stage = "answered"
    /\ ~flight[k].answer.refused
    /\ flight' = WithoutFlight(k)
    /\ cache' = [x \in DOMAIN cache \cup {k} |-> IF x = k THEN flight[k].answer ELSE cache[x]]
    /\ failed' = failed \ {k}
    /\ IF k = Key /\ flight[k].answer # data
       THEN NewData(flight[k].answer.entities, existing)
       ELSE UNCHANGED <<selectedRow, selectedEntity, clicked>>
    /\ UNCHANGED <<table, place, blind, existing, server, steps>>

(* The server refuses the page, or no answer comes, also to the retries.   *)
FetchFails(k) ==
    /\ flight[k].stage = "answered"
    /\ flight' = WithoutFlight(k)
    /\ failed' = failed \cup {k}
    /\ UNCHANGED <<table, place, cache, blind, ticks, server, steps>>

(* refetchOnWindowFocus; a fetch under way is not started twice.           *)
WindowFocus ==
    /\ UserStep /\ ~isFetching
    /\ flight' = WithFlight(Key, Sent)
    /\ blind' = blind \ {Key}
    /\ UNCHANGED <<table, place, cache, failed, ticks, server>>

-----------------------------------------------------------------------------
(* Changes made in the dialogs over the table: their mutations are sent,   *)
(* carried out, and answered; onSuccess then invalidates the queries under *)
(* the table's key.                                                        *)

Change(op, ids) == [op |-> op, ids |-> ids, done |-> FALSE]

CreateEntity(x) ==
    /\ UserStep /\ ~Selectable /\ x \notin db
    /\ mutations' = mutations \cup {Change("create", {x})}
    /\ UNCHANGED <<table, place, requests, ticks, db, saved, parentStale>>

DeleteEntity(x) ==
    /\ UserStep /\ ~Selectable /\ x \in ToSet(Rows)
    /\ mutations' = mutations \cup {Change("delete", {x})}
    /\ UNCHANGED <<table, place, requests, ticks, db, saved, parentStale>>

ServerChanges(m) ==
    /\ ~m.done
    /\ mutations' = (mutations \ {m}) \cup {[m EXCEPT !.done = TRUE]}
    /\ db' = CASE m.op = "create" -> db \cup m.ids
               [] m.op = "delete" -> db \ m.ids
               [] m.op = "apply" -> db
    /\ saved' = IF m.op = "apply" THEN m.ids ELSE saved
    /\ UNCHANGED <<table, place, requests, ticks, parentStale, steps>>

(* invalidateQueries: the fetch of the key in view is cancelled and sent   *)
(* again; the fetch of a key that is not in view goes on.                  *)
\* Mutant: a fetch that is under way is trusted instead of sent again.
MutationSucceeds_NoCancel(m) ==
    /\ m.done
    /\ mutations' = mutations \ {m}
    /\ flight' = IF isFetching THEN flight ELSE WithFlight(Key, Sent)
    /\ blind' = (blind \cup DOMAIN flight) \ {Key}
    /\ parentStale' = (parentStale \/ (m.op = "apply" /\ table = "userServices"))
    /\ UNCHANGED <<table, place, cache, failed, ticks, db, saved, steps>>

MutationSucceeds(m) ==
    /\ m.done
    /\ mutations' = mutations \ {m}
    /\ flight' = WithFlight(Key, Sent)
    /\ blind' = (blind \cup DOMAIN flight) \ {Key}
    /\ parentStale' = (parentStale \/ (m.op = "apply" /\ table = "userServices"))
    /\ UNCHANGED <<table, place, cache, failed, ticks, db, saved, steps>>

(* The server refuses the change, and nothing is invalidated.              *)
MutationFails(m) ==
    /\ ~m.done
    /\ mutations' = mutations \ {m}
    /\ UNCHANGED <<table, place, requests, ticks, db, saved, parentStale, steps>>

(* The user of UserServicesTable comes from a query under "users", and is  *)
(* fetched again; the service of ServiceInboundsTable is a snapshot.       *)
ParentRefetched ==
    /\ parentStale /\ parentStale' = FALSE
    /\ existing' = saved
    /\ IF existing' = existing THEN UNCHANGED <<selectedRow, selectedEntity, clicked>>
       ELSE NewData(data.entities, existing')
    /\ UNCHANGED <<table, place, requests, db, mutations, saved, steps>>

(* A checkbox of a row: the table deletes the key of a row that is         *)
(* unticked, while the effect above keeps it with the value false.         *)
ToggleSelected(i) ==
    /\ UserStep /\ Selectable /\ ~isFetching /\ i < Len(data.entities)
    /\ Select(IF i \in DOMAIN selectedRow /\ selectedRow[i]
              THEN [j \in DOMAIN selectedRow \ {i} |-> selectedRow[j]]
              ELSE [j \in DOMAIN selectedRow \cup {i} |-> j = i \/ selectedRow[j]],
              data.entities)
    /\ clicked' = clicked \cup {data.entities[i + 1]}
    /\ UNCHANGED <<table, place, requests, existing, server>>

(* The checkbox of the header, which is there also over the skeletons.     *)
getIsAllPageRowsSelected ==
    \A i \in DOMAIN data.entities : i - 1 \in DOMAIN selectedRow /\ selectedRow[i - 1]
toggleAllPageRowsSelected ==
    /\ UserStep /\ Selectable /\ data.entities # <<>>
    /\ LET shown == 0 .. Len(data.entities) - 1 IN
       Select(IF getIsAllPageRowsSelected
              THEN [j \in DOMAIN selectedRow \ shown |-> selectedRow[j]]
              ELSE [j \in DOMAIN selectedRow \cup shown |-> j \in shown \/ selectedRow[j]],
              data.entities)
    /\ clicked' = clicked \cup ToSet(data.entities)
    /\ UNCHANGED <<table, place, requests, existing, server>>

(* UserServicesTable disables the button without a selected service;       *)
(* ServiceInboundsTable looks at the keys of selectedRow, ticked or not.   *)
UserServicesDisabled == selectedEntity = {}
ServiceInboundsDisabled == DOMAIN selectedRow = {}
ApplyDisabled ==
    IF table = "userServices" THEN UserServicesDisabled ELSE ServiceInboundsDisabled

handleApply ==
    /\ UserStep /\ Selectable /\ ~ApplyDisabled
    /\ \A m \in mutations : m.op # "apply"
    /\ mutations' = mutations \cup {Change("apply", selectedEntity)}
    /\ UNCHANGED <<table, place, requests, ticks, db, saved, parentStale>>

-----------------------------------------------------------------------------
Init ==
    /\ table \in TableNames
    /\ db \in Populations
    /\ stored = DefaultSize /\ size = stored /\ page = 1
    /\ keyword = FALSE /\ primaryFilter = FALSE /\ filter = FALSE /\ sort = <<>>
    /\ inbound \in IF table = "hosts" THEN {0, 1} ELSE {0}
    /\ cache = <<>> /\ flight = [k \in {Key} |-> Sent] /\ failed = {} /\ blind = {}
    /\ mutations = {} /\ parentStale = FALSE
    /\ saved \in IF Selectable THEN {s \in SUBSET db : Cardinality(s) \in 1 .. MaxPicked}
                ELSE {{}}
    /\ existing = saved /\ selectedRow = [i \in saved |-> TRUE] /\ selectedEntity = {}
    /\ clicked = {}
    /\ steps = 0

Paging ==
    \/ FirstPage \/ PreviousPage \/ NextPage \/ LastPage
    \/ \E n \in Sizes : SetPageSize(n)
Narrowing ==
    \/ TypeKeyword
    \/ \E isDesktop \in BOOLEAN : PickFilter(isDesktop)
    \/ handleClearingFilter
    \/ \E c \in {"username", "name", "tag", "remark"}, d \in BOOLEAN : ToggleSorting(c, d)
    \/ \E i \in {0, 1} : setSidebarEntityId(i)
Changing ==
    \/ \E x \in Entities : CreateEntity(x) \/ DeleteEntity(x)
    \/ \E i \in 0 .. Cardinality(Entities) - 1 : ToggleSelected(i)
    \/ toggleAllPageRowsSelected
    \/ handleApply
Network ==
    \/ \E k \in DOMAIN flight : Serve(k) \/ Deliver(k)
    \/ \E m \in mutations : ServerChanges(m) \/ MutationSucceeds(m)
    \/ ParentRefetched
Failures ==
    \/ \E k \in DOMAIN flight : FetchFails(k)
    \/ \E m \in mutations : MutationFails(m)

Next == Paging \/ Narrowing \/ Changing \/ Reopen \/ WindowFocus \/ Debounce
            \/ Network \/ Failures
Spec == Init /\ [][Next]_vars

(* The timer of the debounce fires, and every request ends.                *)
FairSpec == Spec /\ WF_vars(Debounce) /\ WF_vars(Network \/ Failures)

-----------------------------------------------------------------------------
TypeOK ==
    /\ table \in TableNames /\ db \subseteq Entities
    /\ page \in Nat /\ size \in Sizes /\ stored \in Sizes
    /\ keyword \in BOOLEAN /\ primaryFilter \in BOOLEAN /\ filter \in BOOLEAN
    /\ Len(sort) \in {0, 1} /\ inbound \in {0, 1}
    /\ \A k \in DOMAIN cache : ToSet(cache[k].entities) \subseteq Entities
    /\ \A m \in mutations : m.ids \subseteq Entities
    /\ selectedEntity \subseteq Entities /\ existing \subseteq Entities
    /\ clicked \subseteq Entities /\ saved \subseteq Entities /\ DOMAIN selectedRow \subseteq Nat
    /\ steps \in 0 .. MaxSteps[table]

(* Nothing that concerns the key in view is under way.                     *)
Quiet == ~isFetching /\ mutations = {} /\ Key \notin failed

(* Once everything came to rest the rows are the server's answer to what   *)
(* the table asks, also after changes that overlapped with fetches: a      *)
(* success cancels the older fetch of the key in view (useQuery and the    *)
(* onSuccess handlers).  Keys in blind are left out: their fetch was under *)
(* way, out of view, when a change succeeded, and whoever comes back to    *)
(* them before it ends joins it and is shown the older answer.             *)
RowsAreTheAnswer ==
    Quiet /\ Key \notin blind => data = Answer(db, RequestOf(Key))

(* No entity is out of reach of the buttons: one that is on a later page   *)
(* has an enabled button Next, which does lead on, and one on an earlier   *)
(* page a button Previous (useEntityTable and DataTablePagination: the     *)
(* extra page makes up for the index that counts from 1).                  *)
Position(x) == LET q == Ordered(db, RequestOf(Key)) IN CHOOSE i \in DOMAIN q : q[i] = x
RowsReachable ==
    Quiet /\ Key \notin blind => \A x \in Found(db, RequestOf(Key)) \ ToSet(data.entities) :
        LET p == Ceiling(Position(x), size) IN
        \/ p > page /\ getCanNextPage /\ ClampedTo(page + 1) = page + 1
        \/ p < page /\ getCanPreviousPage /\ ClampedTo(page - 1) \in p .. page - 1

(* What Apply sends are the ticked rows of the page in view, whatever      *)
(* pages, searches and answers came before (the two effects of             *)
(* SelectableEntityTable).                                                 *)
AppliesTheTicks ==
    [][\A m \in mutations' \ mutations : m.op = "apply" /\ ~m.done =>
           m.ids = {data.entities[i] : i \in {j \in DOMAIN data.entities :
                       j - 1 \in DOMAIN selectedRow /\ selectedRow[j - 1]}}]_vars

(* A tick that differs from what the parent entity has was made by a click *)
(* on that very row, since the row came into view: no page, search, answer *)
(* or refetch of the parent hands the tick of one row on to another (the   *)
(* first effect of SelectableEntityTable, which sets ticks by index).      *)
TicksAreOwn ==
    Selectable => \A i \in DOMAIN data.entities :
        (i - 1 \in DOMAIN selectedRow /\ selectedRow[i - 1]) # (data.entities[i] \in existing)
            => data.entities[i] \in clicked

(* Whatever is typed over a table whose route searches, the table ends up  *)
(* with the page that answers what was typed last, of entities that match, *)
(* unless its last fetch failed (TableSearch, useQuery).                   *)
TypedIsShown ==
    table \in Searching =>
        <>[](/\ ~isFetching /\ mutations = {}
             /\ \/ Key \in failed \cup blind
                \/ /\ data = Answer(db, [RequestOf(Key) EXCEPT !.keyword = keyword])
                   /\ keyword => ToSet(data.entities) \subseteq Matching)
=============================================================================
