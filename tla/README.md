# Marzneshin, specified and checked

Marzneshin is a panel that manages users of proxy nodes.  A user has a data
limit, an expiry date and services; services have inbounds, and inbounds live
on nodes.  The panel keeps all of this in a database and tells each node which
users it should serve.  This fork adds external subscriptions, whose servers
are fetched from providers and mixed into what users are given.  Administrators
work with a dashboard that runs in their browsers.

This directory holds TLA+ modules of the backend's core (`src/app`) and of the
dashboard (`src/dashboard`), small instances of them for TLC, and proofs for
TLAPS.

## The system

### The panel

One process runs a FastAPI application and an APScheduler on a single asyncio
event loop (`marzneshin.py`).  Routes and jobs written `async def` run on the
loop and are atomic up to their next `await`; routes written `def` run in a
thread pool, each with a database session of its own.

| Component | State | Operations | Talks to |
|---|---|---|---|
| marznode clients `marznode/grpclib.py`, `grpcio.py` | queue of updates, `synced`, monitor and streaming task | `update_user`, `_monitor_channel`, `_stream_user_updates`, `_sync`, `restart_backend`, `stop` | the node (gRPC), database |
| operations and registry `marznode/operations.py`, `routes/node.py`, `tasks/nodes.py` | `marznode.nodes`: client of each node id | `update_user`, `add_node`, `remove_node`, `nodes_startup`, the node routes | clients, database |
| database glue `marznode/database.py` | none | `list_users`, `store_backends`, `set_status` | database |
| users `routes/user.py`, `db/crud.py`, `db/models.py` | rows: `enabled`, `activated`, `removed`, limits, dates, key, services | add, modify, remove, reset, enable, disable, revoke, bulk reset, delete expired | `operations.update_user`, notifications |
| services `routes/service.py` | rows and their inbounds | add, modify, remove | `operations.update_user` |
| admins `routes/admin.py`, `dependencies.py` | rows, tokens | token, modify, remove, enable and disable all users | `operations.update_user` |
| jobs `tasks/*.py` | none of their own | review users, reset usage, record usage, percent and days notifications | rows, clients |
| proxy pool `routes/proxy_pool.py`, `tasks/proxy_pool.py` | subscriptions, their servers, selections by row id | add, modify, remove, synchronise, latency test | providers (HTTP), database |
| subscription content `utils/share.py`, `routes/subscription.py` | none | which configurations a user gets | rows |
| inbounds, settings, statistics, notifications, templates, parsers, crypto, CLI | single rows or none | edits, reads, output | |

What is hard here:

- *Updates to nodes are asynchronous.*  A handler commits, spawns a task, and
  returns.  The task blocks in a bounded queue; another task takes from it and
  streams; a third polls the channel and repopulates.  Connections break, calls
  end unnoticed, the panel restarts.
- *Two notions of being served.*  `User.is_active` is computed from the clock
  and the traffic, `User.activated` is a column that selects what nodes are
  given.  A dozen handlers keep the second up with the first.
- *Row ids as references.*  A synchronisation deletes and recreates servers in
  several transactions around an HTTP request, while selections name the
  servers by id, and another thread may do the same.

### The dashboard

A React application: TanStack Router maps addresses to pages and dialogs,
TanStack Query caches what the panel answers, react-hook-form and zod hold and
check what is typed.  JavaScript is single threaded; what interleaves is what
the user does, the answers to requests, timers, effects that run after a
drawing, and other tabs of the same browser.

| Component | State | Operations | Talks to |
|---|---|---|---|
| tables `libs/entity-table`, the `tables` of the modules | page, size, search, filter, order, sidebar, ticks | paging, searching, filtering, sorting, ticking, Apply | query cache |
| routes `routes`, `routeTree.gen.ts`, dialogs of the modules | the address, the open tab | links, dialogs and where they close to, loaders | query cache, panel |
| queries and mutations, the `api` of the modules | the cache: data and request of every key | fetch, poll, refetch on focus, mutate, invalidate | panel |
| session `modules/auth`, `libs/sudo-routes`, menus in `features` | token and role in localStorage, shared by tabs | login, logout, guards of pages | panel |
| pool form `modules/proxy-pool/dialogs/mutation` | values, servers that arrive | edits, five effects, submit | panel |
| host form `modules/hosts/dialogs/mutation` | values by profile, open section, rows of noise | edits, conversion to and from the panel's form | panel |
| other forms, widgets, node logs, UI kit | values of one form, drawing | | panel |

What is hard here:

- *Answers overlap.*  A table's key changes with every letter, page and filter;
  a dialog closes before its change was answered, and the success of one change
  meets fetches that began before it.
- *Positions stand for things.*  Ticks are kept by row index, rows of noise by
  their place in a form, pages from 0 in one place and from 1 in another.
- *Awaited checks.*  Access is checked after a page is shown, and the answer
  finds another page, another role or another tab's token.
- *Effects.*  Four effects of one form set each other's inputs while a list
  they consult arrives.

What makes each part correct: a client loses no update and delivers those of a
user in the order of the commits; every node that is synchronised serves what
the rows say; nobody is served once cut off; users of a subscription get the
servers that were chosen, all from one fetch; a measurement belongs to its
server; a page at rest shows what the panel has, every row can be reached, and
what is saved is what is ticked; a dialog leads back to the list it changes; the
stored role is that of the stored token; a form sends values that fit together,
and leaves alone what nobody touched.

## The modules

| Module | Models |
|---|---|
| `NodeMirror` | the promise of any marznode client: a node only learns committed configurations, one user at a time or by whole snapshots (abstract) |
| `NodeSync` | one `MarzNodeGRPCLIB`, its tasks, its node and the network |
| `UserLifecycle` | rows of users and services, the routes and jobs that change them, and what each node was told |
| `ProxyPool` | external subscriptions, their servers, synchronisation, latency test |
| `EntityTable` | the ten tables of the dashboard, their requests and the changes made over them |
| `Routes` | queries, mutations and what they invalidate, routes and what they show (no state) |
| `QueryCache` | one query of the cache, followed through walks, changes and answers; on `Routes` |
| `Session` | token, role, guards and menus in the tabs of a browser; on `Routes` |
| `PoolForm`, `HostForm` | the two forms whose fields act on each other |
| `MutationDialogs` | both forms, one open at a time |
| `SeqFacts` | lemmas on sequences (what `ToSet` has after a step, elements that are distinct) and on natural numbers (induction, as a fact about sets) |
| `NodeSync_proofs`, `UserLifecycle_proofs`, `ProxyPool_proofs`, `Session_proofs`, `MutationDialogs_proofs`, `EntityTable_proofs`, `QueryCache_proofs` | theorems |
| `MCNodeSync`, `MCUserLifecycle`, `MCProxyPool`, `MCEntityTable`, `MCQueryCache`, `MCSession` | symmetry and constants for TLC |

`UserLifecycle` decides *what* each node is to be told and takes its delivery
to be immediate; `NodeSync` is about *how* one node gets it, and takes a
configuration to be the number of a commit.  `NodeSync` implements
`NodeMirror`, whose `Learn` and `Replace` are what `UserLifecycle` does to
`told[n]` when it updates a user and when a node synchronises.  The two modules
of the cache split the same way: `EntityTable` follows the many keys of one
table and what is drawn of them, `QueryCache` one key through the whole
application.

### NodeSync

`ready` are the tasks of the loop about to run `queue.put`, in the order they
were spawned; `updates_queue` and `putters` are the `asyncio.Queue` and the
tasks blocked in it.  A `get` moves the first blocked task to the *end* of
`ready`, as asyncio does, so that it can be overtaken.  `live` are the
streaming tasks that have not ended, whether or not `streaming_task` refers to
them; `held` is the update one has in its hand, `wire` what it sent and the
node did not process.  `pc` separates what happens between two awaits of the
two callers of `_sync` (the monitor and `restart_backend`): the calls out,
`list_users`, the repopulation at the node, the reply.

`call[s]` is the SyncUsers call of a task.  grpclib opens a call with its first
message (`_stream_user_updates`, `grpclib.py:101`), so that it is `"unopened"`
while the task waits for an update, however often the connection is lost and
comes back meanwhile; it is then opened on whatever connection there is.  One
that was open and ended is `"ended"`: the code does not learn of that before a
send fails, and the first sends may go nowhere.  Two variables are history.
`kept` says that the connection of the monitor's last `_sync` has held since; a
client for which it does not streams to a node that may have forgotten
everything, and nothing tells it.  `crowded` are the users of whom one update
was blocked by the full queue while another one was to be put: those two may
pass each other.

A user may change at any time.  `revoke_sub`, which spawns two updates at once
(`routes/user.py:443`), is two `ChangeUser` in a row.

`Disconnect`, `StreamReset`, `CallFails`, `NodeReceive`, `NodeRepopulate` and
`Reconnect` are the external side, modelled from how the client uses it.
`PanelRestart` loses everything in memory; `Stop` is `stop()`, where a monitor
that awaits in `_sync` survives because `except:` swallows its cancellation.

### UserLifecycle

`Active` is `User.is_active`, `activated` the column.  `UpdateUser(S, old,
gone)` is `operations.update_user` for each user of S after the handler changed
its rows: only the nodes of its inbounds, and of the old ones that were passed,
hear of it.  `Listed` is what `list_users` would give each node.  `row`
distinguishes rows that were never created, live ones, and those removed, which
stay in the table without a username.  Dates are the four cases the code
distinguishes; traffic and limits are small numbers.

`Loose` names four operations that leave a flag or a node behind, wherever
they happen: resetting everybody's usage, deleting expired users that the
review has not seen, removing a service, and moving a user that the review has
not seen yet to other services.  With `Loose = {}` these are left out and
everything else is shown to be right; each is then the subject of a
configuration of its own, or of the list of divergences below.

### ProxyPool

Each thread that synchronises goes through `remove`, `fetch`, `create` (once
for each server: `create_proxy_pool_server` commits) and `restore`; any of them
may fail and leaves what was committed.  `Sync` is a request or the job;
`SyncAll`, which the fairness is about, is the job alone, which passes over
subscriptions that are not active (`tasks/proxy_pool.py:125`).
`RestoreServerSelections` models what
SQLAlchemy makes of the code: the rows of `previous_servers` expire when their
deletion is committed, they are expunged, and reading `srv.id` then raises
`DetachedInstanceError`, so nothing is restored whenever there were servers.
`fetched`, `wanted` and `overlapped` are history: what was last fetched, the
contents of the servers an administrator chose, and the subscriptions whose
servers several threads replaced at a time, until one does so on its own.
`FinishTest` writes to rows that may be gone.  SQLite, which counts the rows an
update matched, refuses the commit; on MySQL it may also pass, and write those
that are left.  `Uses` limits a run to some of the
features, to keep it small.

Selected ids are those of servers that existed when they were chosen, as the
dashboard offers them; the route itself takes any positive number.

### EntityTable

A click, with its handler, the drawing that follows and the effects of that
drawing, is one action; sending, answering and receiving a request are steps of
their own.  `Key` is the query key of `useQuery`, with the name of the table:
the cache maps keys to data, `flight` maps keys to requests, and every key that
comes into view is fetched since nothing is ever fresh (`staleTime` 0).
`MutationSucceeds` is the `invalidateQueries` of an `onSuccess`: it cancels the
fetch of the key in view and starts another, and leaves those out of view
alone.  These are in `blind`, which the properties leave out.

The first four hooks write `sorting[0]?.desc || true`, so the panel is only
ever asked for descending order (`Descending`), and rows are sorted once more
where they are drawn.  `useEntityTable` hands the table library `pageIndex - 1`
of `pageCount + 1` pages while its updates set the state that counts from 1:
`ClampedTo` and `getPageCount` are what comes of it.  `TicksAfter` and
`EntitiesTicked` are the two effects of `SelectableEntityTable`.

What a request asks and what its route takes differ, and `Answer` goes by the
route: the hosts' (`routes/inbounds.py:30` and `94`) and the one of a service's
users (`routes/service.py:61`) take no keyword, so that what is typed there
changes nothing that is shown (`Searching`); only the users' orders its rows
(`Ordering`); that of the pools takes neither page, search nor order.

`toggleAllPageRowsSelected` is the box in the header of a selectable table, which
can be clicked while the rows are fetched.  `clicked` is history: the rows whose
ticks were clicked since an effect last set them.

### Routes and QueryCache

`Routes` is a table in TLA+ of the router: each address with the queries,
loaders and mutations of the page, dialog and tabs it draws, what each mutation
invalidates, and where each dialog closes to.  It has no variables.
`QueryCache` picks one query or one loader and follows it through every walk
over the addresses that show or change it.  Data is the set of changes it takes
into account, so that *current* is a subset relation.  `Close` and `Submit`
take the user where the route's `onClose` says; a form is closed as it is
submitted.  What a loader gave is a snapshot that no mutation refreshes while
the dialog is open.

### Session

`localStorage` (`token`, `isSudo`) is shared by the tabs.  `going` is the check
of the layout (`beforeLoad`), `guards` the checks of `SudoRoute`, `posts` the
logins under way, each between its request and its answer; the token an
`isLoggedIn` is about is the one stored as it was called, and any answer may be
lost or negative.  `LoginPageDrawn` removes the token, in whichever way a tab
gets to the login page.  A menu is drawn for the role at that time; `Links` are
the addresses it offers, those of the header on a narrow screen included
(`HeaderMenu`).  The role of an administrator does not change.

### PoolForm, HostForm, MutationDialogs

In `PoolForm` a drawing is remembered in `seen`; `Render` runs the effects that
depend on a value that changed, in the order they are written, all on the
values that were drawn.  An edit finds the effects done (`Settled`), since
React runs them before it handles the next click.  The servers are requested as
the dialog opens and with each new category, answered with the rows the panel
has at that time, and arrive in any order.  React compares arrays by identity:
an effect may run more often than in the model, but a run with equal values
changes nothing.

In `HostForm` the form is a function on the fields of the profile's schema.
`formMutationToAPIAdapter` fills it, `Parsed` and `transformFormValue` make the
payload, `Refuses` is the panel's validation and `Stored` what the panel makes
of it.  A text is empty or not, a number what was typed.  Where the panel has a
pattern that the dialog has not (the delay of a noise, the texts of XMux), or
fills in variables (remark, address and path), there is a text besides that the
dialog passes and the panel refuses.  Of nested settings it matters which keys
are set; `xudp_proxy_443` is a choice the schema does not let be null and
otherwise gives its default (`DefaultedMux`).  A host that is opened has nothing
set, or everything, or is one that another client left this choice empty of
(`Foreign`): it cannot be saved before it is chosen.  Rows of noise are drawn
from `copy`, which `NoiseField` takes as its section opens; `aliased` says
whether its rows are still those of the form.  `universal` stands for everything
no schema names.

`MutationDialogs` extends `PoolForm` and instantiates `HostForm`: each dialog is
an address of its own, so one is open at a time.

## The runs

All bounds are constants of the configurations; names of bounds start with
`Max`.  Two of everything shows an interaction; three changes of one user are
the least that shows an overtaken task.

| Run | Shows | Instance |
|---|---|---|
| `node_sync_faults` | `TypeOK`, `NoUpdateLost`, `OneStream`, `NoDuplicate` | 2 users, 3 configurations each, 2 streaming tasks at a time, a fault, a backend restart, a stop; 3.2 million states |
| `node_sync_order` | `LastChangeWins`, `Converges`, `UpdatesAreDelivered`, `Mirrors` | 2 users, 3 configurations each, a fault, under fairness; 220 000 states |
| `node_sync_stall` | violation of `UpdatesAreDelivered` | one backend restart |
| `user_agreement` | `TypeOK`, `ActiveIsActivated`, `Agreement`, `RemovedIsGone`, `InactiveLeaves` | 1 user, 2 services, 2 inbounds on 2 nodes, `Loose = {}`; 230 000 states |
| `user_loose` | `OnlyServedAreHanded`, `HoldStarts` | all four loose operations |
| `pool_selection` | `TypeOK`, `SelectionNeverStrays`, `LatencyIsOwn`, `OneFetch` | 2 threads, 2 contents, MySQL; 710 000 states |
| `pool_refetch` | `NeverEmptyHanded`, `Refilled` | 1 thread, SQLite, subscriptions switched off and on, under fairness; 35 000 states |
| `dash_tables` | `TypeOK`, `RowsAreTheAnswer`, `RowsReachable`, `TicksAreOwn`, `AppliesTheTicks`, `TypedIsShown` | all ten tables, 3 entities on pages of 1 or 2, 2 or 3 clicks each, any number of answers; 570 000 states |
| `dash_cache` | `TypeOK`, `ViewIsCurrent`, `ClosesOverItsList`, `PolledIsCurrent` | every query and loader, 2 changes, 1 move besides the opening and closing of dialogs; 420 000 states |
| `dash_session` | `TypeOK`, `RoleOfToken`, `LoginNeeded`, `IntrudersLeave`, `MenusAreOpen` | 2 tabs, 2 administrators, 2 logins; 240 000 states |
| `dash_forms` | `DialogsTypeOK`, `SentAgrees`, `HostIsKept`, `Settles` | both forms opened on every stored entity, 2 or 3 edits, 1 replacement of the servers; 470 000 states |
| `pool_edit` | violation of `KeepsSelection` of `PoolForm` | no edit is needed |

Users do not interact in `UserLifecycle`, except that handlers act on sets of
them: one user and two of everything it is linked to are enough, and the
theorems hold for any number.  In `NodeSync` a restarted backend lets a second
streaming task live beside the first; a fault at any point is enough for each of
its steps to be interrupted, and three configurations, of which one is there at
first, let a user change twice while a fault is dealt with.  Ids are never
reused on MySQL, so `MaxId` bounds how often servers are replaced there; on
SQLite ids are given again and `pool_refetch` has no such end.

Three entities on pages of one row make a first, a middle and a last page, and
with pages of two a last page that is not full.  One keyword and one filter
option are enough, since a table only compares them.  The tables with a filter,
or with ticks, get one click more, which allows to tick, turn the page and
apply.  The queries of the cache do not act on each other, so that one at a
time is enough; two changes are needed for one to succeed while the fetch that
the other caused is under way.  With two tabs one can log out or log in while
the other awaits; every guard of the code awaits a single request, so one check
of `SudoRoute` per tab.  In the forms an effect reads at most three fields that
an edit sets, and each form opens with every value of those fields.

Deadlock is checked where the system goes on forever.  It is not where it may
stop: a client that was stopped, a pool whose ids are used up, a user of the
dashboard whose clicks or moves are used up.

### Fairness

- `NodeSync`: weak fairness of every task of the event loop that can run and
  of the node's answers, since asyncio runs ready tasks in turn and gRPC either
  answers or fails; the node comes back after a disconnection.  Nothing is
  assumed of faults, of requests or of `restart_backend` being called.
- `UserLifecycle`: weak fairness of the review job, which the scheduler runs at
  an interval (`marzneshin.py:88`).  `RestartSpec` also makes nodes synchronise
  again, which strengthens the violation it is used for.
- `ProxyPool`: the job comes again and again to a subscription that stays active
  (`marzneshin.py:108`, every fifteen minutes), a thread goes on until its
  synchronisation ends or fails, and a provider that is asked again and again
  sometimes answers with something that can be stored (strong fairness: failures
  come in between).  This is assumed for a single subscription: with several, one
  that cannot be stored can end the job before the others
  (`tasks/proxy_pool.py:174`).  Nothing is assumed of a subscription that is
  switched off: one that a failure emptied then stays empty, and `Refilled` does
  not speak of it.
- `EntityTable`: the timer of the debounce fires, and every request ends, in an
  answer or a failure.
- `QueryCache`: requests end and the timers of `refetchInterval` fire; a fetch
  that is tried again and again succeeds at times (strong fairness of
  `Deliver`, needed for `PolledIsCurrent` only).
- `Session`: the checks of `SudoRoute` end.
- `MutationDialogs`: React draws what has changed.

Nothing is assumed of users.

### What disagrees with the code's own words

Two runs are expected to find a violation, and are listed in `PROJECT.json`
with the line they contradict.

1. `node_sync_stall`: `restart_backend` on a client that is not synced sets
   `synced` and creates no streaming task; the monitor then never does.
2. `pool_edit`: the effect that drops selected servers which are not listed
   runs before the list has arrived.  A subscription that is opened and saved
   unchanged loses its selection.

Seven more configurations show a violation when TLC is run with them:

| Configuration | Module | Shows |
|---|---|---|
| `NodeSync_reorder.cfg` | `MCNodeSync` | an update that was blocked by the full queue is overtaken by a later one of the same user, and the node keeps the older configuration (`LastChangeAlwaysWins`, which is `LastChangeWins` without its exception) |
| `NodeSync_reopened.cfg` | `MCNodeSync` | a node restarts before the first update of its streaming task: the call opens on the new connection, the client stays synced, and the node serves that one user only (`StreamedToIsServed`) |
| `UserLifecycle_reset_all.cfg` | `MCUserLifecycle` | `reset_users_data_usage` does not set `activated`, so no restart brings a limited user back, although its documentation says so (`ActiveIsServed`) |
| `UserLifecycle_moved.cfg` | `MCUserLifecycle` | a user that expired and is modified before the review is never taken off the nodes of its old services (`InactiveLeaves`) |
| `UserLifecycle_deleted.cfg` | `MCUserLifecycle` | `delete_expired` clears `activated` without telling nodes (`RemovedIsGone`) |
| `ProxyPool_kept.cfg` | `MCProxyPool` | selections do not survive a synchronisation (`KeepsSelection` of `ProxyPool`) |
| `HostForm_kept.cfg` | `HostForm` | a host that is saved loses what no schema names: its services, `universal`, `uuid`, `flow` and others, as `update_host` (`db/crud.py:286`) stores defaults for what is not sent (`KeepsUnnamed`) |

The models show others of the same kind, reached by changing a constant or
dropping an exception of a property: `Loose = {"remove_service"}` violates
`InactiveLeaves` (a service is removed without telling a node); `SQLite = TRUE`
violates `SelectionNeverStrays` and `LatencyIsOwn` (reused ids); without
its exception for `overlapped` two threads violate `OneFetch` (two overlapping
synchronisations leave every server twice); without `restarts = 0` a backend
restart breaks `LastChangeWins`, as its snapshot may arrive after an update that
is newer; without the exception for `blind` a fetch that was joined breaks
`ViewIsCurrent` and `RowsAreTheAnswer`; without the one for `AllHostsForChain`,
which nothing invalidates, `ViewIsCurrent` fails as well.

What the models follow without a property about it:

- a stopped client may go on polling (`Stop`), and what a request is refused
  for has been stored (`Store`);
- Apply saves the ticks of the page in view and drops those of other pages; over
  a service's inbounds it can be pressed while nothing is listed, and saves an
  empty list;
  search, and the filter of a narrow screen, stay on the page they are on, which
  may be past the end; Previous during a fetch leads to page 1; a list without
  a page asks for page 0, which only `fetchUsers` corrects;
- `SudoRoute` draws its page for every administrator until its check has ended
  (it tests the function `isSudo`, not its result), and a late check leads away
  from whatever page is open by then; an answer that is lost logs out all tabs;
- text typed into a row of noise is lost when another is added or removed, and
  an invalid field in a closed section stops the save without a word; so does a
  `xudp_proxy_443` that another client stored as null;
- the dialog of a host passes texts that the panel refuses, of which the
  administrator learns from the answer, with the dialog closed;
- every save of a subscription names its URL and type, so that the panel
  synchronises it and gives its servers new ids.

## The proofs

TLAPS proves the following for any number of users, nodes, services, streaming
tasks, tabs, administrators and servers, any queue size and any bounds, from the
assumptions on the constants that each module names.

| Theorem | States |
|---|---|
| `TypeCorrect` | `Spec => []TypeOK` of `NodeSync` |
| `Committed` | nothing but committed configurations is on its way |
| `Inductive` | the inductive invariant `IInv` |
| `NothingLost`, `SingleStream` | `NoUpdateLost`, `OneStream` |
| `LastWins` | `LastChangeWins`, for any number of changes of one user at a time |
| `NothingTwice` | `NoDuplicate` |
| `UnhealthyUnsynced` | `UnhealthyIsUnsynced`: a node that is unhealthy is not counted as synced |
| `NodeMirrors` | `NodeSync` implements `NodeMirror` |
| `UserTypeCorrect` | `Spec => []TypeOK` of `UserLifecycle` |
| `ActiveActivated` | `ActiveIsActivated`, unless everybody is reset at once |
| `NodesAgree`, `RemovedAreGone` | `Agreement`, `RemovedIsGone`, without the loose operations |
| `OnlyServedHanded` | `OnlyServedAreHanded`, whatever operations are loose |
| `PoolInductive`, `PoolTypeCorrect` | the inductive invariant and `TypeOK` of `ProxyPool`, with `~SQLite` |
| `NeverStrays`, `LatencyStaysOwn` | `SelectionNeverStrays`, `LatencyIsOwn`, with `~SQLite` |
| `NobodyEmptyHanded` | `NeverEmptyHanded`, on any database |
| `FromOneFetch` | `OneFetch`, with any number of threads, on any database |
| `SessionInductive`, `SessionTypeCorrect` | the inductive invariant and `TypeOK` of `Session` |
| `RoleIsOfToken`, `NoWayBack` | `RoleOfToken`, `LoginNeeded` |
| `MenusStayOpen` | `MenusAreOpen` (an action property) |
| `TablesInductive` | the inductive invariant of `EntityTable` |
| `RowsAnswer`, `TicksStayOwn` | `RowsAreTheAnswer`, `TicksAreOwn`, for any entities, sizes and clicks |
| `TypesInductive`, `TableTypes` | the inductive invariant of its types, and `TypeOK` |
| `AppliesTicked` | `AppliesTheTicks` (an action property) |
| `EveryRowReached` | `RowsReachable`, for any number of rows and pages |
| `CacheInductive`, `CacheTypeCorrect` | the inductive invariant and `TypeOK` of `QueryCache` |
| `ViewsCatchUp` | `ViewIsCurrent`, for any number of changes and moves |
| `FormInductive`, `FormTypeCorrect` | the inductive invariant and `TypeOK` of `PoolForm` |
| `SentAlwaysAgrees` | `SentAgrees`, whenever servers arrive and whatever is edited |
| `DialogsInductive`, `DialogsTypeCorrect` | the inductive invariant of `MutationDialogs`, and `DialogsTypeOK` |
| `HostAlwaysKept` | `HostIsKept`, in each profile, for any edits, rows of noise and headers |
| `DialogsSendAgrees` | `SentAgrees`, among the dialogs, too |

`NoUpdateLost` is not inductive: when the monitor's `_sync` ends, streaming
starts, and the newest configurations must then be at the node or on their
way.  `SyncCovers` says what holds before: while the snapshot is on its way,
whatever it does not hold waits in the queue (`Queued`), where no task can take
it since none streams while the client is not synced (`OneStream`), and after
the node was repopulated the same holds of what it heard.  `WiresCut` says that
only open calls have updates on the wire, that no call is open to a node that
does not answer, and that only live tasks hold updates: cutting the open calls
then loses only updates of a client that is no longer `Streaming`.  A task whose
call is not opened yet loses nothing with the connection, since what it will
send is in its hand or in the queue; but the node may have forgotten what the
snapshot gave it, which is why `Streaming` asks for `kept`.  `IInv` is their
conjunction.

`LastChangeWins` is about order, which `IInv` forgets.  The places an update
passes through, from `ready` and `putters` over the queue and the task's hand to
the wire, are followed by one predicate: an outdated update of a user has the
newest one behind it, in the same sequence or in one that is still to come
(`Follows`, `Lined`).  Each step is then a fact about one or two sequences
(`FollowsAppend`, `FollowsTail`, `FollowsConcat`).  The place where it could
break is the `get` that wakes a blocked task, which runs after the tasks that
are ready: for a user that is not `crowded` no other update of the user is ready
or blocked then (`BlockedIsNewest`), so that what is appended is the newest.
`InOrder` adds where the node may be behind: while the client streams, the
newest configuration of such a user is pending; and once a synchronisation has
replied, it waits in the queue for the task that will stream, since `SyncCovers`
put it there if the snapshot does not hold it.  A restart of a backend breaks
this, since its snapshot arrives at a node that is being streamed to, which is
why the property is about `restarts = 0`.

`NoDuplicate` follows from `Apart`: each of the three queues at the client and
of the two on each call holds distinct updates, and no two of them share one.
The step to prove is the `get` that lets a blocked `put` go on: it is removed
from `putters` where it is added to `ready`, which takes lemmas on removing and
appending to sequences without repetition (`SeqFacts`).

`Agreement` is proved with the invariant that a user without inbounds, or not
activated, is `Gone` everywhere but at nodes that are not synchronised; the
step of each handler splits into nodes that `UpdateUser` reaches
(`UpdateAgrees`) and the others, for which what is listed did not change
(`RestAgrees`).

`SelectionNeverStrays` says that what is selected was chosen, of servers that a
synchronisation may delete and create again while other threads do the same.
What makes it inductive is that ids are not given again: a new row gets `last_id
+ 1`, while whatever a subscription refers to is at most `last_id` (`Given`), so
that no old reference ever meets a new row.  `Chosen` then only changes where
`Store` sets ids, and there the request's own ids are among the servers of the
subscription.  The same fact keeps a latency with its server: what `FinishTest`
holds of an id is the content of its row, or the row is gone (`Probed`), which a
new one never takes the id of.  On SQLite both fail, as the run with `SQLite =
TRUE` described above shows.

`OneFetch` is proved along the list that a thread works off.  `Continues` says
how far it came: the servers of its subscription are the first ones of the
fetch, in its order, and the rest is what it has still to create (`feed`).  That
a server created now comes last takes `NextIsAbove`: on either kind of database
the next id is above those of all rows there are.  A failure leaves a first
part, a removal of the subscription none.  A second thread would create between
two of the first one's: two threads at work on one subscription make it
`overlapped` (`Apart`), and only a thread that deletes its servers while no other
works on it takes that back, which starts the list anew (`FetchInvDeletes`).
Threads at work on other subscriptions leave its rows alone (`SameRowsSame`).

`RoleOfToken` needs that a token which an answer carries was issued to the
administrator of that login (`TokensIssued`), since the two entries are written
from the answer and not from what is stored.  `LoginNeeded` needs that whoever
waits to open an address with a check that may succeed has had a login since
(`LoggedIn`), and that a stored token implies it: the login page that one tab
draws removes the token of all, so that the others' checks can only be older.

`MenusAreOpen` is proved along the way that the token of a menu takes: where a
link leads to a guarded page, the menu it stands in was drawn for a sudo admin,
and the same token is carried by the wait of the router and then by the check of
`SudoRoute` (`MenusTrusted`).  Logins only add to the tokens (`TrustStays`), so
that a check which finds its own token stored finds the role of a sudo admin.
That the other menus lead to open pages only (`LinksAreOpen`) comes from the
tables of `Routes`: each address of the tree either has open routes only, or ends
at a route that is not linked for those who are not sudo (`TreeIs`).

`SentAgrees` holds of what is submitted because a submit finds the effects done.
`BridgeDrawn`, `SelectionDrawn` and `ServersDrawn` say what each effect has
established of the values that were last drawn, each for as long as the values
it depends on are the ones drawn; the other effects only empty the selection,
which keeps all three.  `Afresh` says that before the first drawing no server
is listed.

`ViewIsCurrent` needs to know what a fetch under way will bring
(`AnswerCatches`): the answer was given after whatever is owed to the view was
applied.  A success that is learnt meanwhile starts another fetch, unless it
does not concern the query, or the query is out of view, and then the fetch is
blind.  That a change which concerns a query also refreshes it (`Refreshing`)
comes from `RoutesAssumption`, four facts about the tables of `Routes`.  They
have neither variables nor constants in them, so that TLC decides them when it
evaluates the assumption.

`RowsAreTheAnswer` is the same argument where the answers are those of the
server's entities (`FlightFresh`, `DataFresh`): while no change waits for its
success to be learnt (`Unlearnt`), an answer under way equals what the server
would answer now.  What an answer looks like does not matter, so that the proof
never opens `Answer`.

The other theorems on `EntityTable` do look into answers.  `TypeOK` and
`AppliesTheTicks` come from `TInv`: the keys, requests and answers of every
table have their types, and the entities selected are those of the rows that are
ticked in view (`TicksOfView`), which two effects keep up when either changes.
`TicksAreOwn` is part of it: the first effect sets the tick of every row in view
to what the parent entity has, and forgets the clicks.  An answer is a page of
the rows found, in the order of a column. TLAPS knows nothing of the `CHOOSE`
that orders them until there is such an order: every finite set of numbers can
be listed from its least or greatest element on (`ListsUp`, `ListsDown`), by
induction on its cardinality, which `SetInduction` of `SeqFacts` gives for a set
of numbers instead of a predicate. `RowsReachable` then is arithmetic: the n-th
row is on page `Ceiling(n, size)` (`CeilingIs`, `PageOfIs`), so that an entity
that is not on the page in view is on an earlier or a later one, and the button
there is not disabled (`ButtonsLead`).  `TablesAssumption` says that the names
given to the constant are those of tables.

The dialog of a host has as many kinds of edits as it has fields; each gives one
field one of the values known for it (`EditSets`), or rewrites the rows of
noise, so that types and untouched fields are followed once for all of them
(`EditsIs`).  Of the rows of noise, which are drawn from a copy, it has to be
known that the copy is as long as what will be sent (`NoiseTyped`).  `Untouched`
says that a field that was not touched is still as it was loaded.  What happens
to it when it is submitted is in `PayloadIs`, field by field, and `PayloadKeeps`
concludes that it is stored as it was: a list of headers made from a dictionary
gives the dictionary back (`RowsAndBack`), whatever the order in which they are
listed, because names are distinct.  `MuxStays` is what keeps the settings of a
mux: the default that the schema gives applies to a choice that is missing,
which only an edit can make so.  That the panel refuses typed texts only needs,
of every field, that what was not typed is of a form it takes (`UntypedTaken`):
as it was loaded (`Untouched`), or as the form starts with it; `PayloadTaken`
carries that through the conversion.  A host and a subscription leave each
other's variables alone (`DialogsStep`).  The empty text has a name, `Empty`,
that the proofs do not open: the translation to SMT does not take the literal.

Only model-checked: liveness (`Converges`, `UpdatesAreDelivered`,
`InactiveLeaves`, `HoldStarts`, `Refilled`, `TypedIsShown`, `PolledIsCurrent`,
`IntrudersLeave`, `Settles`), which is out of the prover's reach;
`ClosesOverItsList`, which is about the entries of the tables of `Routes`, has
no parameters, and is settled by evaluating these.  The theorems with
`~SQLite` are false on SQLite, as said above.

## What is left out

Of the panel:

- The grpcio client: the same queue and stream with another monitor.
- Which inbounds a node reports (`store_backends`), and the registry of several
  nodes under concurrent requests: `remove_node` tests, awaits and deletes
  (`operations.py:53`), and a client that was stopped may write its status over
  the disabled one of the row (`crud.py:1032`).
- The accounting of traffic: coefficients, counters of nodes that were reset
  when the answer is lost (`record_usages.py:121`), the percentage and expiry
  notifications, whose limits are strict (`data_usage_percent_reached.py:42`).
- What happens to the users of an administrator who is removed
  (`dependencies.py:83`), and password changes.
- A change of an administrator's role: in `Session` it is that of the login.
- Bridges, chains of servers, names and formats of what users are given.
- Failing commits: a request that fails there changes nothing but what it
  already sent.  A failed synchronisation whose handler raises ends the job for
  the subscriptions that come after (`tasks/proxy_pool.py:174`).
- Parsers, cryptography, templates, settings, statistics, migrations and the
  command line: no state that others depend on.

Of the dashboard:

- The forms of users, administrators, services, nodes and settings.  When they
  close and what their success refreshes is in `QueryCache`; their fields do
  not act on each other, but for a user's limit (shown in GB, kept in bytes) and
  expiry, whose conversions are arithmetic on dates.  A form is reset when the
  entity it edits is fetched again, and loses what was typed; which entity is
  fetched when is in `QueryCache`, the text is not.
- Which columns of a table are visible, themes, languages and the other settings
  of one browser; the logs of a node and the editor of its configuration.
- Drawing: the components of the UI kit, charts and widgets.
- React, TanStack Query and Router, react-hook-form and zod are modelled from
  how the code uses them: effects after a drawing, keys, cancellation,
  loaders, default values and schemas.
