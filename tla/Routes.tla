------------------------------- MODULE Routes -------------------------------
(***************************************************************************)
(* The map of the dashboard: its queries, its mutations with the queries   *)
(* each invalidates, and its routes, with what each shows and offers.  An  *)
(* address is the sequence of the routes that match it, the outermost one  *)
(* first; all of them are rendered.                                        *)
(***************************************************************************)
EXTENDS Sequences, SequencesExt

(* A query: its key, with "list" and "name" for what the code puts there,  *)
(* the resource its URL names, and whether it has a refetchInterval.  A    *)
(* loader is no query: the router runs it when the route is entered.       *)
Query(key, of) == [key |-> key, of |-> of, polls |-> FALSE, loader |-> FALSE]
Polling(key, of) == [Query(key, of) EXCEPT !.polls = TRUE]
Loader(of) == [Query(<<"loader", of>>, of) EXCEPT !.loader = TRUE]

Users == Query(<<"users", "list">>, "users")
userQueryOptions == Query(<<"users", "name">>, "users")
UserNodeUsages == Polling(<<"users", "name", "range">>, "users")
UserServices == Query(<<"users", "name", "services", "list">>, "users")
UsersStats == Query(<<"stats", "users">>, "stats")
TotalTraffics == Polling(<<"system", "stats", "traffic", "range">>, "stats")
GithubRepoStats == Polling(<<"github", "repo", "stats">>, "github")
Admins == Query(<<"admins", "list">>, "admins")
AdminsOfFilter == Query(<<"admins", "first100">>, "admins")
adminQueryOptions == Query(<<"admins", "name">>, "admins")
Services == Query(<<"services", "list">>, "services")
ServicesOfAlert == Query(<<"services", "first10">>, "services")
ServicesOfForm == Query(<<"services", "first100">>, "services")
ServiceInbounds == Query(<<"services", "id", "inbounds", "list">>, "services")
ServiceUsers == Query(<<"services", "id", "page">>, "services")
fetchService == Loader("services")
Nodes == Query(<<"nodes", "list">>, "nodes")
NodesUsage == Polling(<<"nodes", "id", "usage", "range">>, "nodes")
NodeBackendStats == Polling(<<"nodes", "id", "backend", "stats">>, "nodes")
NodesSettings == Query(<<"nodes", "id", "backend", "config">>, "nodes")
Certificate == Query(<<"nodes", "settings">>, "nodes")
fetchNode == Loader("nodes")
Inbounds == Query(<<"inbounds", "first100">>, "inbounds")
InboundHosts == Query(<<"inbounds", "id", "hosts", "list">>, "inbounds")
AllHostsForChain == Query(<<"all-hosts-for-chain">>, "inbounds")
fetchHost == Loader("inbounds")
fetchInbound == Loader("inbounds")
Pools(name) == Query(<<name, "list">>, "proxy-pools")
fetchPool == Loader("proxy-pools")
SubscriptionSettings == Query(<<"system", "settings", "subscription">>, "system")

-----------------------------------------------------------------------------
(* A mutation: its name, the resource its URL names, and the prefixes of   *)
(* the keys that its onSuccess invalidates.                                *)

Mutation(name, of, invalidates) == [name |-> name, of |-> of, invalidates |-> invalidates]

useUsersCreationMutation == Mutation("create", "users", {<<"users">>})
useUsersUpdateMutation == Mutation("update", "users", {<<"users">>})
useUsersDeletionMutation == Mutation("delete", "users", {<<"users">>})
useUserUsageResetCmd == Mutation("reset", "users", {<<"users">>})
useUserSubscriptionRevokeCmd == Mutation("revoke_sub", "users", {<<"users">>})
useUserStatusEnable == Mutation("status", "users", {<<"users">>, <<"users", "name">>})
useAdminsCreationMutation == Mutation("create", "admins", {<<"admins">>})
useAdminsUpdateMutation == Mutation("update", "admins", {<<"admins">>})
useAdminsDeletionMutation == Mutation("delete", "admins", {<<"admins">>})
useAdminUsersStatusEnable ==
    Mutation("enable_users", "admins", {<<"admins">>, <<"admins", "name">>})
useAdminUsersStatusDisable ==
    Mutation("disable_users", "admins", {<<"admins">>, <<"admins", "name">>})
useServicesCreationMutation == Mutation("create", "services", {<<"services">>})
useServicesUpdateMutation == Mutation("update", "services", {<<"services">>})
useServicesDeletionMutation == Mutation("delete", "services", {<<"services">>})
useNodesCreationMutation == Mutation("create", "nodes", {<<"nodes">>})
useNodesUpdateMutation == Mutation("update", "nodes", {<<"nodes">>})
useNodesDeletionMutation == Mutation("delete", "nodes", {<<"nodes">>})
useNodesSettingsMutation == Mutation("settings", "nodes", {<<"nodes">>})
useHostsCreationMutation == Mutation("create", "inbounds", {<<"inbounds">>})
useHostsUpdateMutation == Mutation("update", "inbounds", {<<"inbounds">>})
useHostsDeletionMutation == Mutation("delete", "inbounds", {<<"inbounds">>})
useSubscriptionSettingsMutation ==
    Mutation("update", "system", {<<"system", "settings", "subscription">>})

(* invalidatePoolsQueries tests whether the first element of the key       *)
(* starts with "proxy-pools".                                              *)
PoolsKeys == {"proxy-pools", "proxy-pools-bridge", "proxy-pools-external"}
invalidatePoolsQueries == {<<k>> : k \in PoolsKeys}
usePoolsCreationMutation == Mutation("create", "proxy-pools", invalidatePoolsQueries)
usePoolsUpdateMutation == Mutation("update", "proxy-pools", invalidatePoolsQueries)
usePoolsDeletionMutation == Mutation("delete", "proxy-pools", invalidatePoolsQueries)
usePoolsSyncMutation == Mutation("sync", "proxy-pools", invalidatePoolsQueries)
usePoolsToggleActiveMutation == Mutation("toggle", "proxy-pools", invalidatePoolsQueries)
usePoolServerUpdateMutation == Mutation("server", "proxy-pools", invalidatePoolsQueries)

Invalidates(m, q) == ~q.loader /\ \E p \in m.invalidates : IsPrefix(p, q.key)

-----------------------------------------------------------------------------
(* What the user turns to in a page or a dialog: the queries it shows, the *)
(* mutations it offers, and whether they close it.                         *)

View(shows, offers) == [shows |-> shows, offers |-> offers, closes |-> FALSE]
ViewThatCloses(shows, offers) == [shows |-> shows, offers |-> offers, closes |-> TRUE]
Only(v) == [only |-> v]
useMutationDialog(shows, mutation) == Only(ViewThatCloses(shows, {mutation}))
DeleteConfirmation(mutation) == Only(ViewThatCloses({}, {mutation}))

UserInfoTable == {useUserUsageResetCmd, useUserStatusEnable}
SubscriptionActions == {useUserSubscriptionRevokeCmd}
UsersSettingsDialog ==
    [info |-> View({}, UserInfoTable),
     services |-> View({UserServices}, {useUsersUpdateMutation}),
     subscription |-> View({}, SubscriptionActions),
     nodes_usage |-> View({UserNodeUsages}, {})]
AdminInfoTable == {useAdminUsersStatusEnable, useAdminUsersStatusDisable}
AdminsSettingsDialog == Only(View({}, AdminInfoTable))
ServiceSettingsDialog ==
    [inbounds |-> View({ServiceInbounds}, {useServicesUpdateMutation}),
     users |-> View({ServiceUsers}, {})]
NodeBackendSetting ==
    [logs |-> View({NodeBackendStats}, {}),
     config |-> View({NodeBackendStats, NodesSettings}, {useNodesSettingsMutation})]
NodesSettingsDialog ==
    [tab \in {"logs", "config", "info"} |->
        IF tab = "info" THEN View({NodesUsage}, {}) ELSE NodeBackendSetting[tab]]
HostSettingsDialog == Only(View({}, {}))
ServersDialog ==
    Only(View({}, {usePoolsSyncMutation, usePoolsUpdateMutation,
                   usePoolServerUpdateMutation}))
PoolsTable(category) ==
    View({Pools(category)}, {usePoolsSyncMutation, usePoolsToggleActiveMutation})

-----------------------------------------------------------------------------
(* The routes.  A page inside SudoRoute is for sudo admins; a dialog goes  *)
(* to onClose when it is closed.                                           *)

Layout(path, shows) ==
    [path |-> path, sudo |-> FALSE, shows |-> shows, views |-> Only(View({}, {})),
     onClose |-> ""]
Page(path, views) == [Layout(path, {}) EXCEPT !.views = views]
SudoPage(path, views) == [Page(path, views) EXCEPT !.sudo = TRUE]
Dialog(path, views, onClose) == [Page(path, views) EXCEPT !.onClose = onClose]

AuthLayout == Layout("", {})
LoginPage == Page("/login", Only(View({}, {})))
DashboardLayout == Layout("", {GithubRepoStats})
DashboardPage == Page("/", Only(View({UsersStats, TotalTraffics}, {})))

\* Each list stays in view under its dialogs.
UsersPage == Layout("/users", {Users, AdminsOfFilter, ServicesOfAlert})
UserProvider == Layout("/users/$userId", {userQueryOptions})
UserOpen == Dialog("/users/$userId/", UsersSettingsDialog, "/users")
UserEdit ==
    Dialog("/users/$userId/edit",
           useMutationDialog({ServicesOfForm}, useUsersUpdateMutation), "/users")
UserDelete ==
    Dialog("/users/$userId/delete", DeleteConfirmation(useUsersDeletionMutation), "/users")
UserCreate ==
    Dialog("/users/create",
           useMutationDialog({ServicesOfForm}, useUsersCreationMutation), "/users")

SudoLayout(path, shows) == [Layout(path, shows) EXCEPT !.sudo = TRUE]

AdminsPage == SudoLayout("/admins", {Admins})
AdminProvider == Layout("/admins/$adminId", {adminQueryOptions})
AdminOpen == Dialog("/admins/$adminId/", AdminsSettingsDialog, "/admins")
AdminEdit ==
    Dialog("/admins/$adminId/edit",
           useMutationDialog({ServicesOfForm}, useAdminsUpdateMutation), "/admins")
AdminDelete ==
    Dialog("/admins/$adminId/delete", DeleteConfirmation(useAdminsDeletionMutation),
           "/admins")
AdminCreate ==
    Dialog("/admins/create",
           useMutationDialog({ServicesOfForm}, useAdminsCreationMutation), "/admins")

ServicesPage == SudoLayout("/services", {Services})
ServiceProvider == Layout("/services/$serviceId", {fetchService})
ServiceOpen == Dialog("/services/$serviceId/", ServiceSettingsDialog, "/services")
\* Mutant: the dialog closes to another page.
ServiceEdit_Astray ==
    Dialog("/services/$serviceId/edit",
           useMutationDialog({Inbounds}, useServicesUpdateMutation), "/nodes")

ServiceEdit ==
    Dialog("/services/$serviceId/edit",
           useMutationDialog({Inbounds}, useServicesUpdateMutation), "/services")
ServiceDelete ==
    Dialog("/services/$serviceId/delete",
           DeleteConfirmation(useServicesDeletionMutation), "/services")
ServiceCreate ==
    Dialog("/services/create",
           useMutationDialog({Inbounds}, useServicesCreationMutation), "/services")

NodesPage == SudoLayout("/nodes", {Nodes})
NodeProvider == Layout("/nodes/$nodeId", {fetchNode})
NodeOpen == Dialog("/nodes/$nodeId/", NodesSettingsDialog, "/nodes")
NodeEdit ==
    Dialog("/nodes/$nodeId/edit", useMutationDialog({}, useNodesUpdateMutation), "/nodes")
NodeDelete ==
    Dialog("/nodes/$nodeId/delete", DeleteConfirmation(useNodesDeletionMutation), "/nodes")
NodeCreate ==
    Dialog("/nodes/create", useMutationDialog({}, useNodesCreationMutation), "/nodes")

HostsPage == SudoLayout("/hosts", {Inbounds, InboundHosts})
HostProvider == Layout("/hosts/$hostId", {fetchHost})
HostOpen == Dialog("/hosts/$hostId/", HostSettingsDialog, "/hosts")
HostEdit ==
    Dialog("/hosts/$hostId/edit",
           useMutationDialog({AllHostsForChain}, useHostsUpdateMutation), "/hosts")
HostDelete ==
    Dialog("/hosts/$hostId/delete", DeleteConfirmation(useHostsDeletionMutation), "/hosts")
HostCreate ==
    Dialog("/hosts/$inboundId/create",
           useMutationDialog({fetchInbound, AllHostsForChain}, useHostsCreationMutation),
           "/hosts")

PoolsCategories == [c \in PoolsKeys |-> PoolsTable(c)]
ProxyPoolsPage == SudoPage("/proxy-pools", PoolsCategories)
PoolProvider == Layout("/proxy-pools/$poolId", {fetchPool})
PoolServers == Dialog("/proxy-pools/$poolId/servers", ServersDialog, "/proxy-pools")
PoolEdit ==
    Dialog("/proxy-pools/$poolId/edit", useMutationDialog({}, usePoolsUpdateMutation),
           "/proxy-pools")
PoolDelete ==
    Dialog("/proxy-pools/$poolId/delete", DeleteConfirmation(usePoolsDeletionMutation),
           "/proxy-pools")
PoolCreate ==
    Dialog("/proxy-pools/create", useMutationDialog({}, usePoolsCreationMutation),
           "/proxy-pools")

Settings ==
    SudoPage("/settings",
             Only(View({SubscriptionSettings, Certificate},
                       {useSubscriptionSettingsMutation})))

-----------------------------------------------------------------------------
(* The tree of the router: the addresses beneath a route.                  *)

Leaf(r) == <<r>>
Beneath(r, children) == {<<r>> \o c : c \in children}
\* A route with a component of its own is an address, too, unless an index
\* route takes its place.
AndBeneath(r, children) == {Leaf(r)} \cup Beneath(r, children)

AuthRouteChildren == {Leaf(LoginPage)}
DashboardUsersUserIdRouteChildren == {Leaf(UserDelete), Leaf(UserEdit), Leaf(UserOpen)}
DashboardUsersLazyRouteChildren ==
    Beneath(UserProvider, DashboardUsersUserIdRouteChildren) \cup {Leaf(UserCreate)}
DashboardAdminsAdminIdRouteChildren == {Leaf(AdminDelete), Leaf(AdminEdit), Leaf(AdminOpen)}
DashboardAdminsLazyRouteChildren ==
    Beneath(AdminProvider, DashboardAdminsAdminIdRouteChildren) \cup {Leaf(AdminCreate)}
DashboardServicesServiceIdRouteChildren ==
    {Leaf(ServiceDelete), Leaf(ServiceEdit), Leaf(ServiceOpen)}
DashboardServicesLazyRouteChildren ==
    Beneath(ServiceProvider, DashboardServicesServiceIdRouteChildren)
        \cup {Leaf(ServiceCreate)}
DashboardNodesNodeIdRouteChildren == {Leaf(NodeDelete), Leaf(NodeEdit), Leaf(NodeOpen)}
DashboardNodesLazyRouteChildren ==
    Beneath(NodeProvider, DashboardNodesNodeIdRouteChildren) \cup {Leaf(NodeCreate)}
DashboardHostsHostIdRouteChildren == {Leaf(HostDelete), Leaf(HostEdit), Leaf(HostOpen)}
DashboardHostsLazyRouteChildren ==
    Beneath(HostProvider, DashboardHostsHostIdRouteChildren) \cup {Leaf(HostCreate)}
DashboardProxyPoolsPoolIdRouteChildren ==
    {Leaf(PoolDelete), Leaf(PoolEdit), Leaf(PoolServers)}
DashboardProxyPoolsLazyRouteChildren ==
    AndBeneath(PoolProvider, DashboardProxyPoolsPoolIdRouteChildren)
        \cup {Leaf(PoolCreate)}

DashboardRouteChildren ==
    AndBeneath(UsersPage, DashboardUsersLazyRouteChildren)
    \cup AndBeneath(AdminsPage, DashboardAdminsLazyRouteChildren)
    \cup AndBeneath(ServicesPage, DashboardServicesLazyRouteChildren)
    \cup AndBeneath(NodesPage, DashboardNodesLazyRouteChildren)
    \cup AndBeneath(HostsPage, DashboardHostsLazyRouteChildren)
    \cup AndBeneath(ProxyPoolsPage, DashboardProxyPoolsLazyRouteChildren)
    \cup {Leaf(Settings), Leaf(DashboardPage)}

routeTree ==
    Beneath(AuthLayout, AuthRouteChildren) \cup Beneath(DashboardLayout, DashboardRouteChildren)

(* The places of the dashboard: an address and what is open there.         *)
FirstViews == {"info", "inbounds", "logs", "proxy-pools", "only"}
PathOf(a) == Last(a).path
Queries(a, v) == UNION {r.shows : r \in ToSet(a)} \cup Last(a).views[v].shows
PlacesOf(a) ==
    {[path |-> PathOf(a), view |-> v, first |-> v \in FirstViews,
      sudo |-> \E r \in ToSet(a) : r.sudo,
      page |-> a[2].path, onClose |-> Last(a).onClose,
      shows |-> {q : q \in Queries(a, v)},
      offers |-> Last(a).views[v].offers, closes |-> Last(a).views[v].closes] :
        v \in DOMAIN Last(a).views}
Places == UNION {PlacesOf(a) : a \in routeTree}
Opened(path) == CHOOSE p \in Places : p.path = path /\ p.first
=============================================================================
