----------------------------- MODULE QueryCache -----------------------------
(***************************************************************************)
(* What the dashboard shows while its user walks from page to page, edits  *)
(* in dialogs that close before the server has answered, and other people  *)
(* change things: one query of the cache of TanStack Query, followed       *)
(* through every walk and every overlap of its fetches with changes.  The  *)
(* queries of the cache do not act on each other, so that one at a time is *)
(* enough.  A loader of the router is followed in the same way.            *)
(*                                                                         *)
(* The answer of the server to the query is abstracted to the set of the   *)
(* changes that it takes into account.                                     *)
(***************************************************************************)
EXTENDS Routes, Integers, FiniteSets, TLC

CONSTANTS
    MaxMoves,    \* bound on the user's moves to another address
    MaxChanges   \* bound on the mutations sent

ASSUME QueryCacheAssumption == MaxMoves \in Nat /\ MaxChanges \in Nat

AllQueries == {q : q \in UNION {p.shows : p \in Places}}

(* What the tables of Routes have to provide, of which nothing depends on  *)
(* the constants: an address and a tab make one place, a dialog closes to  *)
(* a place there is, and whoever changes a resource invalidates the        *)
(* queries of it, but for the hosts to chain.                              *)
ASSUME RoutesAssumption ==
    /\ \A p, o \in Places : p.path = o.path /\ p.view = o.view => p = o
    /\ \A p \in Places :
           p.onClose # "" => \E o \in Places : o.path = p.onClose /\ o.first
    /\ \A p \in Places : p.closes => p.onClose # ""
    /\ \A p \in Places, q \in AllQueries \ {AllHostsForChain} : \A m \in p.offers :
           m.of = q.of => q.loader \/ Invalidates(m, q)

VARIABLES
    query,     \* the query, or the loader, that is followed
    address,   \* the path at which the user is
    view,      \* the tab that is open there
    moves,
    changes,   \* the mutations sent: whether they bear on the query, whether
               \* they invalidate it, and how far they are
    world,     \* others have changed what the query is about
    data,      \* what the cache has: a set of changes, or Nothing
    request,   \* the fetch under way: "none", "sent", or the answer to it
    failed,    \* the last fetch failed, also its retries
    blind,     \* history: a fetch that is joined, or out of view, when the
               \* success of a change is learnt
    known      \* history: the changes known to have succeeded when the
               \* address was entered

place == <<address, view, moves>>
server == <<changes, world>>
vars == <<query, place, server, data, request, failed, blind, known>>

Nothing == {-1}
World == 0
None == [stage |-> "none", answer |-> {}]
Sent == [stage |-> "sent", answer |-> {}]
Changes == 1 .. Len(changes)

Here == CHOOSE p \in Places : p.path = address /\ p.view = view
Shown == query \in Here.shows
Concerns(m) == m.of = query.of
Status(s) == {i \in Changes : changes[i].status = s}
Applied ==
    (Status("applied") \cup Status("succeeded") \cup Status("unanswered"))
        \cup (IF world THEN {World} ELSE {})

-----------------------------------------------------------------------------
(* An observer mounts.  Nothing is ever fresh, so the query is fetched,    *)
(* unless a fetch is under way, which is joined.                           *)
Mount(shownBefore, shownAfter) ==
    IF shownAfter /\ ~shownBefore /\ request = None
    THEN request' = Sent /\ blind' = FALSE
    ELSE UNCHANGED <<request, blind>>

(* The router runs the loader of a route each time the route is entered,   *)
(* and drops what an older run of it gives.                                *)
Load(p) ==
    /\ request' = IF query \in p.shows THEN Sent ELSE None
    /\ data' = Nothing /\ blind' = FALSE

\* Mutant: the tab that was open stays open at the next address.
Go_KeptTab(p) ==
    /\ address' = p.path /\ view' = view
    /\ known' = Status("succeeded")
    /\ Mount(Shown, query \in p.shows)
    /\ UNCHANGED data

Go(p) ==
    /\ address' = p.path /\ view' = p.view
    /\ known' = Status("succeeded")
    /\ IF query.loader THEN Load(p)
       ELSE Mount(Shown, query \in p.shows) /\ UNCHANGED data

(* A link, the history of the browser, or a URL that is typed.             *)
Navigate(p) ==
    /\ p.first /\ p.path # address /\ moves < MaxMoves
    /\ moves' = moves + 1
    /\ Go(p)
    /\ UNCHANGED <<query, server, failed>>

(* Tabs.                                                                   *)
SwitchTab(p) ==
    /\ p.path = address /\ p.view # view /\ moves < MaxMoves
    /\ moves' = moves + 1
    /\ view' = p.view
    /\ Mount(Shown, query \in p.shows)
    /\ UNCHANGED <<query, address, server, data, failed, known>>

IsDialog == Here.onClose # ""
Close ==
    /\ IsDialog
    /\ Go(Opened(Here.onClose))
    /\ UNCHANGED <<query, moves, server, failed>>

(* A mutation is sent.  A form and a confirmation are closed at once.      *)
Submit(m) ==
    /\ m \in Here.offers
    /\ Concerns(m) \/ Invalidates(m, query)
    /\ Len(changes) < MaxChanges
    /\ changes' = Append(changes, [concerns |-> Concerns(m),
                                   refreshes |-> Invalidates(m, query),
                                   status |-> "sent"])
    /\ IF Here.closes THEN Go(Opened(Here.onClose))
       ELSE UNCHANGED <<address, view, known, request, blind, data>>
    /\ UNCHANGED <<query, moves, world, failed>>

-----------------------------------------------------------------------------
Becomes(i, s) == changes' = [changes EXCEPT ![i].status = s]

ServerApplies(i) ==
    /\ changes[i].status = "sent"
    /\ Becomes(i, "applied")
    /\ UNCHANGED <<query, place, world, data, request, failed, blind, known>>

(* onSuccess: invalidateQueries cancels the fetch of a query in view and   *)
(* starts another; out of view the fetch goes on.                          *)
\* Mutant: a fetch under way is left to finish (cancelRefetch: FALSE).
Succeeds_NoCancel(i) ==
    /\ changes[i].status = "applied"
    /\ Becomes(i, "succeeded")
    /\ request' = IF changes[i].refreshes /\ Shown /\ request = None
                  THEN Sent ELSE request
    /\ UNCHANGED <<query, place, world, data, failed, blind, known>>

Succeeds(i) ==
    /\ changes[i].status = "applied"
    /\ Becomes(i, "succeeded")
    /\ IF changes[i].refreshes /\ Shown
       THEN request' = Sent /\ blind' = FALSE
       ELSE UNCHANGED request /\ blind' = (blind \/ (request # None /\ ~Shown))
    /\ UNCHANGED <<query, place, world, data, failed, known>>

(* The server refuses the change, or its answer is lost: onError only      *)
(* tells the user.                                                         *)
Fails(i) ==
    /\ \/ changes[i].status = "sent" /\ Becomes(i, "refused")
       \/ changes[i].status = "applied" /\ Becomes(i, "unanswered")
    /\ UNCHANGED <<query, place, world, data, request, failed, blind, known>>

WorldMoves ==
    /\ ~world /\ world' = TRUE
    /\ UNCHANGED <<query, place, changes, data, request, failed, blind, known>>

-----------------------------------------------------------------------------
Serve ==
    /\ request = Sent
    /\ request' = [stage |-> "answered", answer |-> Applied]
    /\ UNCHANGED <<query, place, server, data, failed, blind, known>>

Answered == request.stage = "answered"
Deliver ==
    /\ Answered
    /\ data' = request.answer /\ request' = None /\ failed' = FALSE
    /\ UNCHANGED <<query, place, server, blind, known>>

FetchFails ==
    /\ Answered
    /\ request' = None /\ failed' = TRUE
    /\ UNCHANGED <<query, place, server, data, blind, known>>

Refetch ==
    /\ Shown /\ ~query.loader /\ request = None
    /\ request' = Sent /\ blind' = FALSE
    /\ UNCHANGED <<query, place, server, data, failed, known>>

(* refetchOnWindowFocus, the default of the QueryClient.                   *)
WindowFocus == Refetch
(* refetchInterval: its timer runs while an observer is mounted.           *)
\* Mutant: the interval ends with the first answer.
Poll_Once == query.polls /\ data = Nothing /\ Refetch

Poll == query.polls /\ Refetch

-----------------------------------------------------------------------------
\* The addresses where the query is shown or changed, and one more.
Relevant(p) ==
    \/ p.path \in {"/", "/login"}
    \/ query \in p.shows
    \/ \E m \in p.offers : Concerns(m) \/ Invalidates(m, query)

Init ==
    /\ query \in AllQueries
    /\ \E p \in Places :
        /\ address = p.path /\ view = p.view /\ p.first /\ Relevant(p)
        /\ request = IF query \in p.shows THEN Sent ELSE None
    /\ moves = 0 /\ changes = <<>> /\ world = FALSE
    /\ data = Nothing /\ failed = FALSE /\ blind = FALSE /\ known = {}

Walk ==
    \/ \E p \in Places : (Relevant(p) /\ Navigate(p)) \/ SwitchTab(p)
    \/ Close
    \/ \E m \in Here.offers : Submit(m)
Answers ==
    \/ \E i \in Changes : ServerApplies(i) \/ Succeeds(i)
    \/ Serve \/ Deliver
Failures == FetchFails \/ \E i \in Changes : Fails(i)

Next == Walk \/ Answers \/ Failures \/ WorldMoves \/ WindowFocus \/ Poll
Spec == Init /\ [][Next]_vars

(* The server answers, the timers fire, and not every answer to a fetch is *)
(* lost.                                                                   *)
FairSpec == Spec /\ WF_vars(Answers) /\ SF_vars(Deliver) /\ WF_vars(Poll)

-----------------------------------------------------------------------------
TypeOK ==
    /\ query \in AllQueries /\ \E p \in Places : p.path = address /\ p.view = view
    /\ moves \in 0 .. MaxMoves /\ Len(changes) <= MaxChanges
    /\ \A i \in Changes : changes[i].status
           \in {"sent", "applied", "succeeded", "refused", "unanswered"}
    /\ data = Nothing \/ data \subseteq Changes \cup {World}
    /\ request.answer \subseteq Changes \cup {World}
    /\ known \subseteq Changes

(* What a page shows of its own resource has caught up with every change   *)
(* that the user knows to have succeeded, once its fetches have ended: the *)
(* lists under the dialogs, the entity in them, the tables in their tabs   *)
(* (every onSuccess).  What a loader gave has caught up with the changes   *)
(* known when the dialog was opened.  Left out are the hosts to chain,     *)
(* which no mutation invalidates, and blind fetches, which were under way, *)
(* out of view, when the success came.                                     *)
Settled == request = None /\ ~failed /\ ~blind
Current == IF query.loader THEN known ELSE Status("succeeded")
ViewIsCurrent ==
    Shown /\ Settled /\ query # AllHostsForChain =>
        {i \in Current : changes[i].concerns} \subseteq data

(* Whatever dialog the user closes or submits, it is over the list that    *)
(* its change concerns that it closes (the onClose of each route).         *)
ClosesOverItsList ==
    [][IsDialog /\ address' # address /\ moves' = moves =>
           address' = Here.page /\ ~IsDialog']_vars

(* What is polled and stays in view takes up what others have changed      *)
(* (the queries with a refetchInterval).                                   *)
PolledIsCurrent ==
    <>[](query.polls /\ Shown /\ world => data # Nothing /\ World \in data)
=============================================================================
