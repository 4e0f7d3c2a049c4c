------------------------------ MODULE Session ------------------------------
(***************************************************************************)
(* Who is logged in to the dashboard.  The tabs of a browser share the     *)
(* token and the role of the admin (localStorage), and each checks its     *)
(* admin with a request whose answer is awaited: the layout before it      *)
(* opens an address, and SudoRoute after a page for sudo admins is shown.  *)
(* Meanwhile the user moves on, another tab logs in or out, tokens expire  *)
(* and answers are lost.                                                   *)
(***************************************************************************)
EXTENDS Routes, Integers, FiniteSets

CONSTANTS
    Tabs,
    Admins_,      \* the admins who log in
    Sudo,         \* those of them who are sudo
    Addresses,    \* the paths, other than that of the login page, visited
    MaxLogins,    \* bound on the tokens issued
    MaxPosts,     \* bound on the logins under way
    MaxGuards     \* bound on the checks of SudoRoute under way in a tab

ASSUME SessionAssumption ==
    /\ Sudo \subseteq Admins_
    /\ Addresses \subseteq {p.path : p \in Places} \ {"/login"} /\ "/" \in Addresses
    /\ MaxLogins \in Nat /\ MaxPosts \in Nat /\ MaxGuards \in Nat

VARIABLES
    token,     \* localStorage "token": the number of the login, or NoToken
    isSudo,    \* localStorage "is-sudo"
    issued,    \* the server: the admin of each token
    at,        \* the address that each tab shows
    going,     \* the address each tab waits to open, with the check of it
    guards,    \* the checks of SudoRoute that each tab awaits
    posts,     \* the logins that each tab awaits
    menu,      \* the token and role under which each tab drew its menus
    since      \* history: a login has succeeded since the tab was at /login

stored == <<token, isSudo>>
vars == <<stored, issued, at, going, guards, posts, menu, since>>

NoToken == 0
Tokens == 1 .. Len(issued)
Paths == Addresses \cup {"/login"}
PlaceAt(path) == Opened(path)
Guarded(path) == PlaceAt(path).sudo

(* isLoggedIn: GET /admins/current with the token that is stored when it   *)
(* is called.  A token that has expired, an answer that is lost and        *)
(* whatever else goes wrong count as not logged in.                        *)
isLoggedIn == token # NoToken
MayBe(held) == {FALSE, held}
Nowhere == [to |-> "/login", held |-> FALSE, drawn |-> NoToken]
NoMenu == [token |-> NoToken, sudo |-> FALSE]

-----------------------------------------------------------------------------
(* Menus: the sidebar, the bar at the bottom of a small screen, the menu   *)
(* of the header, the commands of the search box, the logo.                *)

sidebarItems ==
    {"/", "/users", "/services", "/nodes", "/hosts", "/proxy-pools", "/admins",
     "/settings"}
sidebarItemsNonSudoAdmin == {"/", "/users"}
BottomMenu(sudo) ==
    {"/users", "/"} \cup IF sudo THEN {"/services", "/nodes", "/hosts"} ELSE {}
HeaderMenu(sudo) == IF sudo THEN {"/settings", "/admins"} ELSE {}
commandItems ==
    {[path |-> p, sudo |-> FALSE] : p \in {"/users", "/users/create"}} \cup
    {[path |-> p, sudo |-> TRUE] :
        p \in {"/services", "/nodes", "/hosts", "/admins", "/services/create",
               "/nodes/create", "/admins/create", "/settings"}}
\* Mutant: the commands are not filtered.
CommandItems_All(sudo) == {c.path : c \in commandItems}

CommandItems(sudo) == {c.path : c \in {d \in commandItems : sudo \/ ~d.sudo}}
Links(sudo) ==
    (IF sudo THEN sidebarItems ELSE sidebarItemsNonSudoAdmin)
        \cup BottomMenu(sudo) \cup HeaderMenu(sudo) \cup CommandItems(sudo) \cup {"/"}

-----------------------------------------------------------------------------
(* LoginPage drops the token as it is drawn, and leaves the role.          *)
\* Mutant: only Logout drops the token.
LoginPageDrawn_KeepsToken(t) ==
    /\ at' = [at EXCEPT ![t] = "/login"]
    /\ going' = [going EXCEPT ![t] = Nowhere]
    /\ menu' = [menu EXCEPT ![t] = NoMenu]
    /\ since' = [since EXCEPT ![t] = FALSE]
    /\ UNCHANGED stored

LoginPageDrawn(t) ==
    /\ at' = [at EXCEPT ![t] = "/login"]
    /\ going' = [going EXCEPT ![t] = Nowhere]
    /\ menu' = [menu EXCEPT ![t] = NoMenu]
    /\ since' = [since EXCEPT ![t] = FALSE]
    /\ token' = NoToken
    /\ UNCHANGED isSudo

(* beforeLoad of the layout: the old page stays until the check has ended. *)
(* History: the token for which the menu of the link was drawn.            *)
StartTo(t, path, held, drawn) ==
    going' = [going EXCEPT ![t] = [to |-> path, held |-> held, drawn |-> drawn]]

(* A URL is typed, or the history of the browser used.                     *)
TypeUrl(t, path) ==
    /\ IF path = "/login" THEN LoginPageDrawn(t)
       ELSE StartTo(t, path, isLoggedIn, NoToken) /\ UNCHANGED <<stored, at, menu, since>>
    /\ UNCHANGED <<issued, guards, posts>>

Click(t, path) ==
    /\ at[t] # "/login" /\ path \in Links(menu[t].sudo)
    /\ StartTo(t, path, isLoggedIn, IF Guarded(path) THEN menu[t].token ELSE NoToken)
    /\ UNCHANGED <<stored, issued, at, guards, posts, menu, since>>

\* Mutant: an address of which the router has no route.
Logout_Unrouted(t) ==
    /\ at[t] # "/login"
    /\ at' = [at EXCEPT ![t] = "/logout"]
    /\ UNCHANGED <<stored, issued, going, guards, posts, menu, since>>

Logout(t) ==
    /\ at[t] # "/login"
    /\ LoginPageDrawn(t)
    /\ UNCHANGED <<issued, guards, posts>>

-----------------------------------------------------------------------------
(* The address opens and the menus are drawn.  SudoRoute mounts, and its   *)
(* effect asks again, when the page is another than before.                *)
Mounted(t) ==
    LET to == going[t].to
    IN  Guarded(to) /\ (at[t] = "/login" \/ PlaceAt(to).page # PlaceAt(at[t]).page)
Guard(t) == [held |-> isLoggedIn, drawn |-> going[t].drawn]

DashboardOpens(t) ==
    /\ going[t] # Nowhere /\ TRUE \in MayBe(going[t].held)
    /\ at' = [at EXCEPT ![t] = going[t].to]
    /\ going' = [going EXCEPT ![t] = Nowhere]
    /\ IF Mounted(t)
       THEN /\ Len(guards[t]) < MaxGuards
            /\ guards' = [guards EXCEPT ![t] = Append(@, Guard(t))]
       ELSE UNCHANGED guards
    /\ menu' = [menu EXCEPT ![t] = [token |-> token, sudo |-> isSudo]]
    /\ UNCHANGED <<stored, issued, posts, since>>

\* beforeLoad throws redirect.
DashboardRedirects(t) ==
    /\ going[t] # Nowhere
    /\ LoginPageDrawn(t)
    /\ UNCHANGED <<issued, guards, posts>>

(* The menus are drawn again, with the role that is stored now.            *)
Redraw(t) ==
    /\ at[t] # "/login"
    /\ menu' = [menu EXCEPT ![t] = [token |-> token, sudo |-> isSudo]]
    /\ UNCHANGED <<stored, issued, at, going, guards, posts, since>>

(* checkAccess of SudoRoute, after its await: to the login page, even when *)
(* the user is at another page by now.                                     *)
\* Mutant: the method is tested instead of being called.
CheckAccess_NotCalled(t, i) ==
    /\ guards' = [guards EXCEPT ![t] = RemoveAt(@, i)]
    /\ \E loggedIn \in MayBe(guards[t][i].held) :
           IF loggedIn THEN UNCHANGED <<stored, at, going, menu, since>>
           ELSE LoginPageDrawn(t)
    /\ UNCHANGED <<issued, posts>>

CheckAccess(t, i) ==
    /\ guards' = [guards EXCEPT ![t] = RemoveAt(@, i)]
    /\ \E loggedIn \in MayBe(guards[t][i].held) :
           IF loggedIn /\ isSudo THEN UNCHANGED <<stored, at, going, menu, since>>
           ELSE LoginPageDrawn(t)
    /\ UNCHANGED <<issued, posts>>

-----------------------------------------------------------------------------
(* LoginForm: it stays open, and can be sent again, until the answer.      *)
Submit(t, a) ==
    /\ at[t] = "/login"
    /\ Cardinality(posts) < MaxPosts
    /\ posts' = posts \cup {[tab |-> t, admin |-> a, token |-> NoToken]}
    /\ UNCHANGED <<stored, issued, at, going, guards, menu, since>>

TokenIssued(p) ==
    /\ p.token = NoToken /\ Len(issued) < MaxLogins
    /\ issued' = Append(issued, p.admin)
    /\ posts' = (posts \ {p}) \cup {[p EXCEPT !.token = Len(issued')]}
    /\ UNCHANGED <<stored, at, going, guards, menu, since>>

(* A wrong password, or a lost answer: an error under the form.            *)
LoginFails(p) ==
    /\ posts' = posts \ {p}
    /\ UNCHANGED <<stored, issued, at, going, guards, menu, since>>

\* Mutant: the role is only ever set.
LoginAnswered_SetsSudo(p) ==
    /\ p.token # NoToken
    /\ posts' = posts \ {p}
    /\ token' = p.token
    /\ isSudo' = (isSudo \/ p.admin \in Sudo)
    /\ StartTo(p.tab, "/", TRUE, NoToken)
    /\ since' = [t \in Tabs |-> TRUE]
    /\ UNCHANGED <<issued, at, guards, menu>>

LoginAnswered(p) ==
    /\ p.token # NoToken
    /\ posts' = posts \ {p}
    /\ token' = p.token
    /\ isSudo' = (p.admin \in Sudo)
    /\ StartTo(p.tab, "/", TRUE, NoToken)
    /\ since' = [t \in Tabs |-> TRUE]
    /\ UNCHANGED <<issued, at, guards, menu>>

-----------------------------------------------------------------------------
Init ==
    /\ token = NoToken /\ isSudo = FALSE
    /\ issued = <<>>
    /\ at = [t \in Tabs |-> "/login"]
    /\ going = [t \in Tabs |-> Nowhere]
    /\ guards = [t \in Tabs |-> <<>>]
    /\ posts = {}
    /\ menu = [t \in Tabs |-> NoMenu]
    /\ since = [t \in Tabs |-> FALSE]

Moves(t) ==
    \/ \E path \in Paths : TypeUrl(t, path)
    \/ \E path \in Addresses : Click(t, path)
    \/ Logout(t)
    \/ Redraw(t)
    \/ \E a \in Admins_ : Submit(t, a)
Navigations(t) == DashboardOpens(t) \/ DashboardRedirects(t)
Guards(t) == \E i \in DOMAIN guards[t] : CheckAccess(t, i)
Logins == \E p \in posts : TokenIssued(p) \/ LoginFails(p) \/ LoginAnswered(p)

Next ==
    \/ \E t \in Tabs : Moves(t) \/ Navigations(t) \/ Guards(t)
    \/ Logins
Spec == Init /\ [][Next]_vars

\* Every request ends, and what awaits it goes on.
FairSpec == Spec /\ \A t \in Tabs : WF_vars(Guards(t))

-----------------------------------------------------------------------------
TypeOK ==
    /\ token \in {NoToken} \cup Tokens /\ isSudo \in BOOLEAN
    /\ Len(issued) <= MaxLogins
    /\ \A t \in Tabs :
        /\ at[t] \in Paths /\ going[t].to \in Paths
        /\ Len(guards[t]) <= MaxGuards
    /\ \A p \in posts : p.tab \in Tabs /\ p.token \in {NoToken} \cup Tokens

(* The stored role is that of the admin whose token is stored, whichever   *)
(* tab wrote them and whatever an earlier session left (setAuthToken and   *)
(* setSudo in LoginForm).                                                  *)
RoleOfToken == token # NoToken => isSudo = (issued[token] \in Sudo)

(* A tab that has been at the login page shows the dashboard again only    *)
(* after a login, in whichever tab: going back in the history, a check     *)
(* under way and a late SudoRoute do not bring it back (LoginPage).        *)
LoginNeeded == \A t \in Tabs : at[t] # "/login" => since[t]

(* An admin who is not sudo does not stay at a page for sudo admins that   *)
(* was entered, however it was entered (SudoRoute).                        *)
Intruder(t) == Guarded(at[t]) /\ ~isSudo
IntrudersLeave ==
    \A t \in Tabs : (guards[t] # <<>> /\ Intruder(t)) ~> ~Intruder(t)

(* Nobody who follows the menus is thrown out for not being sudo: an admin *)
(* known to be logged in is turned away only from an address that was      *)
(* typed, or when the token has changed since the menus were drawn         *)
(* (SudoRoute; the lists of the menus).                                    *)
MenusAreOpen ==
    [][\A t \in Tabs : \A i \in DOMAIN guards[t] :
          /\ guards'[t] = RemoveAt(guards[t], i) /\ guards'[t] # guards[t]
          /\ guards[t][i].held /\ ~isSudo
          => guards[t][i].drawn = NoToken \/ guards[t][i].drawn # token]_vars
=============================================================================
