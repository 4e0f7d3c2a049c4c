---------------------------- MODULE Session_proofs ----------------------------
(***************************************************************************)
(* The stored role is that of the stored token, the dashboard needs a      *)
(* login, and a menu opens what it shows: for every number of tabs,        *)
(* admins, logins and checks under way.                                    *)
(***************************************************************************)
EXTENDS Session, SequenceTheorems, TLAPS

Tries == [to : Paths, held : BOOLEAN, drawn : Nat]
Checks == [held : BOOLEAN, drawn : Nat]
Posts == [tab : Tabs, admin : Admins_, token : Nat]
Menus == [token : Nat, sudo : BOOLEAN]

StoredTyped ==
  /\ token \in Nat /\ isSudo \in BOOLEAN
  /\ issued \in Seq(Admins_) /\ Len(issued) <= MaxLogins
  /\ posts \in SUBSET Posts

TabsTyped ==
  /\ at \in [Tabs -> Paths]
  /\ going \in [Tabs -> Tries]
  /\ guards \in [Tabs -> Seq(Checks)] /\ \A t \in Tabs : Len(guards[t]) <= MaxGuards
  /\ menu \in [Tabs -> Menus]
  /\ since \in [Tabs -> BOOLEAN]

(* A token is the number of a login. *)
TokensIssued ==
  /\ token # NoToken => token \in Tokens
  /\ \A p \in posts : p.token # NoToken => p.token \in Tokens /\ issued[p.token] = p.admin

(* Whoever holds a token has logged in. *)
LoggedIn ==
  /\ token # NoToken => \A t \in Tabs : since[t]
  /\ \A t \in Tabs : going[t].held => since[t]

IInv == StoredTyped /\ TabsTyped /\ TokensIssued /\ RoleOfToken /\ LoggedIn /\ LoginNeeded

-----------------------------------------------------------------------------
(* The login page forgets the token, whatever brings a tab there. *)
LEMMA LoginPageStep ==
  ASSUME NEW t \in Tabs, LoginPageDrawn(t), TabsTyped, token \in Nat, isSudo \in BOOLEAN,
         LoggedIn, LoginNeeded
  PROVE  /\ token' = NoToken /\ isSudo' \in BOOLEAN
         /\ at' \in [Tabs -> Paths] /\ going' \in [Tabs -> Tries]
         /\ menu' \in [Tabs -> Menus] /\ since' \in [Tabs -> BOOLEAN]
         /\ LoggedIn' /\ LoginNeeded'
<1>1. "/login" \in Paths /\ Nowhere \in Tries /\ NoMenu \in Menus
  BY DEF Paths, Nowhere, Tries, NoMenu, Menus, NoToken
<1>2. /\ at' = [at EXCEPT ![t] = "/login"] /\ going' = [going EXCEPT ![t] = Nowhere]
      /\ menu' = [menu EXCEPT ![t] = NoMenu] /\ since' = [since EXCEPT ![t] = FALSE]
      /\ token' = NoToken /\ isSudo' = isSudo
  BY DEF LoginPageDrawn
<1>3. /\ at' \in [Tabs -> Paths] /\ going' \in [Tabs -> Tries]
      /\ menu' \in [Tabs -> Menus] /\ since' \in [Tabs -> BOOLEAN]
  BY <1>1, <1>2 DEF TabsTyped
<1>4. ~Nowhere.held
  BY DEF Nowhere
<1>5. LoggedIn'
  <2>1. ASSUME NEW u \in Tabs, going'[u].held PROVE since'[u]
    <3>1. u # t /\ going'[u] = going[u] /\ since'[u] = since[u]
      BY <1>2, <1>4, <2>1 DEF TabsTyped
    <3> QED BY <2>1, <3>1 DEF LoggedIn
  <2> QED BY <1>2, <2>1 DEF LoggedIn
<1>6. LoginNeeded'
  <2>1. ASSUME NEW u \in Tabs, at'[u] # "/login" PROVE since'[u]
    <3>1. u # t /\ at'[u] = at[u] /\ since'[u] = since[u]
      BY <1>2, <2>1 DEF TabsTyped
    <3> QED BY <2>1, <3>1 DEF LoginNeeded
  <2> QED BY <2>1 DEF LoginNeeded
<1> QED BY <1>2, <1>3, <1>5, <1>6

(* A tab that starts to open an address holds the check of its token. *)
LEMMA StartStep ==
  ASSUME NEW t \in Tabs, NEW path \in Paths, NEW held \in BOOLEAN, NEW drawn \in Nat,
         StartTo(t, path, held, drawn), TabsTyped, LoggedIn, held => since[t],
         UNCHANGED <<stored, since>>
  PROVE  going' \in [Tabs -> Tries] /\ LoggedIn'
<1>1. going' = [going EXCEPT ![t] = [to |-> path, held |-> held, drawn |-> drawn]]
  BY DEF StartTo
<1>2. [to |-> path, held |-> held, drawn |-> drawn] \in Tries
  BY DEF Tries
<1>3. going' \in [Tabs -> Tries]
  BY <1>1, <1>2 DEF TabsTyped
<1>4. ASSUME NEW u \in Tabs, going'[u].held PROVE since'[u]
  BY <1>1, <1>4 DEF TabsTyped, LoggedIn
<1> QED BY <1>3, <1>4 DEF LoggedIn, stored

-----------------------------------------------------------------------------
LEMMA InitInv == Init => IInv
<1> SUFFICES ASSUME Init PROVE IInv
  OBVIOUS
<1>1. "/login" \in Paths /\ Nowhere \in Tries /\ NoMenu \in Menus
  BY DEF Paths, Nowhere, Tries, NoMenu, Menus, NoToken
<1>2. StoredTyped
  <2>1. token = 0 /\ isSudo = FALSE /\ issued = <<>> /\ posts = {}
    BY DEF Init, NoToken
  <2>2. issued \in Seq(Admins_) /\ Len(issued) <= MaxLogins
    BY <2>1, SessionAssumption
  <2> QED BY <2>1, <2>2 DEF StoredTyped
<1>3. TabsTyped
  <2>1. <<>> \in Seq(Checks) /\ Len(<<>>) <= MaxGuards
    BY SessionAssumption
  <2> QED BY <1>1, <2>1 DEF Init, TabsTyped
<1>4. ~Nowhere.held
  BY DEF Nowhere
<1> QED BY <1>2, <1>3, <1>4 DEF IInv, Init, TokensIssued, RoleOfToken, LoggedIn, LoginNeeded

(* What no step but one of the login form touches. *)
LEMMA StoredStays ==
  ASSUME StoredTyped, TokensIssued, RoleOfToken, UNCHANGED <<issued, posts>>,
         (token' = NoToken /\ isSudo' \in BOOLEAN) \/ UNCHANGED <<token, isSudo>>
  PROVE  StoredTyped' /\ TokensIssued' /\ RoleOfToken'
<1>1. StoredTyped'
  BY DEF StoredTyped, NoToken
<1>2. TokensIssued'
  BY DEF TokensIssued, Tokens
<1>3. RoleOfToken'
  BY DEF RoleOfToken
<1> QED BY <1>1, <1>2, <1>3

LEMMA MovesStep ==
  ASSUME IInv, NEW t \in Tabs, Moves(t)
  PROVE  IInv'
<1>1. StoredTyped /\ TabsTyped /\ TokensIssued /\ RoleOfToken /\ LoggedIn /\ LoginNeeded
  BY DEF IInv
<1>2. token \in Nat /\ isSudo \in BOOLEAN /\ isLoggedIn \in BOOLEAN
  BY <1>1 DEF StoredTyped, isLoggedIn
<1>3. isLoggedIn => since[t]
  BY <1>1 DEF LoggedIn, isLoggedIn
<1>4. CASE LoginPageDrawn(t) /\ UNCHANGED <<issued, guards, posts>>
  <2>1. /\ token' = NoToken /\ isSudo' \in BOOLEAN
        /\ at' \in [Tabs -> Paths] /\ going' \in [Tabs -> Tries]
        /\ menu' \in [Tabs -> Menus] /\ since' \in [Tabs -> BOOLEAN]
        /\ LoggedIn' /\ LoginNeeded'
    BY <1>1, <1>2, <1>4, LoginPageStep
  <2>2. StoredTyped' /\ TokensIssued' /\ RoleOfToken'
    BY <1>1, <1>4, <2>1, StoredStays
  <2>3. TabsTyped'
    BY <1>1, <1>4, <2>1 DEF TabsTyped
  <2> QED BY <2>1, <2>2, <2>3 DEF IInv
<1>5. ASSUME NEW path \in Paths, NEW drawn \in Nat, StartTo(t, path, isLoggedIn, drawn),
             UNCHANGED <<stored, issued, at, guards, posts, menu, since>>
      PROVE  IInv'
  <2>1. going' \in [Tabs -> Tries] /\ LoggedIn'
    BY <1>1, <1>2, <1>3, <1>5, StartStep
  <2>2. StoredTyped' /\ TokensIssued' /\ RoleOfToken'
    BY <1>1, <1>5, StoredStays DEF stored
  <2>3. TabsTyped'
    BY <1>1, <1>5, <2>1 DEF TabsTyped
  <2>4. LoginNeeded'
    BY <1>1, <1>5 DEF LoginNeeded
  <2> QED BY <2>1, <2>2, <2>3, <2>4 DEF IInv
<1>6. CASE \E path \in Paths : TypeUrl(t, path)
  <2>1. PICK path \in Paths : TypeUrl(t, path)
    BY <1>6
  <2>2. CASE path = "/login"
    BY <1>4, <2>1, <2>2 DEF TypeUrl
  <2>3. CASE path # "/login"
    <3>1. NoToken \in Nat
      BY DEF NoToken
    <3> QED BY <1>5, <2>1, <2>3, <3>1 DEF TypeUrl
  <2> QED BY <2>2, <2>3
<1>7. CASE \E path \in Addresses : Click(t, path)
  <2>1. PICK path \in Addresses : Click(t, path)
    BY <1>7
  <2> DEFINE drawn == IF Guarded(path) THEN menu[t].token ELSE NoToken
  <2>2. path \in Paths /\ drawn \in Nat
    BY <1>1 DEF Paths, TabsTyped, Menus, NoToken
  <2>3. /\ StartTo(t, path, isLoggedIn, drawn)
        /\ UNCHANGED <<stored, issued, at, guards, posts, menu, since>>
    BY <2>1 DEF Click
  <2> HIDE DEF drawn
  <2> QED BY <1>5, <2>2, <2>3
<1>8. CASE Logout(t)
  BY <1>4, <1>8 DEF Logout
<1>9. CASE Redraw(t)
  <2>1. /\ menu' = [menu EXCEPT ![t] = [token |-> token, sudo |-> isSudo]]
        /\ UNCHANGED <<token, isSudo, issued, at, going, guards, posts, since>>
    BY <1>9 DEF Redraw, stored
  <2>2. TabsTyped'
    <3>1. [token |-> token, sudo |-> isSudo] \in Menus
      BY <1>2 DEF Menus
    <3> QED BY <1>1, <2>1, <3>1 DEF TabsTyped
  <2>3. StoredTyped' /\ TokensIssued' /\ RoleOfToken'
    BY <1>1, <2>1, StoredStays
  <2>4. LoggedIn' /\ LoginNeeded'
    BY <1>1, <2>1 DEF LoggedIn, LoginNeeded
  <2> QED BY <2>2, <2>3, <2>4 DEF IInv
<1>10. CASE \E a \in Admins_ : Submit(t, a)
  <2>1. PICK a \in Admins_ : /\ posts' = posts \cup {[tab |-> t, admin |-> a, token |-> NoToken]}
                             /\ UNCHANGED <<token, isSudo, issued, at, going, guards, menu, since>>
    BY <1>10 DEF Submit, stored
  <2>2. [tab |-> t, admin |-> a, token |-> NoToken] \in Posts
    BY DEF Posts, NoToken
  <2>3. StoredTyped'
    BY <1>1, <2>1, <2>2 DEF StoredTyped
  <2>4. TokensIssued' /\ RoleOfToken'
    BY <1>1, <2>1 DEF TokensIssued, Tokens, RoleOfToken
  <2>5. TabsTyped' /\ LoggedIn' /\ LoginNeeded'
    BY <1>1, <2>1 DEF TabsTyped, LoggedIn, LoginNeeded
  <2> QED BY <2>3, <2>4, <2>5 DEF IInv
<1> QED BY <1>6, <1>7, <1>8, <1>9, <1>10 DEF Moves

LEMMA NavigationsStep ==
  ASSUME IInv, NEW t \in Tabs, Navigations(t)
  PROVE  IInv'
<1>1. StoredTyped /\ TabsTyped /\ TokensIssued /\ RoleOfToken /\ LoggedIn /\ LoginNeeded
  BY DEF IInv
<1>2. token \in Nat /\ isSudo \in BOOLEAN
  BY <1>1 DEF StoredTyped
<1>3. CASE DashboardOpens(t)
  <2>1. /\ going[t] # Nowhere /\ TRUE \in MayBe(going[t].held)
        /\ at' = [at EXCEPT ![t] = going[t].to]
        /\ going' = [going EXCEPT ![t] = Nowhere]
        /\ menu' = [menu EXCEPT ![t] = [token |-> token, sudo |-> isSudo]]
        /\ UNCHANGED <<token, isSudo, issued, posts, since>>
    BY <1>3 DEF DashboardOpens, stored
  <2>2. going[t].held /\ since[t]
    <3>1. going[t].held \in BOOLEAN
      BY <1>1 DEF TabsTyped, Tries
    <3>2. going[t].held
      BY <2>1, <3>1 DEF MayBe
    <3> QED BY <1>1, <3>2 DEF LoggedIn
  <2>3. guards' \in [Tabs -> Seq(Checks)] /\ \A u \in Tabs : Len(guards'[u]) <= MaxGuards
    <3>1. CASE Mounted(t)
      <4>1. /\ Len(guards[t]) < MaxGuards
            /\ guards' = [guards EXCEPT ![t] = Append(@, Guard(t))]
        BY <1>3, <3>1 DEF DashboardOpens
      <4>2. Guard(t) \in Checks
        BY <1>1, <1>2 DEF Guard, Checks, TabsTyped, Tries, isLoggedIn
      <4>3. Append(guards[t], Guard(t)) \in Seq(Checks)
            /\ Len(Append(guards[t], Guard(t))) = Len(guards[t]) + 1
        BY <1>1, <4>2 DEF TabsTyped
      <4>4. Len(guards[t]) \in Nat /\ MaxGuards \in Nat
        BY <1>1, SessionAssumption DEF TabsTyped
      <4> QED BY <1>1, <4>1, <4>3, <4>4 DEF TabsTyped
    <3>2. CASE ~Mounted(t)
      <4>1. guards' = guards
        BY <1>3, <3>2 DEF DashboardOpens
      <4> QED BY <1>1, <4>1 DEF TabsTyped
    <3> QED BY <3>1, <3>2
  <2>4. TabsTyped'
    <3>1. [token |-> token, sudo |-> isSudo] \in Menus
      BY <1>2 DEF Menus
    <3>2. going[t].to \in Paths /\ Nowhere \in Tries
      BY <1>1 DEF TabsTyped, Tries, Nowhere, Paths, NoToken
    <3>3. /\ at' \in [Tabs -> Paths] /\ going' \in [Tabs -> Tries]
          /\ menu' \in [Tabs -> Menus] /\ since' \in [Tabs -> BOOLEAN]
      BY <1>1, <2>1, <3>1, <3>2 DEF TabsTyped
    <3> QED BY <2>3, <3>3 DEF TabsTyped
  <2>5. StoredTyped' /\ TokensIssued' /\ RoleOfToken'
    BY <1>1, <2>1, StoredStays
  <2>6. ASSUME NEW u \in Tabs, going'[u].held PROVE since'[u]
    <3>1. ~Nowhere.held
      BY DEF Nowhere
    <3>2. u # t /\ going'[u] = going[u]
      BY <1>1, <2>1, <2>6, <3>1 DEF TabsTyped
    <3> QED BY <1>1, <2>1, <2>6, <3>2 DEF LoggedIn
  <2>7. LoggedIn'
    BY <1>1, <2>1, <2>6 DEF LoggedIn
  <2>8. ASSUME NEW u \in Tabs, at'[u] # "/login" PROVE since'[u]
    <3>1. u = t \/ at'[u] = at[u]
      BY <1>1, <2>1 DEF TabsTyped
    <3> QED BY <1>1, <2>1, <2>2, <2>8, <3>1 DEF LoginNeeded
  <2>9. LoginNeeded'
    BY <2>8 DEF LoginNeeded
  <2> QED BY <2>4, <2>5, <2>7, <2>9 DEF IInv
<1>4. CASE DashboardRedirects(t)
  <2>1. LoginPageDrawn(t) /\ UNCHANGED <<issued, guards, posts>>
    BY <1>4 DEF DashboardRedirects
  <2>2. /\ token' = NoToken /\ isSudo' \in BOOLEAN
        /\ at' \in [Tabs -> Paths] /\ going' \in [Tabs -> Tries]
        /\ menu' \in [Tabs -> Menus] /\ since' \in [Tabs -> BOOLEAN]
        /\ LoggedIn' /\ LoginNeeded'
    BY <1>1, <1>2, <2>1, LoginPageStep
  <2>3. StoredTyped' /\ TokensIssued' /\ RoleOfToken'
    BY <1>1, <2>1, <2>2, StoredStays
  <2>4. TabsTyped'
    BY <1>1, <2>1, <2>2 DEF TabsTyped
  <2> QED BY <2>2, <2>3, <2>4 DEF IInv
<1> QED BY <1>3, <1>4 DEF Navigations

LEMMA GuardsStep ==
  ASSUME IInv, NEW t \in Tabs, Guards(t)
  PROVE  IInv'
<1>1. StoredTyped /\ TabsTyped /\ TokensIssued /\ RoleOfToken /\ LoggedIn /\ LoginNeeded
  BY DEF IInv
<1>2. token \in Nat /\ isSudo \in BOOLEAN
  BY <1>1 DEF StoredTyped
<1>3. PICK i \in DOMAIN guards[t] : CheckAccess(t, i)
  BY DEF Guards
<1>4. /\ guards' = [guards EXCEPT ![t] = RemoveAt(@, i)] /\ UNCHANGED <<issued, posts>>
      /\ \/ UNCHANGED <<token, isSudo, at, going, menu, since>>
         \/ LoginPageDrawn(t)
  BY <1>3 DEF CheckAccess, stored
<1>5. guards' \in [Tabs -> Seq(Checks)] /\ \A u \in Tabs : Len(guards'[u]) <= MaxGuards
  <2>1. guards[t] \in Seq(Checks) /\ Len(guards[t]) <= MaxGuards /\ MaxGuards \in Nat
    BY <1>1, SessionAssumption DEF TabsTyped
  <2> DEFINE a == SubSeq(guards[t], 1, i - 1)
             b == SubSeq(guards[t], i + 1, Len(guards[t]))
  <2>2. i \in 1..Len(guards[t])
    BY <2>1
  <2>3. a \in Seq(Checks) /\ Len(a) = i - 1
    BY <2>1, <2>2, SubSeqProperties
  <2>4. b \in Seq(Checks) /\ Len(b) = Len(guards[t]) - i
    BY <2>1, <2>2, SubSeqProperties
  <2>5. RemoveAt(guards[t], i) = a \o b
    BY DEF RemoveAt
  <2> HIDE DEF a, b
  <2>6. RemoveAt(guards[t], i) \in Seq(Checks) /\ Len(RemoveAt(guards[t], i)) <= MaxGuards
    BY <2>1, <2>2, <2>3, <2>4, <2>5, ConcatProperties
  <2> QED BY <1>1, <1>4, <2>6 DEF TabsTyped
<1>6. CASE UNCHANGED <<token, isSudo, at, going, menu, since>>
  <2>1. StoredTyped' /\ TokensIssued' /\ RoleOfToken'
    BY <1>1, <1>4, <1>6, StoredStays
  <2>2. TabsTyped' /\ LoggedIn' /\ LoginNeeded'
    BY <1>1, <1>5, <1>6 DEF TabsTyped, LoggedIn, LoginNeeded
  <2> QED BY <2>1, <2>2 DEF IInv
<1>7. CASE LoginPageDrawn(t)
  <2>1. /\ token' = NoToken /\ isSudo' \in BOOLEAN
        /\ at' \in [Tabs -> Paths] /\ going' \in [Tabs -> Tries]
        /\ menu' \in [Tabs -> Menus] /\ since' \in [Tabs -> BOOLEAN]
        /\ LoggedIn' /\ LoginNeeded'
    BY <1>1, <1>2, <1>7, LoginPageStep
  <2>2. StoredTyped' /\ TokensIssued' /\ RoleOfToken'
    BY <1>1, <1>4, <2>1, StoredStays
  <2>3. TabsTyped'
    BY <1>5, <2>1 DEF TabsTyped
  <2> QED BY <2>1, <2>2, <2>3 DEF IInv
<1> QED BY <1>4, <1>6, <1>7

LEMMA LoginsStep ==
  ASSUME IInv, Logins
  PROVE  IInv'
<1>1. StoredTyped /\ TabsTyped /\ TokensIssued /\ RoleOfToken /\ LoggedIn /\ LoginNeeded
  BY DEF IInv
<1>2. PICK p \in posts : TokenIssued(p) \/ LoginFails(p) \/ LoginAnswered(p)
  BY DEF Logins
<1>3. p \in Posts /\ p.admin \in Admins_ /\ p.tab \in Tabs
  BY <1>1 DEF StoredTyped, Posts
<1>4. issued \in Seq(Admins_) /\ Len(issued) \in Nat /\ MaxLogins \in Nat
  BY <1>1, SessionAssumption DEF StoredTyped
<1>5. CASE TokenIssued(p)
  <2> DEFINE n == Len(issued) + 1
  <2>1. /\ p.token = NoToken /\ Len(issued) < MaxLogins
        /\ issued' = Append(issued, p.admin)
        /\ posts' = (posts \ {p}) \cup {[p EXCEPT !.token = Len(issued')]}
        /\ UNCHANGED <<token, isSudo, at, going, guards, menu, since>>
    BY <1>5 DEF TokenIssued, stored
  <2>2. /\ issued' \in Seq(Admins_) /\ Len(issued') = n /\ n <= MaxLogins
        /\ issued'[n] = p.admin
        /\ \A i \in 1..Len(issued) : issued'[i] = issued[i]
    BY <1>3, <1>4, <2>1
  <2> DEFINE q == [p EXCEPT !.token = n]
  <2>3. q \in Posts /\ q.token = n /\ q.admin = p.admin
    BY <1>3, <1>4 DEF Posts
  <2>4. posts' = (posts \ {p}) \cup {q}
    BY <2>1, <2>2
  <2> HIDE DEF q
  <2>5. StoredTyped'
    BY <1>1, <2>1, <2>2, <2>3, <2>4 DEF StoredTyped
  <2>6. TokensIssued'
    <3>1. token' # NoToken => token' \in 1..Len(issued')
      BY <1>1, <1>4, <2>1, <2>2 DEF TokensIssued, Tokens
    <3>2. ASSUME NEW r \in posts', r.token # NoToken
          PROVE  r.token \in 1..Len(issued') /\ issued'[r.token] = r.admin
      <4>1. CASE r = q
        BY <1>4, <2>2, <2>3, <4>1
      <4>2. CASE r \in posts
        <5>1. r.token \in 1..Len(issued) /\ issued[r.token] = r.admin
          BY <1>1, <3>2, <4>2 DEF TokensIssued, Tokens
        <5> QED BY <1>4, <2>2, <5>1
      <4> QED BY <2>4, <4>1, <4>2
    <3> QED BY <3>1, <3>2 DEF TokensIssued, Tokens
  <2>7. RoleOfToken'
    <3>1. token # NoToken => token \in 1..Len(issued)
      BY <1>1 DEF TokensIssued, Tokens
    <3>2. token # NoToken => issued'[token] = issued[token]
      BY <2>2, <3>1
    <3> QED BY <1>1, <2>1, <3>2 DEF RoleOfToken
  <2>8. TabsTyped' /\ LoggedIn' /\ LoginNeeded'
    BY <1>1, <2>1 DEF TabsTyped, LoggedIn, LoginNeeded
  <2> QED BY <2>5, <2>6, <2>7, <2>8 DEF IInv
<1>6. CASE LoginFails(p)
  <2>1. posts' = posts \ {p} /\ UNCHANGED <<token, isSudo, issued, at, going, guards, menu, since>>
    BY <1>6 DEF LoginFails, stored
  <2>2. StoredTyped' /\ RoleOfToken'
    BY <1>1, <2>1 DEF StoredTyped, RoleOfToken
  <2>3. TokensIssued'
    BY <1>1, <2>1 DEF TokensIssued, Tokens
  <2>4. TabsTyped' /\ LoggedIn' /\ LoginNeeded'
    BY <1>1, <2>1 DEF TabsTyped, LoggedIn, LoginNeeded
  <2> QED BY <2>2, <2>3, <2>4 DEF IInv
<1>7. CASE LoginAnswered(p)
  <2>1. /\ p.token # NoToken /\ posts' = posts \ {p} /\ token' = p.token
        /\ isSudo' = (p.admin \in Sudo)
        /\ going' = [going EXCEPT ![p.tab] = [to |-> "/", held |-> TRUE, drawn |-> NoToken]]
        /\ since' = [t \in Tabs |-> TRUE]
        /\ UNCHANGED <<issued, at, guards, menu>>
    BY <1>7 DEF LoginAnswered, StartTo
  <2>2. p.token \in 1..Len(issued) /\ issued[p.token] = p.admin
    BY <1>1, <2>1 DEF TokensIssued, Tokens
  <2>3. isSudo' \in BOOLEAN
    <3>1. (p.admin \in Sudo) \in BOOLEAN
      OBVIOUS
    <3>2. isSudo' = (p.admin \in Sudo)
      BY <2>1
    <3> QED BY <3>1, <3>2, Zenon
  <2>4. StoredTyped'
    <3>1. token' \in Nat
      BY <1>4, <2>1, <2>2
    <3> QED BY <1>1, <2>1, <2>3, <3>1 DEF StoredTyped
  <2>5. TokensIssued'
    BY <1>1, <2>1, <2>2 DEF TokensIssued, Tokens
  <2>6. RoleOfToken'
    <3>1. issued'[token'] = p.admin
      BY <2>1, <2>2
    <3> QED BY <2>1, <3>1, Zenon DEF RoleOfToken
  <2>7. TabsTyped'
    <3>1. [to |-> "/", held |-> TRUE, drawn |-> NoToken] \in Tries
      BY SessionAssumption DEF Tries, Paths, NoToken
    <3> QED BY <1>1, <2>1, <3>1 DEF TabsTyped
  <2>8. LoggedIn' /\ LoginNeeded'
    BY <2>1 DEF LoggedIn, LoginNeeded
  <2> QED BY <2>4, <2>5, <2>6, <2>7, <2>8 DEF IInv
<1> QED BY <1>2, <1>5, <1>6, <1>7

LEMMA StepInv == IInv /\ [Next]_vars => IInv'
<1> SUFFICES ASSUME IInv, [Next]_vars PROVE IInv'
  OBVIOUS
<1>1. CASE \E t \in Tabs : Moves(t) \/ Navigations(t) \/ Guards(t)
  BY <1>1, MovesStep, NavigationsStep, GuardsStep
<1>2. CASE Logins
  BY <1>2, LoginsStep
<1>3. CASE UNCHANGED vars
  <2>1. UNCHANGED <<token, isSudo, issued, at, going, guards, posts, menu, since>>
    BY <1>3 DEF vars, stored
  <2>2. StoredTyped' /\ TabsTyped'
    BY <2>1 DEF IInv, StoredTyped, TabsTyped
  <2>3. TokensIssued' /\ RoleOfToken' /\ LoggedIn' /\ LoginNeeded'
    BY <2>1 DEF IInv, TokensIssued, Tokens, RoleOfToken, LoggedIn, LoginNeeded
  <2> QED BY <2>2, <2>3 DEF IInv
<1> QED BY <1>1, <1>2, <1>3 DEF Next

-----------------------------------------------------------------------------
(* The inductive invariant: tokens are issued ones, and whoever holds one has
   logged in since the login page was last drawn. *)
THEOREM SessionInductive == Spec => []IInv
BY InitInv, StepInv, PTL DEF Spec

(* Every variable keeps its type. *)
THEOREM SessionTypeCorrect == Spec => []TypeOK
<1>1. IInv => TypeOK
  <2> SUFFICES ASSUME IInv PROVE TypeOK
    OBVIOUS
  <2>1. /\ token \in {NoToken} \cup Tokens /\ isSudo \in BOOLEAN
        /\ Len(issued) <= MaxLogins
    BY DEF IInv, StoredTyped, TokensIssued
  <2>2. \A t \in Tabs : /\ at[t] \in Paths /\ going[t].to \in Paths
                        /\ Len(guards[t]) <= MaxGuards
    BY DEF IInv, TabsTyped, Tries
  <2>3. \A p \in posts : p.tab \in Tabs /\ p.token \in {NoToken} \cup Tokens
    BY DEF IInv, StoredTyped, Posts, TokensIssued
  <2> QED BY <2>1, <2>2, <2>3 DEF TypeOK
<1> QED BY <1>1, SessionInductive, PTL

(* Whichever tab logs in or out in whichever order: the stored role is that of the
   admin whose token is stored. *)
THEOREM RoleIsOfToken == Spec => []RoleOfToken
<1>1. IInv => RoleOfToken
  BY DEF IInv
<1> QED BY <1>1, SessionInductive, PTL

(* No tab leaves the login page without a login. *)
THEOREM NoWayBack == Spec => []LoginNeeded
<1>1. IInv => LoginNeeded
  BY DEF IInv
<1> QED BY <1>1, SessionInductive, PTL

-----------------------------------------------------------------------------
(* The pages of those who are not sudo *)

(* What the shapes of Routes give their routes: where they are, and for whom. *)
LEMMA RoutesAre ==
  ASSUME NEW path, NEW shows, NEW views, NEW onClose
  PROVE  /\ Layout(path, shows).path = path /\ ~Layout(path, shows).sudo
         /\ Layout(path, shows).views = Only(View({}, {}))
         /\ SudoLayout(path, shows).path = path
         /\ Page(path, views).path = path /\ ~Page(path, views).sudo
         /\ Page(path, views).views = views
         /\ SudoPage(path, views).path = path
         /\ Dialog(path, views, onClose).path = path /\ ~Dialog(path, views, onClose).sudo
         /\ Dialog(path, views, onClose).views = views
<1>1. PICK l : l = Layout(path, shows)
  OBVIOUS
<1>2. /\ l.path = path /\ ~l.sudo /\ l.views = Only(View({}, {}))
      /\ l = [x \in DOMAIN l |-> l[x]] /\ DOMAIN l = {"path", "sudo", "shows", "views", "onClose"}
  BY <1>1 DEF Layout
<1>3. PICK k : k = Layout(path, {})
  OBVIOUS
<1>4. /\ k.path = path /\ ~k.sudo
      /\ DOMAIN k = {"path", "sudo", "shows", "views", "onClose"}
  BY <1>3 DEF Layout
<1>5. SudoLayout(path, shows).path = path
  BY <1>1, <1>2 DEF SudoLayout
<1>6. PICK p : p = [k EXCEPT !.views = views]
  OBVIOUS
<1>7. /\ p.path = path /\ ~p.sudo /\ p.views = views
      /\ DOMAIN p = {"path", "sudo", "shows", "views", "onClose"}
  BY <1>4, <1>6
<1>8. Page(path, views) = p
  BY <1>3, <1>6 DEF Page
<1>9. SudoPage(path, views).path = path
  BY <1>7, <1>8 DEF SudoPage
<1>10. LET d == Dialog(path, views, onClose) IN d.path = path /\ ~d.sudo /\ d.views = views
  BY <1>7, <1>8 DEF Dialog
<1>11. QED
  BY <1>1, <1>2, <1>5, <1>7, <1>8, <1>9, <1>10

(* The same, for all paths, views and closings at once. *)
LEMMA PathsAre ==
  /\ \A path, shows : /\ ~Layout(path, shows).sudo
                      /\ Layout(path, shows).views = Only(View({}, {}))
  /\ \A path, shows : SudoLayout(path, shows).path = path
  /\ \A path, views : SudoPage(path, views).path = path
  /\ \A path, views, onClose : Dialog(path, views, onClose).path = path
  BY RoutesAre

(* The links of an administrator who is not sudo. *)
OpenPaths == {"/", "/users", "/users/create"}

(* All that is linked for those who are not sudo is among them. *)
LEMMA LinksAre == Links(FALSE) \subseteq OpenPaths
<1>1. ASSUME NEW c \in commandItems, ~c.sudo PROVE c.path \in OpenPaths
  <2>1. CASE c \in {[path |-> p, sudo |-> FALSE] : p \in {"/users", "/users/create"}}
    <3>1. PICK p \in {"/users", "/users/create"} : c = [path |-> p, sudo |-> FALSE]
      BY <2>1
    <3>2. QED
      BY <3>1 DEF OpenPaths
  <2>2. ASSUME NEW p, c = [path |-> p, sudo |-> TRUE] PROVE FALSE
    BY <1>1, <2>2
  <2>3. QED
    BY <2>1, <2>2 DEF commandItems
<1>2. CommandItems(FALSE) \subseteq OpenPaths
  BY <1>1 DEF CommandItems
<1>3. BottomMenu(FALSE) \subseteq OpenPaths /\ HeaderMenu(FALSE) \subseteq OpenPaths
  BY DEF BottomMenu, HeaderMenu, OpenPaths
<1>4. sidebarItemsNonSudoAdmin \subseteq OpenPaths /\ "/" \in OpenPaths
  BY DEF sidebarItemsNonSudoAdmin, OpenPaths
<1>5. QED
  BY <1>2, <1>3, <1>4 DEF Links

(* Routes that everybody may enter, those at which another address ends, and
   those beneath which there are such. *)
OpenRoutes ==
  {AuthLayout, LoginPage, DashboardLayout, DashboardPage, UsersPage, UserProvider, UserOpen,
   UserEdit, UserDelete, UserCreate}
OtherEnds ==
  {AdminsPage, AdminOpen, AdminEdit, AdminDelete, AdminCreate}
  \union {ServicesPage, ServiceOpen, ServiceEdit, ServiceDelete, ServiceCreate}
  \union {NodesPage, NodeOpen, NodeEdit, NodeDelete, NodeCreate}
  \union {HostsPage, HostOpen, HostEdit, HostDelete, HostCreate}
  \union {ProxyPoolsPage, PoolProvider, PoolServers, PoolEdit, PoolDelete, PoolCreate, Settings}
Providers == {AdminProvider, ServiceProvider, NodeProvider, HostProvider, PoolProvider}
AllRoutes == OpenRoutes \union OtherEnds \union Providers

(* An open route is nobody's in particular, and a linked one has a single view. *)
LEMMA OpenRoutesAre ==
  \A r \in OpenRoutes : ~r.sudo /\ (r.path \in OpenPaths => DOMAIN r.views = {"only"})
<1>1. \A v : DOMAIN Only(v) = {"only"}
  BY DEF Only
<1>2. /\ ~AuthLayout.sudo /\ ~DashboardLayout.sudo /\ ~UsersPage.sudo /\ ~UserProvider.sudo
      /\ AuthLayout.views = Only(View({}, {})) /\ DashboardLayout.views = Only(View({}, {}))
      /\ UsersPage.views = Only(View({}, {})) /\ UserProvider.views = Only(View({}, {}))
  BY PathsAre, Zenon DEF AuthLayout, DashboardLayout, UsersPage, UserProvider
<1>3. /\ ~LoginPage.sudo /\ LoginPage.views = Only(View({}, {}))
      /\ ~DashboardPage.sudo /\ DashboardPage.views = Only(View({UsersStats, TotalTraffics}, {}))
  BY RoutesAre DEF LoginPage, DashboardPage
<1>4. /\ ~UserOpen.sudo /\ UserOpen.path = "/users/$userId/"
      /\ ~UserEdit.sudo /\ UserEdit.path = "/users/$userId/edit"
      /\ ~UserDelete.sudo /\ UserDelete.path = "/users/$userId/delete"
      /\ ~UserCreate.sudo
      /\ UserCreate.views = useMutationDialog({ServicesOfForm}, useUsersCreationMutation)
  BY RoutesAre DEF UserOpen, UserEdit, UserDelete, UserCreate
<1>5. DOMAIN UserCreate.views = {"only"}
  BY <1>1, <1>4 DEF useMutationDialog
<1>6. QED
  BY <1>1, <1>2, <1>3, <1>4, <1>5 DEF OpenRoutes, OpenPaths

(* Nothing that is linked for those who are not sudo ends at the other routes. *)
LEMMA OtherEndsAre == \A r \in OtherEnds : r.path \notin OpenPaths
<1>1. /\ AdminsPage.path = "/admins" /\ AdminOpen.path = "/admins/$adminId/"
      /\ AdminEdit.path = "/admins/$adminId/edit" /\ AdminDelete.path = "/admins/$adminId/delete"
      /\ AdminCreate.path = "/admins/create"
  BY PathsAre DEF AdminsPage, AdminOpen, AdminEdit, AdminDelete, AdminCreate
<1>2. /\ ServicesPage.path = "/services" /\ ServiceOpen.path = "/services/$serviceId/"
      /\ ServiceEdit.path = "/services/$serviceId/edit"
      /\ ServiceDelete.path = "/services/$serviceId/delete"
      /\ ServiceCreate.path = "/services/create"
  BY PathsAre DEF ServicesPage, ServiceOpen, ServiceEdit, ServiceDelete, ServiceCreate
<1>3. /\ NodesPage.path = "/nodes" /\ NodeOpen.path = "/nodes/$nodeId/"
      /\ NodeEdit.path = "/nodes/$nodeId/edit" /\ NodeDelete.path = "/nodes/$nodeId/delete"
      /\ NodeCreate.path = "/nodes/create"
  BY PathsAre DEF NodesPage, NodeOpen, NodeEdit, NodeDelete, NodeCreate
<1>4. /\ HostsPage.path = "/hosts" /\ HostOpen.path = "/hosts/$hostId/"
      /\ HostEdit.path = "/hosts/$hostId/edit" /\ HostDelete.path = "/hosts/$hostId/delete"
      /\ HostCreate.path = "/hosts/$inboundId/create"
  BY PathsAre DEF HostsPage, HostOpen, HostEdit, HostDelete, HostCreate
<1>5. PoolProvider.path = "/proxy-pools/$poolId"
  BY RoutesAre DEF PoolProvider
<1>6. /\ ProxyPoolsPage.path = "/proxy-pools"
      /\ PoolServers.path = "/proxy-pools/$poolId/servers"
      /\ PoolEdit.path = "/proxy-pools/$poolId/edit"
      /\ PoolDelete.path = "/proxy-pools/$poolId/delete"
      /\ PoolCreate.path = "/proxy-pools/create" /\ Settings.path = "/settings"
  BY PathsAre
  DEF ProxyPoolsPage, PoolServers, PoolEdit, PoolDelete, PoolCreate, Settings
<1>7. QED
  BY <1>1, <1>2, <1>3, <1>4, <1>5, <1>6 DEF OtherEnds, OpenPaths

-----------------------------------------------------------------------------
(* Addresses *)

(* The routes from the root to a page: all open, or ending at another one. *)
Address(a) == a \in Seq(AllRoutes) /\ a # <<>>
OpenAddress(a) == Address(a) /\ ToSet(a) \subseteq OpenRoutes
OtherAddress(a) == Address(a) /\ Last(a) \in OtherEnds

(* An address of one route. *)
LEMMA LeafIs ==
  ASSUME NEW r
  PROVE  /\ r \in OpenRoutes => OpenAddress(Leaf(r))
         /\ r \in OtherEnds => OtherAddress(Leaf(r))
<1>1. Leaf(r) # <<>> /\ Len(Leaf(r)) = 1 /\ Leaf(r)[1] = r /\ DOMAIN Leaf(r) = {1}
  BY DEF Leaf
<1>2. r \in AllRoutes => Leaf(r) \in Seq(AllRoutes)
  BY DEF Leaf
<1>3. Last(Leaf(r)) = r /\ ToSet(Leaf(r)) = {r}
  BY <1>1 DEF Last, ToSet
<1>4. QED
  BY <1>1, <1>2, <1>3 DEF Address, OpenAddress, OtherAddress, AllRoutes

(* An address beneath a route ends where it did. *)
LEMMA BeneathIs ==
  ASSUME NEW r \in AllRoutes, NEW c, Address(c)
  PROVE  LET a == <<r>> \o c IN
         /\ Address(a) /\ Last(a) = Last(c) /\ ToSet(a) = {r} \union ToSet(c)
         /\ r \in OpenRoutes /\ OpenAddress(c) => OpenAddress(a)
         /\ OtherAddress(c) => OtherAddress(a)
<1>1. PICK a : a = <<r>> \o c
  OBVIOUS
<1>2. c \in Seq(AllRoutes) /\ c # <<>> /\ <<r>> \in Seq(AllRoutes)
      /\ Len(<<r>>) = 1 /\ <<r>>[1] = r
  BY DEF Address
<1>3. Len(c) \in Nat \ {0}
  BY <1>2, EmptySeq
<1>4. /\ a \in Seq(AllRoutes) /\ Len(a) = 1 + Len(c)
      /\ a[1] = r
      /\ \A i \in 1..Len(c) : a[i + 1] = c[i]
  BY <1>1, <1>2, <1>3, ConcatProperties
<1>5. Last(a) = Last(c)
  BY <1>3, <1>4 DEF Last
<1>6. ToSet(a) = {r} \union ToSet(c)
  <2>1. ASSUME NEW i \in DOMAIN a PROVE a[i] \in {r} \union ToSet(c)
    <3>1. i = 1 \/ (i - 1 \in 1..Len(c) /\ i = (i - 1) + 1)
      BY <1>3, <1>4, <2>1
    <3>2. i - 1 \in 1..Len(c) => a[i] = c[i - 1] /\ i - 1 \in DOMAIN c
      BY <1>2, <1>4, <3>1
    <3>3. QED
      BY <1>4, <3>1, <3>2 DEF ToSet
  <2>2. ASSUME NEW i \in DOMAIN c PROVE c[i] \in ToSet(a)
    <3>1. i \in 1..Len(c) /\ i + 1 \in DOMAIN a
      BY <1>2, <1>3, <1>4
    <3>2. QED
      BY <1>4, <3>1 DEF ToSet
  <2>3. r \in ToSet(a)
    BY <1>3, <1>4 DEF ToSet
  <2>4. QED
    BY <2>1, <2>2, <2>3 DEF ToSet
<1>7. Address(a)
  BY <1>3, <1>4 DEF Address
<1>8. QED
  BY <1>1, <1>5, <1>6, <1>7 DEF OpenAddress, OtherAddress

(* All addresses beneath a route. *)
LEMMA AllBeneath ==
  ASSUME NEW r \in AllRoutes, NEW C
  PROVE  /\ r \in OpenRoutes /\ (\A c \in C : OpenAddress(c)) =>
              \A a \in Beneath(r, C) : OpenAddress(a)
         /\ (\A c \in C : OtherAddress(c)) => \A a \in Beneath(r, C) : OtherAddress(a)
         /\ r \in OpenRoutes /\ (\A c \in C : OpenAddress(c) \/ OtherAddress(c)) =>
              \A a \in Beneath(r, C) : OpenAddress(a) \/ OtherAddress(a)
<1>1. \A c : OpenAddress(c) \/ OtherAddress(c) => Address(c)
  BY DEF OpenAddress, OtherAddress
<1>2. QED
  BY <1>1, BeneathIs DEF Beneath

(* The tree of routes has addresses of open routes, and those that end elsewhere. *)
LEMMA TreeIs == \A a \in routeTree : OpenAddress(a) \/ OtherAddress(a)
<1>1. /\ AdminProvider \in AllRoutes /\ AdminsPage \in AllRoutes
      /\ ServiceProvider \in AllRoutes /\ ServicesPage \in AllRoutes
      /\ NodeProvider \in AllRoutes /\ NodesPage \in AllRoutes
      /\ HostProvider \in AllRoutes /\ HostsPage \in AllRoutes
      /\ PoolProvider \in AllRoutes /\ ProxyPoolsPage \in AllRoutes
  BY DEF AllRoutes, OtherEnds, Providers
<1>2. \A r \in OpenRoutes : r \in AllRoutes
  BY DEF AllRoutes
<1>3. {AuthLayout, DashboardLayout, UsersPage, UserProvider} \subseteq OpenRoutes
  BY DEF OpenRoutes
<1>4. \A a \in AndBeneath(UsersPage, DashboardUsersLazyRouteChildren) : OpenAddress(a)
  <2>1. \A c \in DashboardUsersUserIdRouteChildren \union {Leaf(UserCreate), Leaf(UsersPage)} :
          OpenAddress(c)
    BY LeafIs DEF DashboardUsersUserIdRouteChildren, OpenRoutes
  <2>2. \A c \in DashboardUsersLazyRouteChildren : OpenAddress(c)
    BY <1>2, <1>3, <2>1, AllBeneath DEF DashboardUsersLazyRouteChildren
  <2>3. QED
    BY <1>2, <1>3, <2>1, <2>2, AllBeneath DEF AndBeneath
<1>5. \A a \in AndBeneath(AdminsPage, DashboardAdminsLazyRouteChildren) : OtherAddress(a)
  <2>1. \A c \in DashboardAdminsAdminIdRouteChildren
                   \union {Leaf(AdminCreate), Leaf(AdminsPage)} : OtherAddress(c)
    BY LeafIs DEF DashboardAdminsAdminIdRouteChildren, OtherEnds
  <2>2. \A c \in DashboardAdminsLazyRouteChildren : OtherAddress(c)
    BY <1>1, <2>1, AllBeneath DEF DashboardAdminsLazyRouteChildren
  <2>3. QED
    BY <1>1, <2>1, <2>2, AllBeneath DEF AndBeneath
<1>6. \A a \in AndBeneath(ServicesPage, DashboardServicesLazyRouteChildren) : OtherAddress(a)
  <2>1. \A c \in DashboardServicesServiceIdRouteChildren
                   \union {Leaf(ServiceCreate), Leaf(ServicesPage)} : OtherAddress(c)
    BY LeafIs DEF DashboardServicesServiceIdRouteChildren, OtherEnds
  <2>2. \A c \in DashboardServicesLazyRouteChildren : OtherAddress(c)
    BY <1>1, <2>1, AllBeneath DEF DashboardServicesLazyRouteChildren
  <2>3. QED
    BY <1>1, <2>1, <2>2, AllBeneath DEF AndBeneath
<1>7. \A a \in AndBeneath(NodesPage, DashboardNodesLazyRouteChildren) : OtherAddress(a)
  <2>1. \A c \in DashboardNodesNodeIdRouteChildren
                   \union {Leaf(NodeCreate), Leaf(NodesPage)} : OtherAddress(c)
    BY LeafIs DEF DashboardNodesNodeIdRouteChildren, OtherEnds
  <2>2. \A c \in DashboardNodesLazyRouteChildren : OtherAddress(c)
    BY <1>1, <2>1, AllBeneath DEF DashboardNodesLazyRouteChildren
  <2>3. QED
    BY <1>1, <2>1, <2>2, AllBeneath DEF AndBeneath
<1>8. \A a \in AndBeneath(HostsPage, DashboardHostsLazyRouteChildren) : OtherAddress(a)
  <2>1. \A c \in DashboardHostsHostIdRouteChildren
                   \union {Leaf(HostCreate), Leaf(HostsPage)} : OtherAddress(c)
    BY LeafIs DEF DashboardHostsHostIdRouteChildren, OtherEnds
  <2>2. \A c \in DashboardHostsLazyRouteChildren : OtherAddress(c)
    BY <1>1, <2>1, AllBeneath DEF DashboardHostsLazyRouteChildren
  <2>3. QED
    BY <1>1, <2>1, <2>2, AllBeneath DEF AndBeneath
<1>9. \A a \in AndBeneath(ProxyPoolsPage, DashboardProxyPoolsLazyRouteChildren) : OtherAddress(a)
  <2>1. \A c \in DashboardProxyPoolsPoolIdRouteChildren
                   \union {Leaf(PoolProvider), Leaf(PoolCreate), Leaf(ProxyPoolsPage)} :
          OtherAddress(c)
    BY LeafIs DEF DashboardProxyPoolsPoolIdRouteChildren, OtherEnds
  <2>2. \A c \in DashboardProxyPoolsLazyRouteChildren : OtherAddress(c)
    BY <1>1, <2>1, AllBeneath DEF DashboardProxyPoolsLazyRouteChildren, AndBeneath
  <2>3. QED
    BY <1>1, <2>1, <2>2, AllBeneath DEF AndBeneath
<1>10. OtherAddress(Leaf(Settings)) /\ OpenAddress(Leaf(DashboardPage))
  BY LeafIs DEF OtherEnds, OpenRoutes
<1>11. \A c \in DashboardRouteChildren : OpenAddress(c) \/ OtherAddress(c)
  BY <1>4, <1>5, <1>6, <1>7, <1>8, <1>9, <1>10 DEF DashboardRouteChildren
<1>12. \A c \in AuthRouteChildren : OpenAddress(c)
  BY LeafIs DEF AuthRouteChildren, OpenRoutes
<1>13. QED
  BY <1>2, <1>3, <1>11, <1>12, AllBeneath DEF routeTree

(* Nothing in the menu of those who are not sudo is for sudo admins only. *)
LEMMA LinksAreOpen == \A path \in Links(FALSE) \intersect Addresses : ~Guarded(path)
<1> SUFFICES ASSUME NEW path \in Addresses, path \in OpenPaths PROVE ~Guarded(path)
  BY LinksAre
<1>1. ASSUME NEW p \in Places, p.path = path PROVE p.first /\ ~p.sudo
  <2>1. PICK a \in routeTree : p \in PlacesOf(a)
    BY <1>1 DEF Places
  <2>2. PICK v \in DOMAIN Last(a).views :
          /\ p.path = Last(a).path
          /\ p.first <=> v \in FirstViews
          /\ p.sudo <=> \E r \in ToSet(a) : r.sudo
    <3>1. PICK v \in DOMAIN Last(a).views :
            p = [path |-> PathOf(a), view |-> v, first |-> v \in FirstViews,
                 sudo |-> \E r \in ToSet(a) : r.sudo,
                 page |-> a[2].path, onClose |-> Last(a).onClose,
                 shows |-> {q : q \in Queries(a, v)},
                 offers |-> Last(a).views[v].offers, closes |-> Last(a).views[v].closes]
      BY <2>1, Zenon DEF PlacesOf
    <3>2. p.path = Last(a).path
      BY <3>1 DEF PathOf
    <3>3. p.first = (v \in FirstViews)
      BY <3>1, Zenon
    <3>4. p.sudo = \E r \in ToSet(a) : r.sudo
      BY <3>1, Zenon
    <3>5. QED
      BY <3>2, <3>3, <3>4, Zenon
  <2>3. ~OtherAddress(a)
    BY <1>1, <2>2, OtherEndsAre DEF OtherAddress
  <2>4. Address(a) /\ ToSet(a) \subseteq OpenRoutes
    BY <2>3, TreeIs DEF OpenAddress
  <2>5. Last(a) \in ToSet(a)
    <3>1. Len(a) \in Nat \ {0} /\ DOMAIN a = 1..Len(a)
      BY <2>4, EmptySeq DEF Address
    <3>2. QED
      BY <3>1 DEF Last, ToSet
  <2>6. v = "only"
    BY <1>1, <2>2, <2>4, <2>5, OpenRoutesAre
  <2>7. ~\E r \in ToSet(a) : r.sudo
    BY <2>4, OpenRoutesAre
  <2>8. QED
    BY <2>2, <2>6, <2>7, Zenon DEF FirstViews
<1>2. \E p \in Places : p.path = path
  <2>1. path \in {p.path : p \in Places}
    BY SessionAssumption
  <2>2. QED
    BY <2>1
<1>3. \E p \in Places : p.path = path /\ p.first
  BY <1>1, <1>2
<1>4. Opened(path) \in Places /\ Opened(path).path = path
  <2> DEFINE P(p) == p.path = path /\ p.first
  <2>1. \E p \in Places : P(p)
    BY <1>3
  <2>2. Opened(path) = CHOOSE p \in Places : P(p)
    BY DEF Opened
  <2> HIDE DEF P
  <2>3. Opened(path) \in Places /\ P(Opened(path))
    BY <2>1, <2>2
  <2>4. QED
    BY <2>3 DEF P
<1>5. QED
  BY <1>1, <1>4 DEF Guarded, PlaceAt

-----------------------------------------------------------------------------
(* What is drawn for a sudo admin is opened for one *)

(* No token, or one of a sudo admin. *)
Trusted == {NoToken} \union {k \in Tokens : issued[k] \in Sudo}
TrustedChecks == {g \in Checks : g.drawn \in Trusted}

(* The token for which the menu with a link was drawn, where the link is guarded,
   is that of a sudo admin, on its way through the router and SudoRoute. *)
MenusTrusted ==
  /\ \A t \in Tabs : menu[t].sudo => menu[t].token \in Trusted
  /\ \A t \in Tabs : going[t].drawn \in Trusted
  /\ \A t \in Tabs : guards[t] \in Seq(TrustedChecks)

(* Tokens are issued, and never taken back. *)
LEMMA TrustStays == ASSUME IInv, Next PROVE Trusted \subseteq Trusted'
<1>1. issued \in Seq(Admins_)
  BY DEF IInv, StoredTyped
<1>2. CASE UNCHANGED issued
  BY <1>2 DEF Trusted, Tokens
<1>3. CASE \E a \in Admins_ : issued' = Append(issued, a)
  <2>1. PICK a \in Admins_ : issued' = Append(issued, a)
    BY <1>3
  <2>2. Len(issued') = Len(issued) + 1 /\ \A k \in 1..Len(issued) : issued'[k] = issued[k]
    BY <1>1, <2>1
  <2>3. 1..Len(issued) \subseteq 1..Len(issued')
    BY <1>1, <2>2
  <2>4. QED
    BY <2>2, <2>3 DEF Trusted, Tokens
<1>4. ASSUME NEW p \in posts, TokenIssued(p) PROVE issued' = Append(issued, p.admin)
  BY <1>4 DEF TokenIssued
<1>5. \A p \in posts : p.admin \in Admins_
  BY DEF IInv, StoredTyped, Posts
<1>6. QED
  BY <1>2, <1>3, <1>4, <1>5
  DEF Next, Moves, Navigations, Guards, Logins, TypeUrl, Click, Logout, Redraw, Submit,
      DashboardOpens, DashboardRedirects, CheckAccess, LoginFails, LoginAnswered

(* The menus drawn with what is stored are trusted. *)
LEMMA StoredTrusted == IInv /\ isSudo => token \in Trusted
  BY DEF IInv, TokensIssued, RoleOfToken, Trusted

(* Every step keeps the links of the menus trusted. *)
LEMMA MenusStep ==
  ASSUME IInv, MenusTrusted, Next
  PROVE  MenusTrusted'
<1>1. Trusted \subseteq Trusted' /\ NoToken \in Trusted
  BY TrustStays DEF Trusted
<1>2. TabsTyped /\ StoredTyped
  BY DEF IInv
<1>3. TrustedChecks \subseteq TrustedChecks'
  BY <1>1 DEF TrustedChecks
<1>4. ASSUME NEW u \in Tabs, guards'[u] = guards[u] PROVE guards'[u] \in Seq(TrustedChecks')
  BY <1>3, <1>4 DEF MenusTrusted
<1>5. ASSUME NEW u \in Tabs, menu'[u] = menu[u], menu'[u].sudo PROVE menu'[u].token \in Trusted'
  BY <1>1, <1>5 DEF MenusTrusted
<1>6. ASSUME NEW u \in Tabs, going'[u] = going[u] PROVE going'[u].drawn \in Trusted'
  BY <1>1, <1>6 DEF MenusTrusted
<1>7. ASSUME NEW t \in Tabs, LoginPageDrawn(t)
      PROVE  /\ \A u \in Tabs : menu'[u].sudo => menu'[u].token \in Trusted'
             /\ \A u \in Tabs : going'[u].drawn \in Trusted'
  <2>1. menu' = [menu EXCEPT ![t] = NoMenu] /\ going' = [going EXCEPT ![t] = Nowhere]
    BY <1>7 DEF LoginPageDrawn
  <2>2. ~NoMenu.sudo /\ Nowhere.drawn = NoToken
    BY DEF NoMenu, Nowhere
  <2>3. \A u \in Tabs : u # t => menu'[u] = menu[u] /\ going'[u] = going[u]
    BY <1>2, <2>1 DEF TabsTyped
  <2>4. menu'[t] = NoMenu /\ going'[t] = Nowhere
    BY <1>2, <2>1 DEF TabsTyped
  <2>5. ASSUME NEW u \in Tabs
        PROVE  (menu'[u].sudo => menu'[u].token \in Trusted') /\ going'[u].drawn \in Trusted'
    BY <1>1, <1>5, <1>6, <2>2, <2>3, <2>4
  <2>6. QED
    BY <2>5
<1>8. ASSUME NEW t \in Tabs, NEW path, NEW held, NEW k \in Trusted, StartTo(t, path, held, k)
      PROVE  \A u \in Tabs : going'[u].drawn \in Trusted'
  <2>1. going' = [going EXCEPT ![t] = [to |-> path, held |-> held, drawn |-> k]]
    BY <1>8 DEF StartTo
  <2>2. going'[t].drawn = k /\ \A u \in Tabs : u # t => going'[u] = going[u]
    BY <1>2, <2>1 DEF TabsTyped
  <2>3. QED
    BY <1>1, <1>6, <1>8, <2>2
<1>9. ASSUME NEW t \in Tabs, menu' = [menu EXCEPT ![t] = [token |-> token, sudo |-> isSudo]]
      PROVE  \A u \in Tabs : menu'[u].sudo => menu'[u].token \in Trusted'
  <2>1. /\ menu'[t].token = token /\ menu'[t].sudo = isSudo
        /\ \A u \in Tabs : u # t => menu'[u] = menu[u]
    BY <1>2, <1>9 DEF TabsTyped
  <2>2. QED
    BY <1>1, <1>5, <2>1, StoredTrusted
<1>10. ASSUME NEW t \in Tabs, Moves(t) PROVE MenusTrusted'
  <2>1. CASE \E path \in Paths : TypeUrl(t, path)
    BY <1>1, <1>4, <1>5, <1>7, <1>8, <2>1 DEF TypeUrl, MenusTrusted
  <2>2. CASE \E path \in Addresses : Click(t, path)
    <3>1. PICK path \in Addresses : Click(t, path)
      BY <2>2
    <3>2. Guarded(path) => menu[t].sudo
      <4>1. menu[t].sudo \in BOOLEAN
        BY <1>2 DEF TabsTyped, Menus
      <4>2. path \in Links(menu[t].sudo)
        BY <3>1 DEF Click
      <4>3. QED
        BY <4>1, <4>2, LinksAreOpen
    <3>3. PICK k : k = IF Guarded(path) THEN menu[t].token ELSE NoToken
      OBVIOUS
    <3>4. k \in Trusted
      BY <1>1, <3>2, <3>3 DEF MenusTrusted
    <3>5. StartTo(t, path, isLoggedIn, k) /\ UNCHANGED <<guards, menu>>
      BY <3>1, <3>3 DEF Click
    <3>6. QED
      BY <1>4, <1>5, <1>8, <3>4, <3>5 DEF MenusTrusted
  <2>3. CASE Logout(t)
    BY <1>4, <1>7, <2>3 DEF Logout, MenusTrusted
  <2>4. CASE Redraw(t)
    BY <1>4, <1>6, <1>9, <2>4 DEF Redraw, MenusTrusted
  <2>5. CASE \E a \in Admins_ : Submit(t, a)
    BY <1>4, <1>5, <1>6, <2>5 DEF Submit, MenusTrusted
  <2>6. QED
    BY <1>10, <2>1, <2>2, <2>3, <2>4, <2>5 DEF Moves
<1>11. ASSUME NEW t \in Tabs, DashboardOpens(t) PROVE MenusTrusted'
  <2>1. /\ going' = [going EXCEPT ![t] = Nowhere]
        /\ menu' = [menu EXCEPT ![t] = [token |-> token, sudo |-> isSudo]]
        /\ IF Mounted(t) THEN guards' = [guards EXCEPT ![t] = Append(@, Guard(t))]
           ELSE UNCHANGED guards
    BY <1>11 DEF DashboardOpens
  <2>2. \A u \in Tabs : going'[u].drawn \in Trusted'
    <3>1. going'[t] = Nowhere /\ Nowhere.drawn = NoToken
      BY <1>2, <2>1 DEF TabsTyped, Nowhere
    <3>2. \A u \in Tabs : u # t => going'[u] = going[u]
      BY <1>2, <2>1 DEF TabsTyped
    <3>3. QED
      BY <1>1, <1>6, <3>1, <3>2
  <2>3. \A u \in Tabs : guards'[u] \in Seq(TrustedChecks')
    <3>1. PICK g : g = Guard(t)
      OBVIOUS
    <3>2. g \in TrustedChecks
      <4>1. g \in Checks
        BY <1>2, <3>1 DEF Guard, Checks, TabsTyped, Tries, isLoggedIn
      <4>2. g.drawn = going[t].drawn
        BY <3>1 DEF Guard
      <4>3. QED
        BY <4>1, <4>2 DEF TrustedChecks, MenusTrusted
    <3>3. guards[t] \in Seq(TrustedChecks)
      BY DEF MenusTrusted
    <3>4. Append(guards[t], g) \in Seq(TrustedChecks')
      BY <1>3, <3>2, <3>3
    <3>5. CASE Mounted(t)
      <4>1. guards' = [guards EXCEPT ![t] = Append(@, g)]
        BY <2>1, <3>1, <3>5
      <4>2. guards'[t] = Append(guards[t], g) /\ \A u \in Tabs : u # t => guards'[u] = guards[u]
        BY <1>2, <4>1 DEF TabsTyped
      <4>3. QED
        BY <1>4, <3>4, <4>2
    <3>6. QED
      BY <1>4, <2>1, <3>5
  <2>4. QED
    BY <1>9, <2>1, <2>2, <2>3 DEF MenusTrusted
<1>12. ASSUME NEW t \in Tabs, DashboardRedirects(t) PROVE MenusTrusted'
  BY <1>4, <1>7, <1>12 DEF DashboardRedirects, MenusTrusted
<1>13. ASSUME NEW t \in Tabs, NEW i \in DOMAIN guards[t], CheckAccess(t, i) PROVE MenusTrusted'
  <2>1. guards' = [guards EXCEPT ![t] = RemoveAt(@, i)]
    BY <1>13 DEF CheckAccess
  <2>2. RemoveAt(guards[t], i) \in Seq(TrustedChecks')
    <3>1. guards[t] \in Seq(TrustedChecks')
      BY <1>3 DEF MenusTrusted
    <3>2. SubSeq(guards[t], 1, i - 1) \in Seq(TrustedChecks')
      BY <3>1, SubSeqProperties
    <3>3. SubSeq(guards[t], i + 1, Len(guards[t])) \in Seq(TrustedChecks')
      BY <3>1, SubSeqProperties
    <3>4. QED
      BY <3>2, <3>3, ConcatProperties DEF RemoveAt
  <2>3. \A u \in Tabs : guards'[u] \in Seq(TrustedChecks')
    <3>1. guards'[t] = RemoveAt(guards[t], i) /\ \A u \in Tabs : u # t => guards'[u] = guards[u]
      BY <1>2, <2>1 DEF TabsTyped
    <3>2. QED
      BY <1>4, <2>2, <3>1
  <2>4. LoginPageDrawn(t) \/ UNCHANGED <<going, menu>>
    BY <1>13 DEF CheckAccess
  <2>5. QED
    BY <1>5, <1>6, <1>7, <2>3, <2>4 DEF MenusTrusted
<1>14. ASSUME NEW p \in posts, TokenIssued(p) \/ LoginFails(p) \/ LoginAnswered(p)
       PROVE  MenusTrusted'
  <2>1. p.tab \in Tabs /\ NoToken \in Trusted
    BY <1>1, <1>2 DEF StoredTyped, Posts
  <2>2. UNCHANGED <<guards, menu>>
    BY <1>14 DEF TokenIssued, LoginFails, LoginAnswered
  <2>3. UNCHANGED going \/ StartTo(p.tab, "/", TRUE, NoToken)
    BY <1>14 DEF TokenIssued, LoginFails, LoginAnswered
  <2>4. QED
    BY <1>4, <1>5, <1>6, <1>8, <2>1, <2>2, <2>3 DEF MenusTrusted
<1>15. QED
  BY <1>10, <1>11, <1>12, <1>13, <1>14 DEF Next, Navigations, Guards, Logins

(* For any tabs, admins, logins and checks, whoever follows a menu is opened what the
   menu shows, as long as the session is the one it was drawn for: whatever is
   awaited meanwhile, and whichever tab logs in as somebody else. *)
THEOREM MenusStayOpen == Spec => MenusAreOpen
<1>1. Init => MenusTrusted
  <2> SUFFICES ASSUME Init PROVE MenusTrusted
    OBVIOUS
  <2>1. ~NoMenu.sudo /\ Nowhere.drawn = NoToken /\ NoToken \in Trusted
    BY DEF NoMenu, Nowhere, Trusted
  <2>2. <<>> \in Seq(TrustedChecks)
    OBVIOUS
  <2>3. QED
    BY <2>1, <2>2 DEF Init, MenusTrusted
<1>2. IInv /\ MenusTrusted /\ [Next]_vars => MenusTrusted'
  <2> SUFFICES ASSUME IInv, MenusTrusted, [Next]_vars PROVE MenusTrusted'
    OBVIOUS
  <2>1. CASE UNCHANGED vars
    BY <2>1 DEF MenusTrusted, Trusted, TrustedChecks, Tokens, vars
  <2>2. QED
    BY <2>1, MenusStep
<1> DEFINE A == \A t \in Tabs : \A i \in DOMAIN guards[t] :
                  /\ guards'[t] = RemoveAt(guards[t], i) /\ guards'[t] # guards[t]
                  /\ guards[t][i].held /\ ~isSudo
                  => guards[t][i].drawn = NoToken \/ guards[t][i].drawn # token
<1>3. IInv /\ MenusTrusted => A
  <2> SUFFICES ASSUME IInv, MenusTrusted, NEW t \in Tabs, NEW i \in DOMAIN guards[t], ~isSudo,
                      guards[t][i].drawn = token, token # NoToken
               PROVE  FALSE
    OBVIOUS
  <2>1. guards[t][i] \in TrustedChecks
    BY DEF MenusTrusted
  <2>2. issued[token] \in Sudo
    BY <2>1 DEF TrustedChecks, Trusted
  <2>3. QED
    BY <2>2 DEF IInv, RoleOfToken
<1>4. IInv /\ MenusTrusted => [A]_vars
  BY <1>3
<1> HIDE DEF A
<1>5. Spec => [][A]_vars
  BY <1>1, <1>2, <1>4, SessionInductive, PTL DEF Spec
<1>6. QED
  BY <1>5 DEF A, MenusAreOpen
===============================================================================
