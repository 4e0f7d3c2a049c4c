-------------------------- MODULE EntityTable_proofs --------------------------
(***************************************************************************)
(* Proofs about the tables: for any table, page sizes, entities and        *)
(* clicks, and any overlap of requests and changes, rows at rest are what  *)
(* the server answers, what Apply sends are the ticked rows in view, a     *)
(* row's tick is the parent's or was clicked on that row, and the buttons  *)
(* lead to every other row.  The last three need to know what an answer    *)
(* looks like: how a page is cut from the list of what was found.          *)
(***************************************************************************)
EXTENDS EntityTable, FiniteSetTheorems, SeqFacts

(* A change was carried out and its success is not yet learnt. *)
Unlearnt == \E m \in mutations : m.done

Fresh(k, a) == a = Answer(db, RequestOf(k))

(* An answer under way is what the server would still answer, unless a
   change came in between, whose success cancels it or leaves it blind. *)
FlightFresh ==
    ~Unlearnt => \A k \in DOMAIN flight :
        flight[k].stage = "answered" /\ k \notin blind => Fresh(k, flight[k].answer)

(* So is the data of the key in view, once nothing is under way. *)
DataFresh ==
    ~Unlearnt /\ ~isFetching /\ Key \notin failed /\ Key \notin blind => Fresh(Key, data)

Shaped == \A m \in mutations : {"op", "ids", "done"} \subseteq DOMAIN m

IInv == FlightFresh /\ DataFresh /\ Shaped

-----------------------------------------------------------------------------
(* Keys and answers *)

LEMMA KeyStays ==
  ASSUME UNCHANGED <<table, page, size, primaryFilter, filter, sort, inbound>>
  PROVE  Key' = Key
  BY DEF Key, SortedBy, Descending

LEMMA WithFlightIs ==
  ASSUME NEW k, NEW f
  PROVE  /\ DOMAIN WithFlight(k, f) = DOMAIN flight \cup {k}
         /\ WithFlight(k, f)[k] = f
         /\ \A x \in DOMAIN flight \ {k} : WithFlight(k, f)[x] = flight[x]
  BY DEF WithFlight

(* Nothing that the answers depend on changes. *)
LEMMA StillFresh ==
  ASSUME FlightFresh, DataFresh, Unlearnt => Unlearnt', Key' = Key,
         UNCHANGED <<table, db, requests>>
  PROVE  FlightFresh' /\ DataFresh'
<1>1. /\ table' = table /\ db' = db /\ cache' = cache /\ flight' = flight
      /\ failed' = failed /\ blind' = blind
  BY DEF requests
<1>2. data' = data
  BY <1>1 DEF data, DataOf
<1>3. isFetching' <=> isFetching
  BY <1>1 DEF isFetching
<1>4. FlightFresh'
  BY <1>1 DEF FlightFresh, Fresh
<1>5. DataFresh'
  <2>1. SUFFICES ASSUME ~Unlearnt', ~isFetching', Key' \notin failed', Key' \notin blind'
                 PROVE  data' = Answer(db', RequestOf(Key'))
    BY DEF DataFresh, Fresh
  <2>2. data = Answer(db, RequestOf(Key))
    BY <1>1, <1>3, <2>1 DEF DataFresh, Fresh
  <2> QED BY <1>1, <1>2, <2>2
<1> QED BY <1>4, <1>5

(* Another key comes into view, or the same is fetched again. *)
LEMMA FetchesKey ==
  ASSUME FlightFresh, Unlearnt => Unlearnt', UNCHANGED <<table, db>>,
         NEW n, Key' = n,
         \/ n \in DOMAIN flight /\ flight' = flight /\ blind' = blind
         \/ flight' = WithFlight(n, Sent) /\ blind' = blind \ {n}
  PROVE  FlightFresh' /\ DataFresh'
<1>1. n \in DOMAIN flight'
  BY WithFlightIs
<1>2. DataFresh'
  BY <1>1 DEF DataFresh, isFetching
<1>3. CASE flight' = flight /\ blind' = blind
  BY <1>2, <1>3 DEF FlightFresh, Fresh
<1>4. CASE flight' = WithFlight(n, Sent) /\ blind' = blind \ {n}
  <2>1. SUFFICES ASSUME ~Unlearnt', NEW k \in DOMAIN flight',
                        flight'[k].stage = "answered", k \notin blind'
                 PROVE  flight'[k].answer = Answer(db', RequestOf(k))
    BY <1>2 DEF FlightFresh, Fresh
  <2>2. /\ DOMAIN flight' = DOMAIN flight \cup {n} /\ flight'[n] = Sent
        /\ \A x \in DOMAIN flight \ {n} : flight'[x] = flight[x]
    BY <1>4 DEF WithFlight
  <2>3. k # n
    <3>1. flight'[n].stage = "sent"
      BY <2>2 DEF Sent
    <3> QED BY <2>1, <3>1
  <2>4. k \in DOMAIN flight /\ flight'[k] = flight[k] /\ k \notin blind
    BY <1>4, <2>1, <2>2, <2>3
  <2>5. flight[k].answer = Answer(db, RequestOf(k))
    BY <2>1, <2>4 DEF FlightFresh, Fresh
  <2> QED BY <2>4, <2>5
<1> QED BY <1>2, <1>3, <1>4

LEMMA RerenderFresh ==
  ASSUME FlightFresh, DataFresh, KeyChanges,
         UNCHANGED <<table, db, mutations, cache, failed>>
  PROVE  FlightFresh' /\ DataFresh'
<1>1. Unlearnt => Unlearnt'
  BY DEF Unlearnt
<1>2. CASE Key' = Key
  <2>1. flight' = flight /\ blind' = blind
    BY <1>2 DEF KeyChanges
  <2> QED BY <1>1, <1>2, <2>1, StillFresh DEF requests
<1>3. CASE Key' # Key
  <2>1. PICK n : n = Key'
    OBVIOUS
  <2>2. /\ flight' = IF n \in DOMAIN flight THEN flight ELSE WithFlight(n, Sent)
        /\ blind' = IF n \in DOMAIN flight THEN blind ELSE blind \ {n}
    BY <1>3, <2>1 DEF KeyChanges
  <2> QED BY <1>1, <2>1, <2>2, FetchesKey
<1> QED BY <1>2, <1>3

LEMMA RequestsKeep ==
  ASSUME IInv, UNCHANGED mutations
  PROVE  Shaped'
  BY DEF IInv, Shaped

-----------------------------------------------------------------------------
(* Clicks *)

LEMMA RerenderStep ==
  ASSUME IInv, KeyChanges, UNCHANGED <<table, cache, failed, server>>
  PROVE  IInv'
<1>1. db' = db /\ mutations' = mutations /\ saved' = saved
  BY DEF server
<1> QED BY <1>1, RerenderFresh, RequestsKeep DEF IInv

LEMMA PagingStep == ASSUME IInv, Paging PROVE IInv'
<1>1. ASSUME NEW i, SetPage(i) PROVE IInv'
  BY <1>1, RerenderStep DEF SetPage, Rerender
<1>2. ASSUME NEW n \in Sizes, SetPageSize(n) PROVE IInv'
  BY <1>2, RerenderStep DEF SetPageSize
<1>3. FirstPage \/ PreviousPage \/ NextPage \/ LastPage => \E i : SetPage(i)
  BY DEF FirstPage, PreviousPage, NextPage, LastPage
<1> QED BY <1>1, <1>2, <1>3 DEF Paging

LEMMA DebounceStep == ASSUME IInv, Debounce PROVE IInv'
  BY RerenderStep DEF Debounce, Rerender

LEMMA StillStep ==
  ASSUME IInv, UNCHANGED <<table, page, size, primaryFilter, filter, sort, inbound,
                           db, requests, mutations, saved>>
  PROVE  IInv'
<1>1. Key' = Key
  BY KeyStays
<1>2. Unlearnt => Unlearnt'
  BY DEF Unlearnt
<1> QED BY <1>1, <1>2, StillFresh, RequestsKeep DEF IInv

LEMMA NarrowingStep == ASSUME IInv, Narrowing PROVE IInv'
<1>1. ASSUME TypeKeyword PROVE IInv'
  BY <1>1, StillStep DEF TypeKeyword, server
<1>2. ASSUME NEW isDesktop \in BOOLEAN, PickFilter(isDesktop) PROVE IInv'
  BY <1>2, RerenderStep DEF PickFilter, Rerender
<1>3. ASSUME handleClearingFilter PROVE IInv'
  BY <1>3, RerenderStep DEF handleClearingFilter, Rerender
<1>4. ASSUME NEW c, NEW d, ToggleSorting(c, d) PROVE IInv'
  BY <1>4, RerenderStep DEF ToggleSorting, Rerender
<1>5. ASSUME NEW i, setSidebarEntityId(i) PROVE IInv'
  BY <1>5, RerenderStep DEF setSidebarEntityId, Rerender
<1> QED BY <1>1, <1>2, <1>3, <1>4, <1>5 DEF Narrowing

LEMMA ReopenStep == ASSUME IInv, Reopen PROVE IInv'
<1>1. /\ table' = table /\ cache' = cache /\ failed' = failed /\ db' = db
      /\ mutations' = mutations /\ saved' = saved
  BY DEF Reopen
<1>2. PICK n : n = Key'
  OBVIOUS
<1>3. /\ flight' = IF n \in DOMAIN flight THEN flight ELSE WithFlight(n, Sent)
      /\ blind' = IF n \in DOMAIN flight THEN blind ELSE blind \ {n}
  BY <1>2 DEF Reopen
<1>4. Unlearnt => Unlearnt'
  BY <1>1 DEF Unlearnt
<1>5. FlightFresh' /\ DataFresh'
  BY <1>1, <1>2, <1>3, <1>4, FetchesKey DEF IInv
<1> QED BY <1>1, <1>5, RequestsKeep DEF IInv

LEMMA WindowFocusStep == ASSUME IInv, WindowFocus PROVE IInv'
<1>1. /\ flight' = WithFlight(Key, Sent) /\ blind' = blind \ {Key}
      /\ UNCHANGED <<table, page, size, primaryFilter, filter, sort, inbound>>
      /\ db' = db /\ mutations' = mutations /\ saved' = saved
  BY DEF WindowFocus, place, server
<1>2. Key' = Key
  BY <1>1, KeyStays
<1>3. Unlearnt => Unlearnt'
  BY <1>1 DEF Unlearnt
<1>4. PICK n : n = Key
  OBVIOUS
<1>5. FlightFresh' /\ DataFresh'
  BY <1>1, <1>2, <1>3, <1>4, FetchesKey DEF IInv
<1> QED BY <1>1, <1>5, RequestsKeep DEF IInv

(* A change is sent. *)
LEMMA SentStep ==
  ASSUME IInv, NEW op, NEW ids, mutations' = mutations \cup {Change(op, ids)},
         UNCHANGED <<table, place, requests, db, saved>>
  PROVE  IInv'
<1>1. Key' = Key
  BY KeyStays DEF place
<1>2. Unlearnt => Unlearnt'
  BY DEF Unlearnt
<1>3. Change(op, ids) = [op |-> op, ids |-> ids, done |-> FALSE]
  BY DEF Change
<1>4. Shaped'
  <2>1. ASSUME NEW m \in mutations'
        PROVE  {"op", "ids", "done"} \subseteq DOMAIN m
    BY <1>3 DEF IInv, Shaped
  <2> QED BY <2>1 DEF Shaped
<1> QED BY <1>1, <1>2, <1>4, StillFresh DEF IInv

LEMMA ChangingStep == ASSUME IInv, Changing PROVE IInv'
<1>1. ASSUME NEW x \in Entities, CreateEntity(x) PROVE IInv'
  BY <1>1, SentStep DEF CreateEntity
<1>2. ASSUME NEW x \in Entities, DeleteEntity(x) PROVE IInv'
  BY <1>2, SentStep DEF DeleteEntity
<1>3. ASSUME NEW i, ToggleSelected(i) PROVE IInv'
  BY <1>3, StillStep DEF ToggleSelected, place, server
<1>4. ASSUME handleApply PROVE IInv'
  <2>1. PICK ids : ids = selectedEntity
    OBVIOUS
  <2> QED BY <1>4, <2>1, SentStep DEF handleApply
<1>5. ASSUME toggleAllPageRowsSelected PROVE IInv'
  BY <1>5, StillStep DEF toggleAllPageRowsSelected, place, server
<1> QED BY <1>1, <1>2, <1>3, <1>4, <1>5 DEF Changing

-----------------------------------------------------------------------------
(* Requests *)

LEMMA NetworkKeeps ==
  ASSUME IInv, UNCHANGED <<table, place, db, mutations, saved>>
  PROVE  /\ Key' = Key /\ db' = db /\ (Unlearnt => Unlearnt')
         /\ Shaped'
<1>1. Key' = Key
  BY KeyStays DEF place
<1>2. Unlearnt => Unlearnt'
  BY DEF Unlearnt
<1> QED BY <1>1, <1>2, RequestsKeep

LEMMA ServeStep ==
  ASSUME IInv, NEW k \in DOMAIN flight, Serve(k)
  PROVE  IInv'
<1>1. /\ Key' = Key /\ db' = db /\ (Unlearnt => Unlearnt')
      /\ Shaped'
  BY NetworkKeeps DEF Serve, server
<1>2. cache' = cache /\ failed' = failed /\ blind' = blind
  BY DEF Serve
<1> DEFINE f == [stage |-> "answered", answer |-> Answer(db, RequestOf(k))]
<1>3. f.answer = Answer(db, RequestOf(k))
  OBVIOUS
<1>4. flight' = WithFlight(k, f)
  BY DEF Serve
<1> HIDE DEF f
<1>5. /\ DOMAIN flight' = DOMAIN flight /\ flight'[k] = f
      /\ \A x \in DOMAIN flight \ {k} : flight'[x] = flight[x]
  BY <1>4 DEF WithFlight
<1>6. FlightFresh'
  <2>1. SUFFICES ASSUME ~Unlearnt', NEW x \in DOMAIN flight',
                        flight'[x].stage = "answered", x \notin blind'
                 PROVE  flight'[x].answer = Answer(db', RequestOf(x))
    BY DEF FlightFresh, Fresh
  <2>2. CASE x = k
    BY <1>1, <1>3, <1>5, <2>2
  <2>3. CASE x # k
    <3>1. x \in DOMAIN flight /\ flight'[x] = flight[x] /\ x \notin blind
      BY <1>2, <1>5, <2>1, <2>3
    <3>2. flight[x].answer = Answer(db, RequestOf(x))
      BY <1>1, <2>1, <3>1 DEF IInv, FlightFresh, Fresh
    <3> QED BY <1>1, <3>1, <3>2
  <2> QED BY <2>2, <2>3
<1>7. data' = data /\ (isFetching' <=> isFetching)
  BY <1>1, <1>2, <1>5 DEF data, DataOf, isFetching
<1>8. DataFresh'
  <2>1. SUFFICES ASSUME ~Unlearnt', ~isFetching', Key' \notin failed', Key' \notin blind'
                 PROVE  data' = Answer(db', RequestOf(Key'))
    BY DEF DataFresh, Fresh
  <2>2. data = Answer(db, RequestOf(Key))
    BY <1>1, <1>2, <1>7, <2>1 DEF IInv, DataFresh, Fresh
  <2> QED BY <1>1, <1>7, <2>2
<1> QED BY <1>1, <1>6, <1>8 DEF IInv

(* A fetch ends. *)
LEMMA EndsFlight ==
  ASSUME IInv, NEW k \in DOMAIN flight, flight' = WithoutFlight(k),
         Unlearnt => Unlearnt', db' = db, blind' = blind, Key' = Key
  PROVE  FlightFresh' /\ (k # Key => (isFetching' <=> isFetching))
<1>1. /\ DOMAIN flight' = DOMAIN flight \ {k}
      /\ \A x \in DOMAIN flight' : flight'[x] = flight[x]
  BY DEF WithoutFlight
<1>2. FlightFresh'
  <2>1. SUFFICES ASSUME ~Unlearnt', NEW x \in DOMAIN flight',
                        flight'[x].stage = "answered", x \notin blind'
                 PROVE  flight'[x].answer = Answer(db', RequestOf(x))
    BY DEF FlightFresh, Fresh
  <2>2. x \in DOMAIN flight /\ flight'[x] = flight[x] /\ x \notin blind
    BY <1>1, <2>1
  <2>3. flight[x].answer = Answer(db, RequestOf(x))
    BY <2>1, <2>2 DEF IInv, FlightFresh, Fresh
  <2> QED BY <2>2, <2>3
<1>3. k # Key => (isFetching' <=> isFetching)
  BY <1>1 DEF isFetching
<1> QED BY <1>2, <1>3

LEMMA DeliverStep ==
  ASSUME IInv, NEW k \in DOMAIN flight, Deliver(k)
  PROVE  IInv'
<1>1. /\ Key' = Key /\ db' = db /\ (Unlearnt => Unlearnt')
      /\ Shaped'
  BY NetworkKeeps DEF Deliver, server
<1>2. /\ flight[k].stage = "answered" /\ flight' = WithoutFlight(k) /\ blind' = blind
      /\ cache' = [x \in DOMAIN cache \cup {k} |->
                      IF x = k THEN flight[k].answer ELSE cache[x]]
      /\ failed' = failed \ {k}
  BY DEF Deliver
<1>3. FlightFresh' /\ (k # Key => (isFetching' <=> isFetching))
  BY <1>1, <1>2, EndsFlight
<1>4. DataFresh'
  <2>1. SUFFICES ASSUME ~Unlearnt', ~isFetching', Key' \notin failed', Key' \notin blind'
                 PROVE  data' = Answer(db', RequestOf(Key'))
    BY DEF DataFresh, Fresh
  <2>2. CASE k = Key
    <3>1. data' = flight[k].answer
      BY <1>1, <1>2, <2>2 DEF data, DataOf
    <3>2. flight[k].answer = Answer(db, RequestOf(k))
      BY <1>1, <1>2, <2>1, <2>2 DEF IInv, FlightFresh, Fresh
    <3> QED BY <1>1, <2>2, <3>1, <3>2
  <2>3. CASE k # Key
    <3>1. data' = data
      BY <1>1, <1>2, <2>3 DEF data, DataOf
    <3>2. data = Answer(db, RequestOf(Key))
      BY <1>1, <1>2, <1>3, <2>1, <2>3 DEF IInv, DataFresh, Fresh
    <3> QED BY <1>1, <3>1, <3>2
  <2> QED BY <2>2, <2>3
<1> QED BY <1>1, <1>3, <1>4 DEF IInv

LEMMA FetchFailsStep ==
  ASSUME IInv, NEW k \in DOMAIN flight, FetchFails(k)
  PROVE  IInv'
<1>1. /\ Key' = Key /\ db' = db /\ (Unlearnt => Unlearnt')
      /\ Shaped'
  BY NetworkKeeps DEF FetchFails, server
<1>2. /\ flight' = WithoutFlight(k) /\ blind' = blind /\ cache' = cache
      /\ failed' = failed \cup {k}
  BY DEF FetchFails
<1>3. FlightFresh' /\ (k # Key => (isFetching' <=> isFetching))
  BY <1>1, <1>2, EndsFlight
<1>4. data' = data
  BY <1>1, <1>2 DEF data, DataOf
<1>5. DataFresh'
  <2>1. SUFFICES ASSUME ~Unlearnt', ~isFetching', Key' \notin failed', Key' \notin blind'
                 PROVE  data' = Answer(db', RequestOf(Key'))
    BY DEF DataFresh, Fresh
  <2>2. k # Key /\ Key \notin failed
    BY <1>1, <1>2, <2>1
  <2>3. data = Answer(db, RequestOf(Key))
    BY <1>1, <1>2, <1>3, <2>1, <2>2 DEF IInv, DataFresh, Fresh
  <2> QED BY <1>1, <1>4, <2>3
<1> QED BY <1>1, <1>3, <1>5 DEF IInv

-----------------------------------------------------------------------------
(* Changes that are answered *)

LEMMA ServerChangesStep ==
  ASSUME IInv, NEW m \in mutations, ServerChanges(m)
  PROVE  IInv'
<1> DEFINE d == [m EXCEPT !.done = TRUE]
<1>1. {"op", "ids", "done"} \subseteq DOMAIN m
  BY DEF IInv, Shaped
<1>2. DOMAIN d = DOMAIN m
  OBVIOUS
<1>3. d.op = m.op /\ d.ids = m.ids /\ d.done
  BY <1>1
<1>4. mutations' = (mutations \ {m}) \cup {d} /\ table' = table
  BY DEF ServerChanges
<1>5. {"op", "ids", "done"} \subseteq DOMAIN d
  BY <1>1, <1>2
<1> HIDE DEF d
<1>6. Unlearnt'
  BY <1>3, <1>4 DEF Unlearnt
<1>7. Shaped'
  BY <1>4, <1>5 DEF IInv, Shaped
<1> QED BY <1>6, <1>7 DEF IInv, FlightFresh, DataFresh

(* The key in view is fetched again, and every other fetch is blind. *)
LEMMA MutationSucceedsStep ==
  ASSUME IInv, NEW m \in mutations, MutationSucceeds(m)
  PROVE  IInv'
<1>1. /\ mutations' = mutations \ {m} /\ flight' = WithFlight(Key, Sent)
      /\ blind' = (blind \cup DOMAIN flight) \ {Key}
      /\ table' = table /\ saved' = saved
      /\ UNCHANGED <<table, page, size, primaryFilter, filter, sort, inbound>>
  BY DEF MutationSucceeds, place
<1>2. Key' = Key
  BY <1>1, KeyStays
<1>3. /\ DOMAIN flight' = DOMAIN flight \cup {Key} /\ flight'[Key] = Sent
      /\ \A x \in DOMAIN flight \ {Key} : flight'[x] = flight[x]
  BY <1>1 DEF WithFlight
<1>4. DataFresh'
  BY <1>2, <1>3 DEF DataFresh, isFetching
<1>5. FlightFresh'
  <2>1. SUFFICES ASSUME NEW x \in DOMAIN flight',
                        flight'[x].stage = "answered", x \notin blind'
                 PROVE  FALSE
    BY DEF FlightFresh
  <2>2. flight'[Key].stage = "sent"
    BY <1>3 DEF Sent
  <2> QED BY <1>1, <1>3, <2>1, <2>2
<1>6. Shaped'
  BY <1>1 DEF IInv, Shaped
<1> QED BY <1>4, <1>5, <1>6 DEF IInv

LEMMA MutationFailsStep ==
  ASSUME IInv, NEW m \in mutations, MutationFails(m)
  PROVE  IInv'
<1>1. /\ mutations' = mutations \ {m} /\ ~m.done
      /\ UNCHANGED <<table, place, requests>> /\ db' = db /\ saved' = saved
  BY DEF MutationFails
<1>2. Key' = Key
  BY <1>1, KeyStays DEF place
<1>3. Unlearnt => Unlearnt'
  BY <1>1 DEF Unlearnt
<1>4. FlightFresh' /\ DataFresh'
  BY <1>1, <1>2, <1>3, StillFresh DEF IInv
<1>5. Shaped'
  BY <1>1 DEF IInv, Shaped
<1> QED BY <1>4, <1>5 DEF IInv

LEMMA ParentStep == ASSUME IInv, ParentRefetched PROVE IInv'
  BY StillStep DEF ParentRefetched, place

-----------------------------------------------------------------------------
LEMMA InitInv == Init => IInv
<1> SUFFICES ASSUME Init PROVE IInv
  OBVIOUS
<1>1. mutations = {} /\ flight = [k \in {Key} |-> Sent]
  BY DEF Init
<1>2. Key \in DOMAIN flight /\ \A k \in DOMAIN flight : flight[k].stage = "sent"
  BY <1>1 DEF Sent
<1>3. FlightFresh /\ DataFresh /\ Shaped
  BY <1>1, <1>2 DEF FlightFresh, DataFresh, isFetching, Shaped
<1> QED BY <1>3 DEF IInv

LEMMA StepInv == IInv /\ [Next]_vars => IInv'
<1> SUFFICES ASSUME IInv, [Next]_vars PROVE IInv'
  OBVIOUS
<1>1. CASE Network
  <2>1. ASSUME NEW k \in DOMAIN flight, Serve(k) \/ Deliver(k) PROVE IInv'
    BY <2>1, ServeStep, DeliverStep
  <2>2. ASSUME NEW m \in mutations, ServerChanges(m) \/ MutationSucceeds(m) PROVE IInv'
    BY <2>2, ServerChangesStep, MutationSucceedsStep
  <2> QED BY <1>1, <2>1, <2>2, ParentStep DEF Network
<1>2. CASE Failures
  <2>1. ASSUME NEW k \in DOMAIN flight, FetchFails(k) PROVE IInv'
    BY <2>1, FetchFailsStep
  <2>2. ASSUME NEW m \in mutations, MutationFails(m) PROVE IInv'
    BY <2>2, MutationFailsStep
  <2> QED BY <1>2, <2>1, <2>2 DEF Failures
<1>3. CASE UNCHANGED vars
  BY <1>3, StillStep DEF vars, place, server
<1> QED BY <1>1, <1>2, <1>3, PagingStep, NarrowingStep, ChangingStep, ReopenStep,
           WindowFocusStep, DebounceStep DEF Next

(* Answers under way and the rows in view are what the server would answer
   now, unless a change was carried out whose success is not yet learnt. *)
THEOREM TablesInductive == Spec => []IInv
  BY InitInv, StepInv, PTL DEF Spec

(* In every table, after any clicks and any overlap of fetches, changes and
   failures, rows that have come to rest are the answer to what the table asks
   (useQuery, and the onSuccess of each mutation). *)
THEOREM RowsAnswer == Spec => []RowsAreTheAnswer
<1>1. IInv => RowsAreTheAnswer
  BY DEF IInv, DataFresh, Fresh, Unlearnt, RowsAreTheAnswer, Quiet
<1> QED BY <1>1, TablesInductive, PTL

-----------------------------------------------------------------------------
(* The order of the rows *)

(* Every finite set of numbers can be listed from its greatest element on. *)
LEMMA ListsDown ==
  ASSUME NEW S \in SUBSET Nat, IsFiniteSet(S)
  PROVE  \E q \in [1 .. Cardinality(S) -> S] :
           \A i, j \in 1 .. Cardinality(S) : i < j => q[i] > q[j]
<1> DEFINE Lists(n) == \A T \in SUBSET Nat : IsFiniteSet(T) /\ Cardinality(T) = n =>
                         \E q \in [1 .. n -> T] : \A i, j \in 1 .. n : i < j => q[i] > q[j]
           N == {n \in Nat : Lists(n)}
<1>1. 0 \in N
  <2> SUFFICES ASSUME NEW T \in SUBSET Nat
               PROVE  \E q \in [1 .. 0 -> T] : \A i, j \in 1 .. 0 : i < j => q[i] > q[j]
    OBVIOUS
  <2>1. [i \in 1 .. 0 |-> 0] \in [1 .. 0 -> T] /\ 1 .. 0 = {}
    OBVIOUS
  <2>2. QED
    BY <2>1
<1>2. ASSUME NEW n \in Nat, n \in N PROVE n + 1 \in N
  <2> SUFFICES ASSUME NEW T \in SUBSET Nat, IsFiniteSet(T), Cardinality(T) = n + 1
               PROVE  \E q \in [1 .. (n + 1) -> T] :
                        \A i, j \in 1 .. (n + 1) : i < j => q[i] > q[j]
    OBVIOUS
  <2>1. Lists(n)
    BY <1>2
  <2>2. T # {}
    <3>1. Cardinality(T) # 0
      OBVIOUS
    <3>2. QED
      BY <3>1, FS_EmptySet
  <2>3. PICK x \in T : \A y \in T : x <= y
    BY <2>2, LeastNatural
  <2>4. IsFiniteSet(T \ {x}) /\ Cardinality(T \ {x}) = n
    <3>1. IsFiniteSet(T \ {x}) /\ Cardinality(T \ {x}) = Cardinality(T) - 1
      BY FS_RemoveElement, <2>3
    <3>2. (n + 1) - 1 = n
      OBVIOUS
    <3>3. QED
      BY <3>1, <3>2
  <2>5. T \ {x} \in SUBSET Nat
    OBVIOUS
  <2>6. PICK q \in [1 .. n -> T \ {x}] : \A i, j \in 1 .. n : i < j => q[i] > q[j]
    BY <2>1, <2>4, <2>5
  <2> HIDE DEF Lists, N
  <2> DEFINE more == [i \in 1 .. (n + 1) |-> IF i = n + 1 THEN x ELSE q[i]]
  <2>7. more \in [1 .. (n + 1) -> T]
    <3>1. \A i \in 1 .. (n + 1) : i # n + 1 => q[i] \in T
      BY <2>6
    <3>2. QED
      BY <3>1
  <2>8. ASSUME NEW i \in 1 .. (n + 1), NEW j \in 1 .. (n + 1), i < j
        PROVE  more[i] > more[j]
    <3>1. i \in 1 .. n /\ q[i] \in T \ {x} /\ more[i] = q[i]
      BY <2>6, <2>8
    <3>2. CASE j = n + 1
      <4>1. more[j] = x /\ x <= q[i] /\ q[i] # x /\ x \in Nat /\ q[i] \in Nat
        BY <2>3, <3>1, <3>2
      <4>2. QED
        BY <3>1, <4>1
    <3>3. CASE j \in 1 .. n
      <4>1. more[j] = q[j] /\ q[i] > q[j]
        BY <2>6, <2>8, <3>1, <3>3
      <4>2. QED
        BY <3>1, <4>1
    <3>4. QED
      BY <3>2, <3>3
  <2>9. QED
    BY <2>7, <2>8
<1> HIDE DEF N
<1>3. Nat \subseteq N
  BY <1>1, <1>2, SetInduction
<1>4. Cardinality(S) \in Nat
  BY FS_CardinalityType
<1>5. Lists(Cardinality(S))
  BY <1>3, <1>4 DEF N
<1>6. QED
  BY <1>5

(* And from its least on. *)
LEMMA ListsUp ==
  ASSUME NEW S \in SUBSET Nat, IsFiniteSet(S)
  PROVE  \E q \in [1 .. Cardinality(S) -> S] :
           \A i, j \in 1 .. Cardinality(S) : i < j => q[i] < q[j]
<1>1. PICK n \in Nat : n = Cardinality(S)
  BY FS_CardinalityType
<1>2. PICK q \in [1 .. n -> S] : \A i, j \in 1 .. n : i < j => q[i] > q[j]
  BY <1>1, ListsDown
<1> DEFINE r == [i \in 1 .. n |-> q[n + 1 - i]]
<1>3. \A i \in 1 .. n : n + 1 - i \in 1 .. n
  OBVIOUS
<1>4. r \in [1 .. n -> S]
  BY <1>2, <1>3
<1>5. ASSUME NEW i \in 1 .. n, NEW j \in 1 .. n, i < j PROVE r[i] < r[j]
  <2>1. n + 1 - j < n + 1 - i
    BY <1>5
  <2>2. q[n + 1 - j] > q[n + 1 - i]
    BY <1>2, <1>3, <2>1
  <2>3. q[n + 1 - j] \in Nat /\ q[n + 1 - i] \in Nat
    BY <1>2, <1>3
  <2>4. QED
    BY <2>2, <2>3
<1>6. QED
  BY <1>1, <1>4, <1>5

(* A list in order has every entity of the set at one place. *)
LEMMA InOrderIs ==
  ASSUME NEW S \in SUBSET Entities, NEW desc \in BOOLEAN
  PROVE  /\ Cardinality(S) \in Nat
         /\ InOrder[desc][S] \in [1 .. Cardinality(S) -> S]
         /\ \A i, j \in 1 .. Cardinality(S) : i < j =>
              IF desc THEN InOrder[desc][S][i] > InOrder[desc][S][j]
              ELSE InOrder[desc][S][i] < InOrder[desc][S][j]
         /\ \A x \in S : \E i \in 1 .. Cardinality(S) : InOrder[desc][S][i] = x
<1>1. IsFiniteSet(S) /\ S \in SUBSET Nat
  BY EntityTableAssumption, FS_Subset
<1>2. PICK n \in Nat : n = Cardinality(S)
  BY <1>1, FS_CardinalityType
<1> DEFINE Listed(q) == \A i, j \in 1 .. n : i < j => IF desc THEN q[i] > q[j] ELSE q[i] < q[j]
<1>3. \E q \in [1 .. n -> S] : Listed(q)
  BY <1>1, <1>2, ListsDown, ListsUp
<1>4. InOrder[desc][S] = CHOOSE q \in [1 .. n -> S] : Listed(q)
  BY <1>2 DEF InOrder
<1>5. PICK q : q = InOrder[desc][S]
  OBVIOUS
<1>6. q \in [1 .. n -> S] /\ Listed(q)
  BY <1>3, <1>4, <1>5
<1>7. q \in Injection(1 .. n, S)
  <2>1. ASSUME NEW i \in 1 .. n, NEW j \in 1 .. n, q[i] = q[j] PROVE i = j
    <3>1. q[i] \in Nat /\ q[j] \in Nat
      BY <1>1, <1>6
    <3>2. ~(i < j) /\ ~(j < i)
      BY <1>6, <2>1, <3>1
    <3>3. QED
      BY <3>2
  <2>2. QED
    BY <1>6, <2>1 DEF Injection, IsInjective
<1>8. Cardinality(1 .. n) = n
  BY FS_Interval
<1>9. q \in Surjection(1 .. n, S)
  BY <1>1, <1>2, <1>7, <1>8, FS_Injection
<1>10. \A x \in S : \E i \in 1 .. n : q[i] = x
  BY <1>9 DEF Surjection
<1>11. QED
  BY <1>2, <1>5, <1>6, <1>10

-----------------------------------------------------------------------------
(* Pages *)

(* The page that the n-th row is on. *)
LEMMA CeilingIs ==
  ASSUME NEW n \in Nat, NEW d \in Nat \ {0}
  PROVE  /\ Ceiling(n, d) \in Nat
         /\ n <= Ceiling(n, d) * d
         /\ n > 0 => Ceiling(n, d) >= 1 /\ (Ceiling(n, d) - 1) * d < n
<1>1. PICK m \in Nat : m = n + d - 1
  OBVIOUS
<1>2. PICK q : q = m \div d
  OBVIOUS
<1>3. q \in Nat /\ q * d <= m /\ m < q * d + d
  BY <1>2
<1>4. n > 0 => q >= 1
  BY <1>1, <1>3
<1>5. (q - 1) * d = q * d - d
  BY <1>3
<1>6. QED
  BY <1>1, <1>2, <1>3, <1>4, <1>5 DEF Ceiling

LEMMA CeilingGrows ==
  ASSUME NEW n \in Nat, NEW m \in Nat, NEW d \in Nat \ {0}, n <= m
  PROVE  Ceiling(n, d) <= Ceiling(m, d)
<1>1. PICK a \in Nat, b \in Nat : a = n + d - 1 /\ b = m + d - 1 /\ a <= b
  OBVIOUS
<1>2. PICK q, p : q = a \div d /\ p = b \div d
  OBVIOUS
<1>3. /\ q \in Nat /\ q * d <= a /\ a < q * d + d
      /\ p \in Nat /\ p * d <= b /\ b < p * d + d
  BY <1>2
<1>4. q <= p
  BY <1>1, <1>3
<1>5. QED
  BY <1>1, <1>2, <1>4 DEF Ceiling

(* A page is a list, and has every row whose page it is. *)
LEMMA PageOfIs ==
  ASSUME NEW S, NEW q \in Seq(S), NEW p \in Nat \ {0}, NEW n \in Nat \ {0}
  PROVE  /\ PageOf(q, p, n) \in Seq(S)
         /\ \A i \in 1 .. Len(q) : Ceiling(i, n) = p => q[i] \in ToSet(PageOf(q, p, n))
<1>1. PICK first \in Nat \ {0} : first = (p - 1) * n + 1
  <2>1. (p - 1) * n \in Nat
    OBVIOUS
  <2>2. QED
    BY <2>1
<1>2. PICK end \in Nat : end = p * n
  OBVIOUS
<1>3. PICK last : last = Min({end, Len(q)})
  OBVIOUS
<1>4. last \in 0 .. Len(q) /\ \A i \in 1 .. Len(q) : i <= end => i <= last
  <2>1. PICK l \in Nat : l = Len(q)
    OBVIOUS
  <2>2. \E x \in {end, l} : \A y \in {end, l} : x <= y
    BY <2>1
  <2>3. last \in {end, l} /\ \A y \in {end, l} : last <= y
    BY <1>3, <2>1, <2>2 DEF Min
  <2>4. QED
    BY <2>1, <2>3
<1>5. PageOf(q, p, n) = SubSeq(q, first, last)
  BY <1>1, <1>2, <1>3 DEF PageOf
<1>6. SubSeq(q, first, last) \in Seq(S)
  BY <1>4
<1>7. ASSUME NEW i \in 1 .. Len(q), Ceiling(i, n) = p
      PROVE  q[i] \in ToSet(SubSeq(q, first, last))
  <2>1. i \in Nat /\ i > 0
    OBVIOUS
  <2>2. i <= end /\ first <= i
    <3>1. i <= Ceiling(i, n) * n /\ (Ceiling(i, n) - 1) * n < i
      BY <2>1, CeilingIs
    <3>2. i <= p * n /\ (p - 1) * n < i
      BY <1>7, <3>1
    <3>3. PICK a \in Nat : a = (p - 1) * n
      OBVIOUS
    <3>4. a < i /\ first = a + 1
      BY <1>1, <3>2, <3>3
    <3>5. QED
      BY <1>2, <2>1, <3>2, <3>4
  <2>3. i <= last
    BY <1>4, <2>2
  <2>4. /\ i + 1 - first \in 1 .. Len(SubSeq(q, first, last))
        /\ SubSeq(q, first, last)[i + 1 - first] = q[i]
    BY <1>4, <2>2, <2>3
  <2>5. DOMAIN SubSeq(q, first, last) = 1 .. Len(SubSeq(q, first, last))
    BY <1>6
  <2>6. QED
    BY <2>4, <2>5 DEF ToSet
<1>8. QED
  BY <1>5, <1>6, <1>7

-----------------------------------------------------------------------------
(* Types *)

KeyPage(k) == k.table \in TableNames /\ k.page \in Nat /\ k.size \in Sizes
Directed(k) == k.desc \in BOOLEAN
KeyOK(k) == KeyPage(k) /\ Directed(k)
AnswerOK(a) == a.entities \in Seq(Entities) /\ a.pageCount \in Nat

(* What is asked for is the page of the key, or the first one for page 0. *)
RequestPage(k, r) ==
    r.size = k.size /\ r.page \in Nat /\ (r.page = k.page \/ (k.page = 0 /\ r.page = 1))

LEMMA RequestIs ==
  ASSUME NEW k, KeyOK(k)
  PROVE  RequestPage(k, RequestOf(k)) /\ Directed(RequestOf(k))
<1>1. k.table \in DOMAIN TableOf
  BY TablesAssumption DEF KeyOK, KeyPage
<1>2. k.table \in {"users", "usersOfAll", "admins", "services", "nodes", "pools",
                   "serviceUsers", "userServices", "serviceInbounds", "hosts"}
  BY <1>1 DEF TableOf
<1>3. Paged(k).page = k.page /\ Paged(k).size = k.size /\ Paged(k).desc = k.desc
  BY DEF Paged
<1>4. /\ fetchUsers(k).page = IF k.page = 0 THEN 1 ELSE k.page
      /\ fetchUsers(k).size = k.size /\ fetchUsers(k).desc = k.desc
  BY DEF Paged, fetchUsers
<1>5. /\ fetchServiceUsers(k).page = k.page /\ fetchServiceUsers(k).size = k.size
      /\ fetchServiceUsers(k).desc = TRUE
  BY DEF Paged, fetchServiceUsers
<1>7. PICK r : r = RequestOf(k)
  OBVIOUS
<1>8. r = Paged(k) \/ r = fetchUsers(k) \/ r = fetchServiceUsers(k)
  BY <1>2, <1>7 DEF RequestOf, fetchAdmins, fetchServices, fetchUserServices,
       fetchSelectableServiceInbounds, fetchNodes, fetchHosts, fetchPools
<1>9. RequestPage(k, r)
  <2>1. r.size = k.size /\ (r.page = k.page \/ r.page = IF k.page = 0 THEN 1 ELSE k.page)
    BY <1>3, <1>4, <1>5, <1>8
  <2>2. k.page \in Nat
    BY DEF KeyOK, KeyPage
  <2>3. QED
    BY <2>1, <2>2 DEF RequestPage
<1>10. Directed(r)
  <2>1. r.desc = k.desc \/ r.desc = TRUE
    BY <1>3, <1>4, <1>5, <1>8
  <2>2. QED
    BY <2>1 DEF KeyOK, Directed
<1>11. QED
  BY <1>7, <1>9, <1>10

(* The list that a page is cut from. *)
LEMMA OrderedIs ==
  ASSUME NEW d \in SUBSET Entities, NEW r, Directed(r)
  PROVE  /\ Cardinality(Found(d, r)) \in Nat
         /\ Ordered(d, r) \in Seq(Entities)
         /\ Len(Ordered(d, r)) = Cardinality(Found(d, r))
         /\ \A x \in Found(d, r) : \E i \in 1 .. Len(Ordered(d, r)) : Ordered(d, r)[i] = x
<1>1. Found(d, r) \in SUBSET Entities
  BY DEF Found
<1>2. PICK n, q : n = Cardinality(Found(d, r)) /\ q = Ordered(d, r)
  OBVIOUS
<1>3. /\ n \in Nat /\ q \in [1 .. n -> Found(d, r)]
      /\ \A x \in Found(d, r) : \E i \in 1 .. n : q[i] = x
  <2>1. PICK b \in BOOLEAN : b = (r.desc /\ r.route \in Ordering)
    BY Zenon
  <2>2. q = InOrder[b][Found(d, r)]
    BY <1>2, <2>1 DEF Ordered
  <2>3. QED
    BY <1>1, <1>2, <2>2, InOrderIs
<1>4. q \in Seq(Entities) /\ Len(q) = n
  BY <1>1, <1>3
<1>5. QED
  BY <1>2, <1>3, <1>4

LEMMA AnswerIs ==
  ASSUME NEW d \in SUBSET Entities, NEW k, NEW r, KeyPage(k), RequestPage(k, r),
         Directed(r)
  PROVE  AnswerOK(Answer(d, r))
<1>1. CASE r.route = "pools"
  <2>1. PICK n, q : n = Cardinality(d) /\ q = InOrder[FALSE][d]
    OBVIOUS
  <2>2. n \in Nat /\ q \in [1 .. n -> d]
    BY <2>1, InOrderIs
  <2>3. q \in Seq(Entities)
    BY <2>2
  <2>4. QED
    BY <1>1, <2>1, <2>3 DEF Answer, AnswerOK
<1>2. CASE r.route # "pools" /\ r.page < 1
  <2>1. Answer(d, r) = Refused
    BY <1>2 DEF Answer
  <2>2. <<>> \in Seq(Entities)
    OBVIOUS
  <2>3. QED
    BY <2>1, <2>2 DEF AnswerOK, Refused
<1>3. CASE r.route # "pools" /\ ~(r.page < 1)
  <2>0. ~(r.page < 1) /\ r.page \in Nat /\ r.size \in Sizes
    BY <1>3 DEF KeyPage, RequestPage
  <2>1. r.page \in Nat \ {0} /\ r.size \in Nat \ {0}
    <3>1. r.size \in Nat \ {0}
      BY <2>0, EntityTableAssumption
    <3>2. ASSUME NEW p \in Nat, ~(p < 1) PROVE p \in Nat \ {0}
      BY <3>2
    <3>3. QED
      BY <2>0, <3>1, <3>2
  <2>2. /\ Cardinality(Found(d, r)) \in Nat
        /\ Ordered(d, r) \in Seq(Entities)
    BY OrderedIs
  <2>3. PageOf(Ordered(d, r), r.page, r.size) \in Seq(Entities)
    BY <2>1, <2>2, PageOfIs
  <2>4. Ceiling(Cardinality(Found(d, r)), r.size) \in Nat
    BY <2>1, <2>2, CeilingIs
  <2>5. Answer(d, r) = [refused |-> FALSE,
                   entities |-> PageOf(Ordered(d, r), r.page, r.size),
                   pageCount |-> Ceiling(Cardinality(Found(d, r)), r.size)]
    BY <1>3 DEF Answer
  <2>6. QED
    BY <2>3, <2>4, <2>5 DEF AnswerOK
<1>4. QED
  BY <1>1, <1>2, <1>3

PlaceOK ==
    /\ table \in TableNames
    /\ page \in Nat /\ size \in Sizes /\ stored \in Sizes
    /\ keyword \in BOOLEAN /\ primaryFilter \in BOOLEAN /\ filter \in BOOLEAN
    /\ sort = <<>> \/ \E c : \E d \in BOOLEAN : sort = <<[id |-> c, desc |-> d]>>
    /\ inbound \in {0, 1}
CacheOK == \A k \in DOMAIN cache : AnswerOK(cache[k]) /\ ~cache[k].refused
FlightOK == \A k \in DOMAIN flight : KeyOK(k) /\ AnswerOK(flight[k].answer)
Ops == {"create", "delete", "apply"}
ServerOK ==
    /\ db \subseteq Entities /\ saved \subseteq Entities /\ existing \subseteq Entities
    /\ \A m \in mutations : m.op \in Ops /\ m.ids \subseteq Entities
TicksTyped ==
    DOMAIN selectedRow \subseteq Nat /\ selectedEntity \subseteq Entities /\ clicked \subseteq Entities

(* The entities selected are those of the ticked rows in view. *)
TicksOfView == Selectable => selectedEntity = EntitiesTicked(selectedRow, data.entities)
StepsOK == steps \in 0 .. MaxSteps[table]

TInv == /\ PlaceOK /\ CacheOK /\ FlightOK /\ ServerOK /\ StepsOK
        /\ TicksTyped /\ TicksOfView /\ TicksAreOwn

LEMMA KeyIs == PlaceOK => KeyOK(Key)
<1> SUFFICES ASSUME PlaceOK PROVE KeyOK(Key)
  OBVIOUS
<1>1. Descending \in BOOLEAN
  BY DEF Descending
<1>2. PICK d : d = Descending
  OBVIOUS
<1>3. Key = [table |-> table, page |-> page, size |-> size, keyword |-> primaryFilter,
             filter |-> filter, sortBy |-> SortedBy, desc |-> d, inbound |-> inbound]
  BY <1>2 DEF Key
<1>4. QED
  BY <1>1, <1>2, <1>3 DEF KeyOK, KeyPage, Directed, PlaceOK

LEMMA DataIs ==
  ASSUME CacheOK, NEW k
  PROVE  AnswerOK(DataOf(k, cache)) /\ ~DataOf(k, cache).refused
<1>1. AnswerOK(initialData) /\ ~initialData.refused
  BY DEF AnswerOK, initialData
<1>2. QED
  BY <1>1 DEF DataOf, CacheOK

LEMMA SentIs == AnswerOK(Sent.answer)
<1>1. <<>> \in Seq(Entities)
  OBVIOUS
<1>2. Sent.answer = initialData
  BY DEF Sent
<1>3. QED
  BY <1>1, <1>2 DEF AnswerOK, initialData

LEMMA ClampIs ==
  ASSUME CacheOK, NEW i \in Int
  PROVE  ClampedTo(i) \in Nat
<1>1. data.pageCount \in Nat
  BY DataIs DEF data, AnswerOK
<1>2. QED
  BY <1>1 DEF ClampedTo, getPageCount

LEMMA TickedIs ==
  ASSUME NEW ts, NEW rows \in Seq(Entities), DOMAIN ts \subseteq Nat
  PROVE  /\ EntitiesTicked(ts, rows) \subseteq Entities
         /\ EntitiesTicked(ts, rows) =
              {rows[i] : i \in {j \in DOMAIN rows : j - 1 \in DOMAIN ts /\ ts[j - 1]}}
<1>1. \A j \in DOMAIN ts : j < Len(rows) => j + 1 \in 1 .. Len(rows) /\ (j + 1) - 1 = j
  OBVIOUS
<1>2. \A j \in DOMAIN rows : j \in 1 .. Len(rows) /\ j - 1 < Len(rows) /\ (j - 1) + 1 = j
  OBVIOUS
<1>3. EntitiesTicked(ts, rows) \subseteq Entities
  BY <1>1 DEF EntitiesTicked
<1>4. ASSUME NEW x \in EntitiesTicked(ts, rows)
      PROVE  \E j \in DOMAIN rows : j - 1 \in DOMAIN ts /\ ts[j - 1] /\ x = rows[j]
  <2>1. PICK i \in DOMAIN ts : ts[i] /\ i < Len(rows) /\ x = rows[i + 1]
    BY <1>4 DEF EntitiesTicked
  <2>2. i + 1 \in DOMAIN rows /\ (i + 1) - 1 = i
    BY <2>1
  <2>3. QED
    BY <2>1, <2>2
<1>5. ASSUME NEW j \in DOMAIN rows, j - 1 \in DOMAIN ts, ts[j - 1]
      PROVE  rows[j] \in EntitiesTicked(ts, rows)
  BY <1>2, <1>5 DEF EntitiesTicked
<1>6. QED
  BY <1>3, <1>4, <1>5

(* What a render does to the ticks: those of the rows that come into view. *)
LEMMA NewDataTicks ==
  ASSUME TicksTyped, NEW rows \in Seq(Entities), NEW ids, NewData(rows, ids),
         table' = table, data'.entities = rows, existing' = ids
  PROVE  TicksTyped' /\ TicksOfView' /\ TicksAreOwn'
<1>1. CASE ~Selectable
  <2>1. UNCHANGED <<selectedRow, selectedEntity, clicked>> /\ ~Selectable'
    BY <1>1 DEF NewData, Selectable
  <2>2. QED
    BY <2>1 DEF TicksTyped, TicksOfView, TicksAreOwn
<1>2. CASE Selectable
  <2>1. PICK ts : ts = TicksAfter(rows, ids)
    OBVIOUS
  <2>2. selectedRow' = ts /\ selectedEntity' = EntitiesTicked(ts, rows) /\ clicked' = {}
    BY <1>2, <2>1 DEF NewData, Select
  <2>3. DOMAIN ts \subseteq Nat
    <3>1. DOMAIN ts = DOMAIN selectedRow \cup 0 .. Len(rows) - 1
      BY <2>1 DEF TicksAfter
    <3>2. QED
      BY <3>1 DEF TicksTyped
  <2>4. selectedEntity' \subseteq Entities
    BY <2>2, <2>3, TickedIs
  <2>5. TicksTyped'
    BY <2>2, <2>3, <2>4 DEF TicksTyped
  <2>6. TicksOfView'
    BY <2>2 DEF TicksOfView, EntitiesTicked
  <2>7. TicksAreOwn'
    <3>1. ASSUME NEW i \in DOMAIN rows
          PROVE  i - 1 \in DOMAIN ts /\ (ts[i - 1] <=> rows[i] \in ids)
      <4>1. i - 1 \in 0 .. Len(rows) - 1 /\ i - 1 < Len(rows) /\ (i - 1) + 1 = i
        OBVIOUS
      <4>2. QED
        BY <2>1, <4>1 DEF TicksAfter
    <3>2. QED
      BY <2>2, <3>1 DEF TicksAreOwn
  <2>8. QED
    BY <2>5, <2>6, <2>7
<1>3. QED
  BY <1>1, <1>2

LEMMA SameTicks ==
  ASSUME TicksTyped, TicksOfView, TicksAreOwn, table' = table, data' = data,
         UNCHANGED <<selectedRow, selectedEntity, existing, clicked>>
  PROVE  TicksTyped' /\ TicksOfView' /\ TicksAreOwn'
<1>1. TicksTyped'
  BY DEF TicksTyped
<1>2. Selectable' <=> Selectable
  BY DEF Selectable
<1>3. TicksOfView'
  BY <1>2 DEF TicksOfView, EntitiesTicked
<1>4. TicksAreOwn'
  BY <1>2 DEF TicksAreOwn
<1>5. QED
  BY <1>1, <1>3, <1>4

LEMMA SentFlight ==
  ASSUME FlightOK, NEW k, KeyOK(k), NEW f, AnswerOK(f.answer), flight' = WithFlight(k, f)
  PROVE  FlightOK'
<1>1. /\ DOMAIN flight' = DOMAIN flight \cup {k} /\ flight'[k] = f
      /\ \A x \in DOMAIN flight \ {k} : flight'[x] = flight[x]
  BY DEF WithFlight
<1>2. QED
  BY <1>1 DEF FlightOK

LEMMA NextKeyIs == PlaceOK' => KeyOK(Key')
<1>1. (PlaceOK => KeyOK(Key))'
  BY KeyIs, PTL
<1>2. KeyOK(Key)' <=> KeyOK(Key')
  BY DEF KeyOK, KeyPage, Directed
<1>3. QED
  BY <1>1, <1>2

LEMMA RerenderTypes ==
  ASSUME TInv, KeyChanges, PlaceOK', StepsOK', UNCHANGED <<table, cache, existing, server>>
  PROVE  TInv'
<1>1. PICK n : n = Key'
  OBVIOUS
<1>2. KeyOK(n)
  BY <1>1, NextKeyIs
<1>3. CacheOK' /\ ServerOK'
  BY DEF TInv, CacheOK, ServerOK, server
<1>4. data' = DataOf(n, cache)
  BY <1>1 DEF data, DataOf
<1>5. CASE Key' = Key
  <2>1. UNCHANGED <<flight, blind, selectedRow, selectedEntity, clicked>>
    BY <1>5 DEF KeyChanges
  <2>2. data' = data
    BY <1>1, <1>4, <1>5 DEF data
  <2>3. TicksTyped' /\ TicksOfView' /\ TicksAreOwn'
    BY <2>1, <2>2, SameTicks DEF TInv
  <2>4. FlightOK'
    BY <2>1 DEF TInv, FlightOK
  <2>5. QED
    BY <1>3, <2>3, <2>4 DEF TInv
<1>6. CASE Key' # Key
  <2>1. /\ flight' = flight \/ flight' = WithFlight(n, Sent)
        /\ NewData(DataOf(n, cache).entities, existing)
    BY <1>1, <1>6 DEF KeyChanges
  <2>2. DataOf(n, cache).entities \in Seq(Entities)
    BY DataIs DEF TInv, AnswerOK
  <2>3. TicksTyped' /\ TicksOfView' /\ TicksAreOwn'
    BY <1>4, <2>1, <2>2, NewDataTicks DEF TInv
  <2>4. FlightOK'
    BY <1>2, <2>1, SentFlight, SentIs DEF TInv, FlightOK
  <2>5. QED
    BY <1>3, <2>3, <2>4 DEF TInv
<1>7. QED
  BY <1>5, <1>6

LEMMA StepTyped ==
  ASSUME TInv, table' = table, UserStep \/ steps' = steps
  PROVE  StepsOK'
<1>1. MaxSteps[table] \in Nat /\ steps \in 0 .. MaxSteps[table]
  BY EntityTableAssumption DEF TInv, PlaceOK, StepsOK
<1>2. PICK m \in Nat : m = MaxSteps[table] /\ m = MaxSteps[table']
  BY <1>1
<1>3. steps' = steps \/ (steps < m /\ steps' = steps + 1)
  BY <1>2 DEF UserStep
<1>4. QED
  BY <1>1, <1>2, <1>3 DEF StepsOK

LEMMA PagingTypes == ASSUME TInv, Paging PROVE TInv'
<1>1. page \in Nat /\ CacheOK /\ data.pageCount \in Nat
  BY DataIs DEF TInv, PlaceOK, data, AnswerOK
<1>2. ASSUME UserStep, NEW i \in Int, SetPage(i) PROVE TInv'
  <2>1. page' \in Nat
    BY <1>1, <1>2, ClampIs DEF SetPage
  <2>2. table' = table /\ UNCHANGED <<stored, size, keyword, primaryFilter, filter, sort, inbound>>
    BY <1>2 DEF SetPage, Rerender
  <2>3. PlaceOK'
    BY <2>1, <2>2 DEF TInv, PlaceOK
  <2>4. QED
    BY <1>2, <2>2, <2>3, StepTyped, RerenderTypes DEF SetPage, Rerender
<1>3. ASSUME NEW n \in Sizes, SetPageSize(n) PROVE TInv'
  <2>1. page' \in Nat
    BY <1>1, <1>3, ClampIs DEF SetPageSize
  <2>2. /\ table' = table /\ size' = n /\ stored' = n
        /\ UNCHANGED <<keyword, primaryFilter, filter, sort, inbound>>
    BY <1>3 DEF SetPageSize
  <2>3. PlaceOK'
    BY <2>1, <2>2 DEF TInv, PlaceOK
  <2>4. QED
    BY <1>3, <2>2, <2>3, StepTyped, RerenderTypes DEF SetPageSize
<1>4. page + 1 \in Int /\ page - 1 \in Int /\ 1 \in Int /\ getPageCount - 1 \in Int
  BY <1>1 DEF getPageCount
<1>5. FirstPage \/ PreviousPage \/ NextPage \/ LastPage => UserStep /\ \E i \in Int : SetPage(i)
  BY <1>4 DEF FirstPage, PreviousPage, NextPage, LastPage
<1>6. QED
  BY <1>2, <1>3, <1>5 DEF Paging

LEMMA DebounceTypes == ASSUME TInv, Debounce PROVE TInv'
<1>1. /\ table' = table /\ primaryFilter' = keyword
      /\ UNCHANGED <<page, size, stored, keyword, filter, sort, inbound, steps>>
  BY DEF Debounce, Rerender
<1>2. PlaceOK'
  BY <1>1 DEF TInv, PlaceOK
<1>3. QED
  BY <1>1, <1>2, StepTyped, RerenderTypes DEF Debounce, Rerender

(* Neither the place of the table nor its data and ticks change. *)
LEMMA StillTypes ==
  ASSUME TInv, PlaceOK', ServerOK', FlightOK', StepsOK', table' = table, Key' = Key,
         UNCHANGED <<cache, selectedRow, selectedEntity, existing, clicked>>
  PROVE  TInv'
<1>1. data' = data
  BY DEF data, DataOf
<1>2. TicksTyped' /\ TicksOfView' /\ TicksAreOwn'
  BY <1>1, SameTicks DEF TInv
<1>3. CacheOK'
  BY DEF TInv, CacheOK
<1>4. QED
  BY <1>2, <1>3 DEF TInv

LEMMA NarrowingTypes == ASSUME TInv, Narrowing PROVE TInv'
<1>1. PlaceOK /\ CacheOK /\ page \in Nat
  BY DEF TInv, PlaceOK
<1>2. ASSUME TypeKeyword PROVE TInv'
  <2>1. /\ UNCHANGED <<table, page, size, stored, primaryFilter, filter, sort, inbound>>
        /\ UNCHANGED <<cache, flight, selectedRow, selectedEntity, existing, clicked, db, mutations, saved>>
        /\ UserStep
    BY <1>2 DEF TypeKeyword, requests, ticks, server
  <2>2. keyword' \in BOOLEAN
    BY <1>2 DEF TypeKeyword
  <2>3. PlaceOK'
    BY <1>1, <2>1, <2>2 DEF PlaceOK
  <2>4. ServerOK' /\ FlightOK'
    BY <2>1 DEF TInv, ServerOK, FlightOK
  <2>5. Key' = Key
    BY <2>1, KeyStays
  <2>6. QED
    BY <2>1, <2>3, <2>4, <2>5, StepTyped, StillTypes
<1>3. ASSUME NEW isDesktop \in BOOLEAN, PickFilter(isDesktop) PROVE TInv'
  <2>1. /\ UNCHANGED <<table, size, stored, keyword, primaryFilter, sort, inbound>>
        /\ filter' = TRUE /\ UserStep
        /\ page' = ClampedTo(1) \/ page' = page
    BY <1>3 DEF PickFilter, Rerender
  <2>2. page' \in Nat
    BY <1>1, <2>1, ClampIs
  <2>3. PlaceOK'
    BY <1>1, <2>1, <2>2 DEF PlaceOK
  <2>4. QED
    BY <1>3, <2>1, <2>3, StepTyped, RerenderTypes DEF PickFilter, Rerender
<1>4. ASSUME handleClearingFilter PROVE TInv'
  <2>1. /\ UNCHANGED <<table, size, stored, keyword, primaryFilter, sort, inbound>>
        /\ filter' = FALSE /\ UserStep /\ page' = ClampedTo(1)
    BY <1>4 DEF handleClearingFilter, Rerender
  <2>2. page' \in Nat
    BY <1>1, <2>1, ClampIs
  <2>3. PlaceOK'
    BY <1>1, <2>1, <2>2 DEF PlaceOK
  <2>4. QED
    BY <1>4, <2>1, <2>3, StepTyped, RerenderTypes DEF handleClearingFilter, Rerender
<1>5. ASSUME NEW c, NEW d \in BOOLEAN, ToggleSorting(c, d) PROVE TInv'
  <2>1. /\ UNCHANGED <<table, page, size, stored, keyword, primaryFilter, filter, inbound>>
        /\ sort' = <<[id |-> c, desc |-> d]>> /\ UserStep
    BY <1>5 DEF ToggleSorting, Rerender
  <2>2. PlaceOK'
    BY <1>1, <2>1 DEF PlaceOK
  <2>3. QED
    BY <1>5, <2>1, <2>2, StepTyped, RerenderTypes DEF ToggleSorting, Rerender
<1>6. ASSUME NEW i \in {0, 1}, setSidebarEntityId(i) PROVE TInv'
  <2>1. /\ UNCHANGED <<table, page, size, stored, keyword, primaryFilter, filter, sort>>
        /\ inbound' = i /\ UserStep
    BY <1>6 DEF setSidebarEntityId, Rerender
  <2>2. PlaceOK'
    BY <1>1, <2>1 DEF PlaceOK
  <2>3. QED
    BY <1>6, <2>1, <2>2, StepTyped, RerenderTypes DEF setSidebarEntityId, Rerender
<1>7. QED
  BY <1>2, <1>3, <1>4, <1>5, <1>6 DEF Narrowing

LEMMA ReopenTypes == ASSUME TInv, Reopen PROVE TInv'
<1>1. PICK n : n = Key'
  OBVIOUS
<1>2. /\ table' = table /\ page' = 1 /\ size' = stored /\ stored' = stored
      /\ keyword' = FALSE /\ primaryFilter' = FALSE /\ filter' = FALSE /\ sort' = <<>>
      /\ inbound' \in {0, 1}
      /\ UNCHANGED <<cache, db, mutations, saved>>
      /\ existing' = IF Selectable THEN saved ELSE existing
      /\ flight' = flight \/ flight' = WithFlight(n, Sent)
      /\ UserStep
  BY <1>1 DEF Reopen
<1>3. PlaceOK'
  BY <1>2 DEF TInv, PlaceOK
<1>4. StepsOK'
  BY <1>2, StepTyped
<1>5. CacheOK' /\ ServerOK'
  BY <1>2 DEF TInv, CacheOK, ServerOK
<1>6. KeyOK(n)
  BY <1>1, <1>3, NextKeyIs
<1>7. FlightOK'
  BY <1>2, <1>6, SentFlight, SentIs DEF TInv, FlightOK
<1>8. PICK rows : rows = DataOf(n, cache).entities
  OBVIOUS
<1>9. rows \in Seq(Entities) /\ data'.entities = rows
  BY <1>1, <1>2, <1>8, DataIs DEF TInv, AnswerOK, data, DataOf
<1>10. TicksTyped' /\ TicksOfView' /\ TicksAreOwn'
  <2>1. CASE ~Selectable
    <3>1. UNCHANGED <<selectedRow, selectedEntity, clicked>> /\ ~Selectable'
      BY <1>2, <2>1 DEF Reopen, Selectable
    <3>2. QED
      BY <3>1 DEF TInv, TicksTyped, TicksOfView, TicksAreOwn
  <2>2. CASE Selectable
    <3>1. PICK ts : ts = [i \in existing' \cup 0 .. Len(rows) - 1 |->
                            i >= Len(rows) \/ rows[i + 1] \in existing']
      OBVIOUS
    <3>2. selectedRow' = ts /\ selectedEntity' = EntitiesTicked(ts, rows) /\ clicked' = {}
      BY <1>1, <1>8, <2>2, <3>1 DEF Reopen, Select
    <3>3. DOMAIN ts \subseteq Nat
      <4>1. existing' \subseteq Nat
        BY <1>5, EntityTableAssumption DEF ServerOK
      <4>2. PICK e : e = existing'
        OBVIOUS
      <4>3. PICK many \in Nat : many = Len(rows)
        BY <1>9
      <4>4. DOMAIN ts = e \cup 0 .. many - 1 /\ e \subseteq Nat
        BY <3>1, <4>1, <4>2, <4>3
      <4>5. 0 .. many - 1 \subseteq Nat
        OBVIOUS
      <4>6. QED
        BY <4>4, <4>5
    <3>4. selectedEntity' \subseteq Entities
      BY <1>9, <3>2, <3>3, TickedIs
    <3>5. TicksTyped'
      BY <3>2, <3>3, <3>4 DEF TicksTyped
    <3>6. TicksOfView'
      BY <1>9, <3>2 DEF TicksOfView, EntitiesTicked
    <3>7. TicksAreOwn'
      <4>1. PICK ids : ids = existing'
        OBVIOUS
      <4>2. ASSUME NEW i \in DOMAIN rows
            PROVE  i - 1 \in DOMAIN ts /\ (ts[i - 1] <=> rows[i] \in ids)
        <5>1. /\ i - 1 \in 0 .. Len(rows) - 1 /\ ~(i - 1 >= Len(rows))
              /\ (i - 1) + 1 = i
          BY <1>9
        <5>2. QED
          BY <3>1, <4>1, <5>1
      <4>3. QED
        BY <1>9, <3>2, <4>1, <4>2 DEF TicksAreOwn
    <3>8. QED
      BY <3>5, <3>6, <3>7
  <2>3. QED
    BY <2>1, <2>2
<1>11. QED
  BY <1>3, <1>4, <1>5, <1>7, <1>10 DEF TInv

LEMMA WindowFocusTypes == ASSUME TInv, WindowFocus PROVE TInv'
<1>1. /\ UNCHANGED <<table, page, size, stored, keyword, primaryFilter, filter, sort, inbound>>
      /\ UNCHANGED <<cache, selectedRow, selectedEntity, existing, clicked, db, mutations, saved>>
      /\ flight' = WithFlight(Key, Sent) /\ UserStep
  BY DEF WindowFocus, place, ticks, server
<1>2. PlaceOK' /\ ServerOK'
  BY <1>1 DEF TInv, PlaceOK, ServerOK
<1>3. KeyOK(Key)
  BY KeyIs DEF TInv
<1>4. FlightOK'
  BY <1>1, <1>3, SentFlight, SentIs DEF TInv
<1>5. Key' = Key
  BY <1>1, KeyStays
<1>6. QED
  BY <1>1, <1>2, <1>4, <1>5, StepTyped, StillTypes

(* A change is sent. *)
LEMMA SentTypes ==
  ASSUME TInv, UserStep, NEW op \in Ops, NEW ids, ids \subseteq Entities,
         mutations' = mutations \cup {Change(op, ids)},
         UNCHANGED <<table, place, requests, ticks, db, saved>>
  PROVE  TInv'
<1>1. /\ UNCHANGED <<page, size, stored, keyword, primaryFilter, filter, sort, inbound>>
      /\ UNCHANGED <<cache, flight, selectedRow, selectedEntity, existing, clicked>>
  BY DEF place, requests, ticks
<1>2. PlaceOK' /\ FlightOK'
  BY <1>1 DEF TInv, PlaceOK, FlightOK
<1>3. Change(op, ids).ids = ids /\ Change(op, ids).op = op
  BY DEF Change
<1>4. ServerOK'
  BY <1>1, <1>3 DEF TInv, ServerOK
<1>5. Key' = Key
  BY <1>1, KeyStays
<1>6. QED
  BY <1>1, <1>2, <1>4, <1>5, StepTyped, StillTypes

LEMMA ChangingTypes == ASSUME TInv, Changing PROVE TInv'
<1>1. ASSUME NEW x \in Entities, CreateEntity(x) \/ DeleteEntity(x) PROVE TInv'
  <2>1. {x} \subseteq Entities
    OBVIOUS
  <2>2. CASE CreateEntity(x)
    BY <2>1, <2>2, SentTypes DEF CreateEntity, Ops
  <2>3. CASE DeleteEntity(x)
    BY <2>1, <2>3, SentTypes DEF DeleteEntity, Ops
  <2>4. QED
    BY <1>1, <2>2, <2>3
<1>2. ASSUME handleApply PROVE TInv'
  <2>1. PICK ids : ids = selectedEntity
    OBVIOUS
  <2>2. ids \subseteq Entities
    BY <2>1 DEF TInv, TicksTyped
  <2>3. QED
    BY <1>2, <2>1, <2>2, SentTypes DEF handleApply, Ops
<1>3. ASSUME NEW i \in 0 .. Cardinality(Entities) - 1, ToggleSelected(i) PROVE TInv'
  <2>1. /\ UNCHANGED <<table, page, size, stored, keyword, primaryFilter, filter, sort, inbound>>
        /\ UNCHANGED <<cache, flight, existing, db, mutations, saved>>
        /\ UserStep
    BY <1>3 DEF ToggleSelected, place, requests, server
  <2>2. PlaceOK' /\ FlightOK' /\ ServerOK' /\ CacheOK'
    BY <2>1 DEF TInv, PlaceOK, FlightOK, ServerOK, CacheOK
  <2>3. Key' = Key
    BY <2>1, KeyStays
  <2>4. PICK rows : rows = data.entities
    OBVIOUS
  <2>5. data'.entities = rows /\ rows \in Seq(Entities)
    BY <2>1, <2>3, <2>4, DataIs DEF TInv, AnswerOK, data, DataOf
  <2>6. PICK ts : ts = IF i \in DOMAIN selectedRow /\ selectedRow[i]
              THEN [j \in DOMAIN selectedRow \ {i} |-> selectedRow[j]]
              ELSE [j \in DOMAIN selectedRow \cup {i} |-> j = i \/ selectedRow[j]]
    OBVIOUS
  <2>7. /\ selectedRow' = ts /\ selectedEntity' = EntitiesTicked(ts, rows)
        /\ clicked' = clicked \cup {rows[i + 1]} /\ i < Len(rows)
    BY <1>3, <2>4, <2>6 DEF ToggleSelected, Select
  <2>8. DOMAIN ts \subseteq Nat
    <3>1. DOMAIN ts \subseteq DOMAIN selectedRow \cup {i}
      BY <2>6
    <3>2. i \in Nat
      OBVIOUS
    <3>3. QED
      BY <3>1, <3>2 DEF TInv, TicksTyped
  <2>9. selectedEntity' \subseteq Entities /\ clicked' \subseteq Entities
    <3>1. rows[i + 1] \in Entities
      BY <2>5, <2>7
    <3>2. QED
      BY <2>5, <2>7, <2>8, <3>1, TickedIs DEF TInv, TicksTyped
  <2>10. TicksTyped'
    BY <2>7, <2>8, <2>9 DEF TicksTyped
  <2>11. TicksOfView'
    BY <2>5, <2>7 DEF TicksOfView, EntitiesTicked
  <2>12. TicksAreOwn'
    <3>1. SUFFICES ASSUME Selectable', NEW j \in DOMAIN rows, rows[j] \notin clicked'
                   PROVE  (j - 1 \in DOMAIN ts /\ ts[j - 1]) <=> rows[j] \in existing
      BY <2>1, <2>5, <2>7 DEF TicksAreOwn
    <3>2. Selectable /\ rows[j] \notin clicked /\ rows[j] # rows[i + 1]
      BY <2>1, <2>7, <3>1 DEF Selectable
    <3>3. (j - 1 \in DOMAIN selectedRow /\ selectedRow[j - 1]) <=> rows[j] \in existing
      BY <2>4, <3>2 DEF TInv, TicksAreOwn
    <3>4. j - 1 # i
      <4>1. j \in Int /\ (j - 1 = i => j = i + 1)
        BY <2>5
      <4>2. QED
        BY <3>2, <4>1
    <3>5. (j - 1 \in DOMAIN ts /\ ts[j - 1]) <=> (j - 1 \in DOMAIN selectedRow /\ selectedRow[j - 1])
      <4>1. PICK h : h = j - 1
        OBVIOUS
      <4>2. (h \in DOMAIN ts /\ ts[h]) <=> (h \in DOMAIN selectedRow /\ selectedRow[h])
        BY <2>6, <3>4, <4>1, Zenon
      <4>3. QED
        BY <4>1, <4>2
    <3>6. QED
      BY <3>3, <3>5
  <2>13. QED
    BY <2>1, <2>2, <2>10, <2>11, <2>12, StepTyped DEF TInv
<1>4. ASSUME toggleAllPageRowsSelected PROVE TInv'
  <2>1. /\ UNCHANGED <<table, page, size, stored, keyword, primaryFilter, filter, sort, inbound>>
        /\ UNCHANGED <<cache, flight, existing, db, mutations, saved>>
        /\ UserStep
    BY <1>4 DEF toggleAllPageRowsSelected, place, requests, server
  <2>2. PlaceOK' /\ FlightOK' /\ ServerOK' /\ CacheOK'
    BY <2>1 DEF TInv, PlaceOK, FlightOK, ServerOK, CacheOK
  <2>3. Key' = Key
    BY <2>1, KeyStays
  <2>4. PICK rows : rows = data.entities
    OBVIOUS
  <2>5. data'.entities = rows /\ rows \in Seq(Entities)
    BY <2>1, <2>3, <2>4, DataIs DEF TInv, AnswerOK, data, DataOf
  <2>6. PICK shown : shown = 0 .. Len(rows) - 1
    OBVIOUS
  <2>7. PICK ts : /\ selectedRow' = ts /\ selectedEntity' = EntitiesTicked(ts, rows)
                  /\ DOMAIN ts \subseteq DOMAIN selectedRow \cup shown
    <3>1. PICK more, fewer : /\ fewer = [j \in DOMAIN selectedRow \ shown |-> selectedRow[j]]
                             /\ more = [j \in DOMAIN selectedRow \cup shown |->
                                           j \in shown \/ selectedRow[j]]
      OBVIOUS
    <3>2. Select(more, rows) \/ Select(fewer, rows)
      BY <1>4, <2>4, <2>6, <3>1 DEF toggleAllPageRowsSelected
    <3>3. QED
      BY <3>1, <3>2 DEF Select
  <2>8. clicked' = clicked \cup ToSet(rows)
    BY <1>4, <2>4 DEF toggleAllPageRowsSelected
  <2>9. DOMAIN ts \subseteq Nat
    <3>1. shown \subseteq Nat
      BY <2>6
    <3>2. QED
      BY <2>7, <3>1 DEF TInv, TicksTyped
  <2>10. selectedEntity' \subseteq Entities /\ clicked' \subseteq Entities
    <3>1. ToSet(rows) \subseteq Entities
      BY <2>5 DEF ToSet
    <3>2. QED
      BY <2>5, <2>7, <2>8, <2>9, <3>1, TickedIs DEF TInv, TicksTyped
  <2>11. TicksTyped'
    BY <2>7, <2>9, <2>10 DEF TicksTyped
  <2>12. TicksOfView'
    BY <2>5, <2>7 DEF TicksOfView, EntitiesTicked
  <2>13. TicksAreOwn'
    BY <2>5, <2>8 DEF TicksAreOwn, ToSet
  <2>14. QED
    BY <2>1, <2>2, <2>11, <2>12, <2>13, StepTyped DEF TInv
<1>5. QED
  BY <1>1, <1>2, <1>3, <1>4 DEF Changing

-----------------------------------------------------------------------------
LEMMA RequestTypes ==
  ASSUME TInv, NEW k \in DOMAIN flight, Serve(k) \/ Deliver(k) \/ FetchFails(k)
  PROVE  TInv'
<1>1. /\ UNCHANGED <<table, page, size, stored, keyword, primaryFilter, filter, sort, inbound>>
      /\ UNCHANGED <<existing, db, mutations, saved, steps>>
  BY DEF Serve, Deliver, FetchFails, place, ticks, server
<1>2. PlaceOK' /\ ServerOK' /\ StepsOK'
  BY <1>1, StepTyped DEF TInv, PlaceOK, ServerOK
<1>3. Key' = Key
  BY <1>1, KeyStays
<1>4. KeyOK(k) /\ AnswerOK(flight[k].answer)
  BY DEF TInv, FlightOK
<1>5. flight' = WithoutFlight(k) => FlightOK'
  <2>1. SUFFICES ASSUME flight' = WithoutFlight(k) PROVE FlightOK'
    OBVIOUS
  <2>2. /\ DOMAIN flight' = DOMAIN flight \ {k}
        /\ \A x \in DOMAIN flight' : flight'[x] = flight[x]
    BY <2>1 DEF WithoutFlight
  <2>3. QED
    BY <2>2 DEF TInv, FlightOK
<1>6. CASE Serve(k)
  <2>1. PICK f : f = [stage |-> "answered", answer |-> Answer(db, RequestOf(k))]
    OBVIOUS
  <2>2. f.answer = Answer(db, RequestOf(k))
    BY <2>1
  <2>3. AnswerOK(f.answer)
    <3>1. RequestPage(k, RequestOf(k)) /\ Directed(RequestOf(k)) /\ KeyPage(k)
      BY <1>4, RequestIs DEF KeyOK
    <3>2. db \in SUBSET Entities
      BY DEF TInv, ServerOK
    <3>3. QED
      BY <2>2, <3>1, <3>2, AnswerIs
  <2>4. flight' = WithFlight(k, f)
    BY <1>6, <2>1 DEF Serve
  <2>5. FlightOK'
    BY <1>4, <2>3, <2>4, SentFlight DEF TInv
  <2>6. UNCHANGED <<cache, selectedRow, selectedEntity, existing, clicked>>
    BY <1>6 DEF Serve, ticks
  <2>7. QED
    BY <1>1, <1>2, <1>3, <2>5, <2>6, StillTypes
<1>7. CASE FetchFails(k)
  <2>1. flight' = WithoutFlight(k) /\ UNCHANGED <<cache, selectedRow, selectedEntity, existing, clicked>>
    BY <1>7 DEF FetchFails, ticks
  <2>2. QED
    BY <1>1, <1>2, <1>3, <1>5, <2>1, StillTypes
<1>8. CASE Deliver(k)
  <2>1. PICK a : a = flight[k].answer
    OBVIOUS
  <2>2. /\ flight' = WithoutFlight(k) /\ ~a.refused
        /\ cache' = [x \in DOMAIN cache \cup {k} |-> IF x = k THEN a ELSE cache[x]]
        /\ IF k = Key /\ a # data THEN NewData(a.entities, existing)
           ELSE UNCHANGED <<selectedRow, selectedEntity, clicked>>
    BY <1>8, <2>1 DEF Deliver
  <2>3. AnswerOK(a)
    BY <1>4, <2>1
  <2>4. CacheOK'
    BY <2>2, <2>3 DEF TInv, CacheOK
  <2>5. data' = IF k = Key THEN a ELSE data
    BY <1>3, <2>2 DEF data, DataOf
  <2>6. TicksTyped' /\ TicksOfView' /\ TicksAreOwn'
    <3>1. CASE k = Key /\ a # data
      <4>1. NewData(a.entities, existing) /\ data'.entities = a.entities
        BY <2>2, <2>5, <3>1
      <4>2. a.entities \in Seq(Entities)
        BY <2>3 DEF AnswerOK
      <4>3. QED
        BY <1>1, <4>1, <4>2, NewDataTicks DEF TInv
    <3>2. CASE ~(k = Key /\ a # data)
      <4>1. data' = data
        BY <2>5, <3>2
      <4>2. UNCHANGED <<selectedRow, selectedEntity, existing, clicked>>
        BY <1>1, <2>2, <3>2
      <4>3. QED
        BY <1>1, <4>1, <4>2, SameTicks DEF TInv
    <3>3. QED
      BY <3>1, <3>2
  <2>7. QED
    BY <1>2, <1>5, <2>2, <2>4, <2>6 DEF TInv
<1>9. QED
  BY <1>6, <1>7, <1>8

LEMMA ChangeTypes ==
  ASSUME TInv, Shaped, NEW m \in mutations,
         ServerChanges(m) \/ MutationSucceeds(m) \/ MutationFails(m)
  PROVE  TInv'
<1>1. /\ UNCHANGED <<table, page, size, stored, keyword, primaryFilter, filter, sort, inbound>>
      /\ UNCHANGED <<cache, selectedRow, selectedEntity, existing, clicked, steps>>
      /\ flight' = flight \/ flight' = WithFlight(Key, Sent)
  BY DEF ServerChanges, MutationSucceeds, MutationFails, place, requests, ticks
<1>2. PlaceOK' /\ StepsOK'
  BY <1>1, StepTyped DEF TInv, PlaceOK
<1>3. Key' = Key /\ KeyOK(Key)
  BY <1>1, KeyStays, KeyIs DEF TInv
<1>4. FlightOK'
  BY <1>1, <1>3, SentFlight, SentIs DEF TInv, FlightOK
<1>5. ServerOK'
  <2>1. PICK d : d = [m EXCEPT !.done = TRUE]
    OBVIOUS
  <2>2. d.ids = m.ids /\ d.op = m.op
    BY <2>1 DEF Shaped
  <2>3. m.ids \subseteq Entities /\ m.op \in Ops /\ db \subseteq Entities
    BY DEF TInv, ServerOK
  <2>4. \A x \in mutations' : x \in mutations \/ x = d
    BY <2>1 DEF ServerChanges, MutationSucceeds, MutationFails
  <2>5. \A x \in mutations' : x.op \in Ops /\ x.ids \subseteq Entities
    BY <2>2, <2>3, <2>4 DEF TInv, ServerOK
  <2>6. db' \subseteq Entities
    <3>1. db' = db \/ db' = db \cup m.ids \/ db' = db \ m.ids
      BY <2>3 DEF ServerChanges, MutationSucceeds, MutationFails, Ops
    <3>2. QED
      BY <2>3, <3>1
  <2>7. saved' \subseteq Entities
    BY <2>3 DEF ServerChanges, MutationSucceeds, MutationFails, TInv, ServerOK
  <2>8. QED
    BY <1>1, <2>5, <2>6, <2>7 DEF TInv, ServerOK
<1>6. QED
  BY <1>1, <1>2, <1>3, <1>4, <1>5, StillTypes

LEMMA ParentTypes == ASSUME TInv, ParentRefetched PROVE TInv'
<1>1. /\ UNCHANGED <<table, page, size, stored, keyword, primaryFilter, filter, sort, inbound>>
      /\ UNCHANGED <<cache, flight, db, mutations, saved, steps>>
      /\ existing' = saved
      /\ \/ UNCHANGED <<selectedRow, selectedEntity, existing, clicked>>
         \/ NewData(data.entities, saved)
  BY DEF ParentRefetched, place, requests
<1>2. PlaceOK' /\ ServerOK' /\ StepsOK' /\ FlightOK' /\ CacheOK'
  BY <1>1, StepTyped DEF TInv, PlaceOK, ServerOK, FlightOK, CacheOK
<1>3. Key' = Key
  BY <1>1, KeyStays
<1>4. data' = data /\ data.entities \in Seq(Entities)
  BY <1>1, <1>3, DataIs DEF TInv, AnswerOK, data, DataOf
<1>5. TicksTyped' /\ TicksOfView' /\ TicksAreOwn'
  BY <1>1, <1>4, SameTicks, NewDataTicks DEF TInv
<1>6. QED
  BY <1>2, <1>5 DEF TInv

-----------------------------------------------------------------------------
LEMMA InitTypes == Init => TInv
<1> SUFFICES ASSUME Init PROVE TInv
  OBVIOUS
<1>1. PlaceOK /\ CacheOK
  <2>1. DOMAIN <<>> = {}
    OBVIOUS
  <2>2. CacheOK
    BY <2>1 DEF Init, CacheOK
  <2>3. inbound \in {0, 1} /\ DefaultSize \in Sizes
    BY EntityTableAssumption DEF Init
  <2>4. PlaceOK
    BY <2>3 DEF Init, PlaceOK
  <2>5. QED
    BY <2>2, <2>4
<1>2. KeyOK(Key)
  BY <1>1, KeyIs
<1>3. FlightOK
  BY <1>2, SentIs DEF Init, FlightOK
<1>4. db \subseteq Entities /\ saved \subseteq Entities
  <2>1. db \subseteq Entities
    BY EntityTableAssumption DEF Init
  <2>2. saved \subseteq db \/ saved = {}
    BY DEF Init
  <2>3. QED
    BY <2>1, <2>2
<1>5. ServerOK
  BY <1>4 DEF Init, ServerOK
<1>6. TicksTyped
  BY <1>4, EntityTableAssumption DEF Init, TicksTyped
<1>7. data.entities = <<>>
  BY DEF Init, data, DataOf, initialData
<1>8. TicksOfView
  <2>1. EntitiesTicked(selectedRow, <<>>) = {}
    <3>1. \A j \in DOMAIN selectedRow : ~(j < Len(<<>>))
      <4>1. Len(<<>>) = 0
        OBVIOUS
      <4>2. QED
        BY <1>6, <4>1 DEF TicksTyped
    <3>2. QED
      BY <3>1 DEF EntitiesTicked
  <2>2. QED
    BY <1>7, <2>1 DEF Init, TicksOfView
<1>9. StepsOK
  BY <1>1, EntityTableAssumption DEF Init, StepsOK, PlaceOK
<1>10. TicksAreOwn
  <2>1. DOMAIN <<>> = {}
    OBVIOUS
  <2>2. QED
    BY <1>7, <2>1 DEF TicksAreOwn
<1>11. QED
  BY <1>1, <1>3, <1>5, <1>6, <1>8, <1>9, <1>10 DEF TInv

LEMMA StepTypes == TInv /\ Shaped /\ [Next]_vars => TInv'
<1> SUFFICES ASSUME TInv, Shaped, [Next]_vars PROVE TInv'
  OBVIOUS
<1>1. CASE Network \/ Failures
  <2>1. ASSUME NEW k \in DOMAIN flight, Serve(k) \/ Deliver(k) \/ FetchFails(k) PROVE TInv'
    BY <2>1, RequestTypes
  <2>2. ASSUME NEW m \in mutations, ServerChanges(m) \/ MutationSucceeds(m) \/ MutationFails(m)
        PROVE  TInv'
    BY <2>2, ChangeTypes
  <2>3. QED
    BY <1>1, <2>1, <2>2, ParentTypes DEF Network, Failures
<1>2. CASE UNCHANGED vars
  <2>1. /\ UNCHANGED <<table, page, size, stored, keyword, primaryFilter, filter, sort, inbound>>
        /\ UNCHANGED <<cache, flight, selectedRow, selectedEntity, existing, clicked, db, mutations, saved, steps>>
    BY <1>2 DEF vars, place, requests, ticks, server
  <2>2. PlaceOK' /\ ServerOK' /\ FlightOK' /\ StepsOK'
    BY <2>1, StepTyped DEF TInv, PlaceOK, ServerOK, FlightOK
  <2>3. QED
    BY <2>1, <2>2, KeyStays, StillTypes
<1>3. QED
  BY <1>1, <1>2, PagingTypes, NarrowingTypes, ChangingTypes, ReopenTypes, WindowFocusTypes,
     DebounceTypes DEF Next

(* In every table and after any clicks, answers and changes, the state has its
   type, and the entities selected are the ticked rows of the page in view. *)
THEOREM TypesInductive == Spec => []TInv
<1>1. IInv => Shaped
  BY DEF IInv
<1>2. QED
  BY <1>1, InitTypes, StepTypes, TablesInductive, PTL DEF Spec

(* Every variable keeps its type, and no entity is shown, ticked or saved that
   is not one of the table's. *)
THEOREM TableTypes == Spec => []TypeOK
<1>1. TInv => TypeOK
  <2> SUFFICES ASSUME TInv PROVE TypeOK
    OBVIOUS
  <2>1. Len(sort) \in {0, 1}
    <3>1. Len(<<>>) = 0 /\ \A x : Len(<<x>>) = 1
      OBVIOUS
    <3>2. QED
      BY <3>1 DEF TInv, PlaceOK
  <2>2. \A k \in DOMAIN cache : ToSet(cache[k].entities) \subseteq Entities
    BY DEF TInv, CacheOK, AnswerOK, ToSet
  <2>3. QED
    BY <2>1, <2>2 DEF TInv, PlaceOK, ServerOK, TicksTyped, StepsOK, TypeOK
<1>2. QED
  BY <1>1, TypesInductive, PTL

(* Nothing else sends a selection. *)
LEMMA OnlyApply ==
  ASSUME Shaped, Next, NEW m \in mutations', m \notin mutations, m.op = "apply", ~m.done
  PROVE  handleApply
<1>1. UNCHANGED server \/ UNCHANGED mutations => FALSE
  BY DEF server
<1>2. ~Paging /\ ~Narrowing
  BY <1>1 DEF Paging, Narrowing, FirstPage, PreviousPage, NextPage, LastPage, SetPage,
       SetPageSize, Rerender, TypeKeyword, PickFilter, handleClearingFilter, ToggleSorting,
       setSidebarEntityId
<1>3. ~Reopen /\ ~WindowFocus /\ ~Debounce
  BY <1>1 DEF Reopen, WindowFocus, Debounce, Rerender
<1>4. ~Network
  <2>1. \A k : ~Serve(k) /\ ~Deliver(k)
    BY <1>1 DEF Serve, Deliver
  <2>2. ASSUME NEW x \in mutations, ServerChanges(x) PROVE FALSE
    <3>1. PICK d : d = [x EXCEPT !.done = TRUE]
      OBVIOUS
    <3>2. d.done
      BY <3>1 DEF Shaped
    <3>3. m = d
      BY <2>2, <3>1 DEF ServerChanges
    <3>4. QED
      BY <3>2, <3>3
  <2>3. \A x : ~MutationSucceeds(x)
    BY DEF MutationSucceeds
  <2>4. QED
    BY <1>1, <2>1, <2>2, <2>3 DEF Network, ParentRefetched
<1>5. ~Failures
  BY <1>1 DEF Failures, FetchFails, MutationFails
<1>6. ASSUME NEW x PROVE ~CreateEntity(x) /\ ~DeleteEntity(x)
  BY DEF CreateEntity, DeleteEntity, Change
<1>7. ~toggleAllPageRowsSelected /\ \A i : ~ToggleSelected(i)
  BY <1>1 DEF ToggleSelected, toggleAllPageRowsSelected
<1>8. QED
  BY <1>2, <1>3, <1>4, <1>5, <1>6, <1>7 DEF Next, Changing

(* What Apply sends are the ticked rows of the page in view (the two effects of
   SelectableEntityTable). *)
THEOREM AppliesTicked == Spec => AppliesTheTicks
<1> DEFINE Sends == \A m \in mutations' \ mutations : m.op = "apply" /\ ~m.done =>
           m.ids = {data.entities[i] : i \in {j \in DOMAIN data.entities :
                       j - 1 \in DOMAIN selectedRow /\ selectedRow[j - 1]}}
<1>1. ASSUME TInv, Shaped, Next PROVE Sends
  <2> SUFFICES ASSUME NEW m \in mutations', m \notin mutations, m.op = "apply", ~m.done
               PROVE  m.ids = {data.entities[i] : i \in {j \in DOMAIN data.entities :
                        j - 1 \in DOMAIN selectedRow /\ selectedRow[j - 1]}}
    OBVIOUS
  <2>1. handleApply
    BY <1>1, OnlyApply
  <2>2. m = Change("apply", selectedEntity) /\ Selectable
    BY <2>1 DEF handleApply
  <2>3. m.ids = EntitiesTicked(selectedRow, data.entities)
    <3>1. m.ids = selectedEntity
      BY <2>2 DEF Change
    <3>2. selectedEntity = EntitiesTicked(selectedRow, data.entities)
      BY <1>1, <2>2 DEF TInv, TicksOfView
    <3>3. QED
      BY <3>1, <3>2
  <2>4. data.entities \in Seq(Entities) /\ DOMAIN selectedRow \subseteq Nat
    BY <1>1, DataIs DEF TInv, AnswerOK, TicksTyped, data
  <2>5. QED
    BY <2>3, <2>4, TickedIs
<1>2. ASSUME UNCHANGED vars PROVE Sends
  BY <1>2 DEF vars, server
<1>3. TInv /\ IInv /\ [Next]_vars => [Sends]_vars
  BY <1>1, <1>2 DEF IInv
<1>4. QED
  BY <1>3, TypesInductive, TablesInductive, PTL DEF Spec, AppliesTheTicks

(* A tick that differs from what the parent entity has was clicked on that very
   row, after any pages, searches, answers and refetches of the parent: none of
   them hands one row's tick on to another (the first effect of
   SelectableEntityTable). *)
THEOREM TicksStayOwn == Spec => []TicksAreOwn
<1>1. TInv => TicksAreOwn
  BY DEF TInv
<1>2. QED
  BY <1>1, TypesInductive, PTL

-----------------------------------------------------------------------------
(* The buttons *)

LEMMA PositionIs ==
  ASSUME NEW q \in Seq(Entities), q = Ordered(db, RequestOf(Key)),
         NEW x, \E i \in 1 .. Len(q) : q[i] = x
  PROVE  Position(x) \in 1 .. Len(q) /\ q[Position(x)] = x
<1>1. DOMAIN q = 1 .. Len(q)
  OBVIOUS
<1>2. \E i \in DOMAIN q : q[i] = x
  BY <1>1
<1>3. Position(x) = CHOOSE i \in DOMAIN q : q[i] = x
  BY DEF Position
<1>4. Position(x) \in DOMAIN q /\ q[Position(x)] = x
  BY <1>2, <1>3
<1>5. QED
  BY <1>1, <1>4

(* An entity that is found and is not on the page the table shows is before it
   or behind it, and the buttons lead there. *)
LEMMA ButtonsLead ==
  ASSUME NEW n \in Nat, NEW g \in Nat, NEW p \in Nat, NEW r \in Nat,
         p >= 1, p <= n, r = g \/ (g = 0 /\ r = 1), r >= 1, p # r,
         page = g, data.pageCount = n
  PROVE  \/ p > page /\ getCanNextPage /\ ClampedTo(page + 1) = page + 1
         \/ p < page /\ getCanPreviousPage /\ ClampedTo(page - 1) \in p .. page - 1
<1>1. getPageCount = n + 1
  BY DEF getPageCount
<1>2. CASE p > g
  <2>1. getCanNextPage
    BY <1>1, <1>2 DEF getCanNextPage
  <2>2. ClampedTo(page + 1) = page + 1
    BY <1>1, <1>2 DEF ClampedTo
  <2>3. QED
    BY <1>2, <2>1, <2>2
<1>3. CASE p <= g
  <2>1. p < g
    BY <1>3
  <2>2. getCanPreviousPage
    BY <2>1 DEF getCanPreviousPage
  <2>3. ClampedTo(page - 1) \in p .. page - 1
    BY <1>1, <2>1 DEF ClampedTo
  <2>4. QED
    BY <2>1, <2>2, <2>3
<1>4. QED
  BY <1>2, <1>3

(* Every entity that is found is on the page in view, or the buttons lead to it
   (useEntityTable, DataTablePagination). *)
THEOREM EveryRowReached == Spec => []RowsReachable
<1>1. TInv /\ RowsAreTheAnswer => RowsReachable
  <2> SUFFICES ASSUME TInv, RowsAreTheAnswer, Quiet, Key \notin blind,
                      NEW x \in Found(db, RequestOf(Key)), x \notin ToSet(data.entities)
               PROVE  LET p == Ceiling(Position(x), size) IN
                        \/ p > page /\ getCanNextPage /\ ClampedTo(page + 1) = page + 1
                        \/ p < page /\ getCanPreviousPage /\ ClampedTo(page - 1) \in p .. page - 1
    BY DEF RowsReachable
  <2>1. PICK r : r = RequestOf(Key)
    OBVIOUS
  <2>2. PICK q : q = Ordered(db, r)
    OBVIOUS
  <2>3. data = Answer(db, r)
    BY <2>1 DEF RowsAreTheAnswer
  <2>4. KeyOK(Key) /\ RequestPage(Key, r) /\ Directed(r)
    BY <2>1, KeyIs, RequestIs DEF TInv
  <2>5. /\ r.size = size /\ size \in Nat \ {0} /\ page \in Nat /\ r.page \in Nat
        /\ r.page = page \/ (page = 0 /\ r.page = 1)
    <3>1. Key.size = size /\ Key.page = page
      BY DEF Key
    <3>2. size \in Nat \ {0} /\ page \in Nat
      BY EntityTableAssumption DEF TInv, PlaceOK
    <3>3. QED
      BY <2>4, <3>1, <3>2 DEF RequestPage
  <2>6. db \in SUBSET Entities
    BY DEF TInv, ServerOK
  <2>7. /\ Cardinality(Found(db, r)) \in Nat /\ q \in Seq(Entities)
        /\ Len(q) = Cardinality(Found(db, r))
        /\ \E i \in 1 .. Len(q) : q[i] = x
    BY <2>1, <2>2, <2>4, <2>6, OrderedIs
  <2>8. r.route # "pools"
    <3>1. SUFFICES ASSUME r.route = "pools" PROVE FALSE
      OBVIOUS
    <3>2. PICK n, l : n = Cardinality(db) /\ l = InOrder[FALSE][db]
      OBVIOUS
    <3>3. /\ n \in Nat /\ l \in [1 .. n -> db]
          /\ \A y \in db : \E i \in 1 .. n : l[i] = y
      BY <2>6, <3>2, InOrderIs
    <3>4. data.entities = l
      BY <2>3, <3>1, <3>2 DEF Answer
    <3>5. x \in db
      BY DEF Found
    <3>6. x \in ToSet(l)
      BY <3>3, <3>5 DEF ToSet
    <3>7. QED
      BY <3>4, <3>6
  <2>9. ~(r.page < 1)
    <3>1. SUFFICES ASSUME r.page < 1 PROVE FALSE
      OBVIOUS
    <3>2. data = Refused
      BY <2>3, <2>8, <3>1 DEF Answer
    <3>3. ~data.refused
      BY DataIs DEF TInv, data
    <3>4. QED
      BY <3>2, <3>3 DEF Refused
  <2>10. r.page \in Nat \ {0}
    <3>1. ASSUME NEW m \in Nat, ~(m < 1) PROVE m \in Nat \ {0}
      BY <3>1
    <3>2. QED
      BY <2>5, <2>9, <3>1
  <2>11. /\ data.entities = PageOf(q, r.page, size)
         /\ data.pageCount = Ceiling(Len(q), size)
    BY <2>2, <2>3, <2>5, <2>7, <2>8, <2>9 DEF Answer
  <2>12. PICK i \in 1 .. Len(q) : i = Position(x) /\ q[i] = x
    BY <2>1, <2>2, <2>7, PositionIs
  <2>13. PICK p, n : p = Ceiling(i, size) /\ n = Ceiling(Len(q), size)
    OBVIOUS
  <2>14. p \in Nat /\ p >= 1 /\ n \in Nat /\ p <= n
    <3>1. i \in Nat /\ i > 0 /\ Len(q) \in Nat /\ i <= Len(q)
      BY <2>7
    <3>2. QED
      BY <2>5, <2>13, <3>1, CeilingIs, CeilingGrows
  <2>15. p # r.page
    <3>1. PICK h \in Nat \ {0} : h = r.page
      BY <2>10
    <3>2. size \in Nat \ {0} /\ q \in Seq(Entities)
      BY <2>5, <2>7
    <3>3. \A j \in 1 .. Len(q) : Ceiling(j, size) = h => q[j] \in ToSet(PageOf(q, h, size))
      BY <3>2, PageOfIs
    <3>4. q[i] \notin ToSet(PageOf(q, h, size))
      BY <2>11, <2>12, <3>1
    <3>5. Ceiling(i, size) # h
      BY <3>3, <3>4
    <3>6. QED
      BY <2>13, <3>1, <3>5
  <2>16. QED
    <3>1. r.page >= 1
      BY <2>10
    <3>2. PICK g, h : g = page /\ h = r.page
      OBVIOUS
    <3>3. QED
      BY <2>5, <2>11, <2>12, <2>13, <2>14, <2>15, <3>1, <3>2, ButtonsLead
<1>2. QED
  BY <1>1, TypesInductive, RowsAnswer, PTL
=============================================================================
