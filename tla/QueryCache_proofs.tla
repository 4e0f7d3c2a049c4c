-------------------------- MODULE QueryCache_proofs --------------------------
(***************************************************************************)
(* Proofs about one query of the cache: whatever the user does meanwhile,  *)
(* however many changes are made and however their answers and those of    *)
(* the fetches overlap, a page at rest shows what the user was told.       *)
(***************************************************************************)
EXTENDS QueryCache, TLAPS

Stages == {"sent", "applied", "succeeded", "refused", "unanswered"}
Change == [concerns : BOOLEAN, refreshes : BOOLEAN, status : Stages]
ChangesTyped == changes \in Seq(Change)

Placed == \E p \in Places : p.path = address /\ p.view = view

(* The changes of which the view has to know. *)
Owed == {i \in Current : changes[i].concerns}

(* Whoever changes what the query is about fetches it again. *)
Refreshing ==
    \A i \in Changes : changes[i].concerns /\ ~query.loader => changes[i].refreshes

(* An answer to a fetch was given after what is owed was applied, unless
   the success was learnt while nobody looked. *)
AnswerCatches == Answered /\ ~blind => Owed \subseteq request.answer
DataCatches == Shown /\ request = None /\ ~failed /\ ~blind => Owed \subseteq data

Catches == query # AllHostsForChain => Refreshing /\ AnswerCatches /\ DataCatches

SetsTyped ==
    /\ data = Nothing \/ data \subseteq Changes \cup {World}
    /\ request.answer \subseteq Changes \cup {World}
BoundsTyped == moves \in 0 .. MaxMoves /\ Len(changes) <= MaxChanges

IInv ==
    /\ query \in AllQueries /\ Placed
    /\ BoundsTyped /\ ChangesTyped /\ SetsTyped
    /\ known \subseteq Status("succeeded")
    /\ Catches

-----------------------------------------------------------------------------
(* Places *)

LEMMA HereIsPlace == Placed => Here \in Places /\ Here.path = address /\ Here.view = view
  BY DEF Placed, Here

LEMMA Arrives ==
  ASSUME NEW p \in Places, address' = p.path, view' = p.view, query' = query
  PROVE  Placed' /\ (Shown' <=> query \in p.shows)
<1>1. Placed'
  BY DEF Placed
<1>2. Here' = p
  <2> DEFINE P(o) == o.path = address' /\ o.view = view'
  <2>1. p \in Places /\ P(p)
    OBVIOUS
  <2>2. \A o \in Places : P(o) => o = p
    BY RoutesAssumption
  <2>3. Here' = CHOOSE o \in Places : P(o)
    BY DEF Here
  <2> HIDE DEF P
  <2> QED BY <2>1, <2>2, <2>3
<1> QED BY <1>1, <1>2 DEF Shown

LEMMA OpenedIsPlace ==
  ASSUME Placed, Here.onClose # ""
  PROVE  Opened(Here.onClose) \in Places
<1>1. Here \in Places
  BY HereIsPlace
<1>2. \E o \in Places : o.path = Here.onClose /\ o.first
  BY <1>1, RoutesAssumption
<1> QED BY <1>2 DEF Opened

LEMMA Stays ==
  ASSUME Placed, UNCHANGED <<query, address, view>>
  PROVE  Placed' /\ (Shown' <=> Shown) /\ Here' = Here
<1>1. address' = address /\ view' = view /\ query' = query
  OBVIOUS
<1>2. Here' = Here
  BY <1>1 DEF Here
<1> QED BY <1>1, <1>2 DEF Placed, Shown

-----------------------------------------------------------------------------
(* Changes *)

LEMMA BecomesKeeps ==
  ASSUME ChangesTyped, NEW i \in Changes, NEW s \in Stages, Becomes(i, s)
  PROVE  /\ ChangesTyped' /\ Len(changes') = Len(changes)
         /\ \A j \in Changes : /\ changes'[j].concerns = changes[j].concerns
                               /\ changes'[j].refreshes = changes[j].refreshes
                               /\ j # i => changes'[j].status = changes[j].status
         /\ changes'[i].status = s
<1>1. changes' = [changes EXCEPT ![i] = [changes[i] EXCEPT !.status = s]]
  BY DEF Becomes
<1>2. changes[i] \in Change
  <2>1. i \in 1 .. Len(changes)
    BY DEF Changes
  <2> QED BY <2>1 DEF ChangesTyped
<1>3. /\ [changes[i] EXCEPT !.status = s] \in Change
      /\ [changes[i] EXCEPT !.status = s].concerns = changes[i].concerns
      /\ [changes[i] EXCEPT !.status = s].refreshes = changes[i].refreshes
      /\ [changes[i] EXCEPT !.status = s].status = s
  BY <1>2 DEF Change
<1> DEFINE c == [changes[i] EXCEPT !.status = s]
<1> HIDE DEF c
<1>4. /\ changes' = [changes EXCEPT ![i] = c]
      /\ c \in Change
      /\ c.concerns = changes[i].concerns
      /\ c.refreshes = changes[i].refreshes
      /\ c.status = s
  BY <1>1, <1>3 DEF c
<1>5. Len(changes') = Len(changes) /\ ChangesTyped'
  BY <1>4 DEF ChangesTyped, Changes
<1>6. changes'[i] = c /\ \A j \in Changes : j # i => changes'[j] = changes[j]
  BY <1>4 DEF ChangesTyped, Changes
<1> QED BY <1>4, <1>5, <1>6, Zenon

LEMMA AppendKeeps ==
  ASSUME ChangesTyped, NEW c,
         c \in Change,
         c.status = "sent", changes' = Append(changes, c)
  PROVE  /\ ChangesTyped' /\ Len(changes') = Len(changes) + 1
         /\ Changes' = Changes \cup {Len(changes) + 1}
         /\ Len(changes) + 1 \notin Changes
         /\ \A j \in Changes : changes'[j] = changes[j]
         /\ changes'[Len(changes) + 1] = c
         /\ Status("succeeded")' = Status("succeeded")
<1>1. /\ ChangesTyped' /\ Len(changes') = Len(changes) + 1
      /\ Changes' = Changes \cup {Len(changes) + 1}
      /\ Len(changes) + 1 \notin Changes
      /\ \A j \in Changes : changes'[j] = changes[j]
      /\ changes'[Len(changes) + 1] = c
  BY DEF ChangesTyped, Changes
<1>2. Status("succeeded")' = Status("succeeded")
  BY <1>1 DEF Status
<1> QED BY <1>1, <1>2

(* What is owed follows the changes that succeed, and what was known. *)
LEMMA OwedStays ==
  ASSUME IInv, query' = query,
         \A j \in Changes : j \in Changes' /\ changes'[j].concerns = changes[j].concerns,
         query.loader => known' = known,
         ~query.loader => Status("succeeded")' = Status("succeeded")
  PROVE  Owed' = Owed
<1>1. Status("succeeded") \subseteq Changes /\ known \subseteq Changes
  BY DEF IInv, Status
<1>2. Current' = Current
  BY DEF Current
<1>3. Current \subseteq Changes
  BY <1>1 DEF Current
<1> QED BY <1>2, <1>3, Zenon DEF Owed

-----------------------------------------------------------------------------
(* Walks *)

(* The changes are those there were, or one more is sent. *)
Grows ==
    /\ ChangesTyped'
    /\ \A j \in Changes : j \in Changes' /\ changes'[j].concerns = changes[j].concerns
    /\ Status("succeeded")' = Status("succeeded")
    /\ query # AllHostsForChain => Refreshing'

LEMMA SameGrows ==
  ASSUME IInv, UNCHANGED <<query, changes>>
  PROVE  Grows
<1>1. query' = query /\ changes' = changes
  OBVIOUS
<1>2. Changes' = Changes
  BY <1>1 DEF Changes
<1>3. ChangesTyped' /\ Status("succeeded")' = Status("succeeded")
  BY <1>1, <1>2 DEF IInv, ChangesTyped, Status
<1>4. Refreshing => Refreshing'
  BY <1>1, <1>2 DEF Refreshing
<1> QED BY <1>1, <1>2, <1>3, <1>4 DEF Grows, IInv, Catches

(* A query that comes into view is fetched, or the fetch under way joined. *)
LEMMA MountCatches ==
  ASSUME AnswerCatches, DataCatches, Mount(Shown, Shown'), Owed' = Owed,
         UNCHANGED <<data, failed>>
  PROVE  AnswerCatches' /\ DataCatches'
<1>1. CASE request' = Sent /\ blind' = FALSE
  <2>1. ~Answered' /\ request' # None
    BY <1>1 DEF Answered, Sent, None
  <2> QED BY <2>1 DEF AnswerCatches, DataCatches
<1>2. CASE request' = request /\ blind' = blind /\ (Shown' /\ request = None => Shown)
  <2>1. Answered' <=> Answered
    BY <1>2 DEF Answered
  <2> QED BY <1>2, <2>1 DEF AnswerCatches, DataCatches
<1> QED BY <1>1, <1>2 DEF Mount

LEMMA MountTyped ==
  ASSUME NEW a, NEW b, SetsTyped, Changes \subseteq Changes', Mount(a, b), data' = data
  PROVE  SetsTyped'
<1>1. request'.answer \in {{}, request.answer}
  BY DEF Mount, Sent
<1> QED BY <1>1 DEF SetsTyped

LEMMA GoKeeps ==
  ASSUME IInv, NEW p \in Places, Go(p), query' = query, failed' = failed, Grows
  PROVE  Placed' /\ SetsTyped' /\ known' \subseteq Status("succeeded")' /\ Catches'
<1>1. address' = p.path /\ view' = p.view /\ known' = Status("succeeded")
  BY DEF Go
<1>2. Placed' /\ (Shown' <=> query \in p.shows)
  BY <1>1, Arrives
<1>3. known' \subseteq Status("succeeded")'
  BY <1>1 DEF Grows
<1>4. Changes \subseteq Changes'
  BY DEF Grows
<1>5. CASE query.loader
  <2>1. Load(p)
    BY <1>5 DEF Go
  <2>2. /\ request' = IF query \in p.shows THEN Sent ELSE None
        /\ data' = Nothing /\ blind' = FALSE
    BY <2>1 DEF Load
  <2>3. SetsTyped'
    BY <2>2 DEF SetsTyped, Sent, None
  <2>4. ~Answered' /\ (Shown' => request' # None)
    BY <1>2, <2>2 DEF Answered, Sent, None
  <2>5. AnswerCatches' /\ DataCatches'
    BY <2>4 DEF AnswerCatches, DataCatches
  <2> QED BY <1>2, <1>3, <2>3, <2>5 DEF Catches, Grows
<1>6. CASE ~query.loader
  <2>1. Mount(Shown, query \in p.shows) /\ data' = data
    BY <1>6 DEF Go
  <2>2. Mount(Shown, Shown')
    BY <1>2, <2>1 DEF Mount
  <2>3. SetsTyped'
    BY <1>4, <2>2, MountTyped, <2>1 DEF IInv
  <2>4. Owed' = Owed
    BY <1>6, OwedStays DEF Grows
  <2>5. Catches'
    BY <2>1, <2>2, <2>4, MountCatches DEF IInv, Catches, Grows
  <2> QED BY <1>2, <1>3, <2>3, <2>5
<1> QED BY <1>5, <1>6

LEMMA NavigateStep ==
  ASSUME IInv, NEW p \in Places, Navigate(p)
  PROVE  IInv'
<1>1. /\ moves < MaxMoves /\ moves' = moves + 1 /\ Go(p)
      /\ query' = query /\ changes' = changes /\ failed' = failed
  BY DEF Navigate, server
<1>2. Grows
  BY <1>1, SameGrows
<1>3. BoundsTyped'
  BY <1>1, QueryCacheAssumption DEF IInv, BoundsTyped
<1> QED BY <1>1, <1>2, <1>3, GoKeeps DEF IInv, Grows

LEMMA CloseStep ==
  ASSUME IInv, Close
  PROVE  IInv'
<1>1. /\ Here.onClose # "" /\ Go(Opened(Here.onClose))
      /\ query' = query /\ moves' = moves /\ changes' = changes /\ failed' = failed
  BY DEF Close, IsDialog, server
<1>2. Opened(Here.onClose) \in Places
  BY <1>1, OpenedIsPlace DEF IInv
<1>3. Grows
  BY <1>1, SameGrows
<1>4. BoundsTyped'
  BY <1>1 DEF IInv, BoundsTyped
<1> QED BY <1>1, <1>2, <1>3, <1>4, GoKeeps DEF IInv, Grows

LEMMA SwitchTabStep ==
  ASSUME IInv, NEW p \in Places, SwitchTab(p)
  PROVE  IInv'
<1>1. /\ p.path = address /\ moves < MaxMoves /\ moves' = moves + 1 /\ view' = p.view
      /\ Mount(Shown, query \in p.shows)
      /\ query' = query /\ address' = address /\ changes' = changes
      /\ data' = data /\ failed' = failed /\ known' = known
  BY DEF SwitchTab, server
<1>2. Placed' /\ (Shown' <=> query \in p.shows)
  BY <1>1, Arrives
<1>3. Mount(Shown, Shown')
  BY <1>1, <1>2 DEF Mount
<1>4. Grows
  BY <1>1, SameGrows
<1>5. Owed' = Owed
  BY <1>1, <1>4, OwedStays DEF Grows
<1>6. Catches'
  BY <1>1, <1>3, <1>4, <1>5, MountCatches DEF IInv, Catches, Grows
<1>7. Changes \subseteq Changes'
  BY <1>4 DEF Grows
<1>8. SetsTyped'
  BY <1>1, <1>3, <1>7, MountTyped DEF IInv
<1>9. BoundsTyped'
  BY <1>1, QueryCacheAssumption DEF IInv, BoundsTyped
<1> QED BY <1>1, <1>2, <1>4, <1>6, <1>8, <1>9 DEF IInv, Grows

(* What is sent has not succeeded, and will refresh what it concerns. *)
LEMMA SubmitGrows ==
  ASSUME IInv, NEW m, Submit(m)
  PROVE  /\ Grows /\ query' = query /\ moves' = moves /\ failed' = failed
         /\ Len(changes') = Len(changes) + 1
<1> DEFINE c == [concerns |-> Concerns(m), refreshes |-> Invalidates(m, query),
                 status |-> "sent"]
<1>1. /\ m \in Here.offers /\ changes' = Append(changes, c)
      /\ query' = query /\ moves' = moves /\ failed' = failed
  BY DEF Submit
<1>2. Concerns(m) \in BOOLEAN /\ Invalidates(m, query) \in BOOLEAN
  BY DEF Concerns, Invalidates
<1>3. c \in Change
  BY <1>2 DEF Change, Stages
<1>4. /\ c.concerns = Concerns(m) /\ c.refreshes = Invalidates(m, query)
      /\ c.status = "sent"
  OBVIOUS
<1> HIDE DEF c
<1>5. /\ ChangesTyped' /\ Len(changes') = Len(changes) + 1
      /\ Changes' = Changes \cup {Len(changes) + 1}
      /\ \A j \in Changes : changes'[j] = changes[j]
      /\ changes'[Len(changes) + 1] = c
      /\ Status("succeeded")' = Status("succeeded")
  BY <1>1, <1>3, <1>4, AppendKeeps DEF IInv
<1>6. ASSUME query # AllHostsForChain PROVE Refreshing'
  <2>1. Refreshing
    BY <1>6 DEF IInv, Catches
  <2>2. c.concerns /\ ~query.loader => c.refreshes
    <3>1. Here \in Places /\ query \in AllQueries
      BY HereIsPlace DEF IInv
    <3>2. m.of = query.of => query.loader \/ Invalidates(m, query)
      BY <1>1, <1>6, <3>1, RoutesAssumption
    <3> QED BY <1>4, <3>2, Zenon DEF Concerns
  <2>3. SUFFICES ASSUME NEW j \in Changes', changes'[j].concerns, ~query.loader
                 PROVE  changes'[j].refreshes
    BY <1>1 DEF Refreshing
  <2>4. CASE j \in Changes
    <3>1. changes'[j] = changes[j]
      BY <1>5, <2>4
    <3> QED BY <2>1, <2>3, <2>4, <3>1, Zenon DEF Refreshing
  <2>5. CASE j = Len(changes) + 1
    BY <1>5, <2>2, <2>3, <2>5, Zenon
  <2> QED BY <1>5, <2>4, <2>5
<1>7. \A j \in Changes : j \in Changes' /\ changes'[j].concerns = changes[j].concerns
  BY <1>5
<1> QED BY <1>1, <1>5, <1>6, <1>7 DEF Grows

LEMMA SubmitStep ==
  ASSUME IInv, NEW m \in Here.offers, Submit(m)
  PROVE  IInv'
<1>1. /\ Grows /\ query' = query /\ moves' = moves /\ failed' = failed
      /\ Len(changes') = Len(changes) + 1
  BY SubmitGrows
<1>2. BoundsTyped'
  <2>1. Len(changes) < MaxChanges /\ Len(changes) \in Nat
    BY DEF Submit, IInv, ChangesTyped
  <2> QED BY <1>1, <2>1, QueryCacheAssumption DEF IInv, BoundsTyped
<1>3. CASE Here.closes
  <2>1. Go(Opened(Here.onClose))
    BY <1>3 DEF Submit
  <2>2. Here.onClose # ""
    BY <1>3, HereIsPlace, RoutesAssumption DEF IInv
  <2>3. Opened(Here.onClose) \in Places
    BY <2>2, OpenedIsPlace DEF IInv
  <2> QED BY <1>1, <1>2, <2>1, <2>3, GoKeeps DEF IInv, Grows
<1>4. CASE ~Here.closes
  <2>1. /\ address' = address /\ view' = view /\ known' = known
        /\ request' = request /\ blind' = blind /\ data' = data
    BY <1>4 DEF Submit
  <2>2. Placed' /\ (Shown' <=> Shown)
    BY <1>1, <2>1, Stays DEF IInv
  <2>3. Owed' = Owed
    BY <1>1, <2>1, OwedStays DEF Grows
  <2>4. SetsTyped'
    <3>1. Changes \subseteq Changes'
      BY <1>1 DEF Grows
    <3> QED BY <2>1, <3>1 DEF IInv, SetsTyped
  <2>5. AnswerCatches => AnswerCatches'
    BY <2>1, <2>3 DEF AnswerCatches, Answered
  <2>6. DataCatches => DataCatches'
    BY <1>1, <2>1, <2>2, <2>3 DEF DataCatches
  <2> QED BY <1>1, <1>2, <2>1, <2>2, <2>4, <2>5, <2>6 DEF IInv, Catches, Grows
<1> QED BY <1>3, <1>4

-----------------------------------------------------------------------------
(* Answers to changes *)

(* A change moves on from where it is. *)
LEMMA MovesOn ==
  ASSUME IInv, NEW i \in Changes, NEW s \in Stages, Becomes(i, s),
         changes[i].status # "succeeded",
         UNCHANGED <<query, place, world, data, failed, known>>,
         request'.answer \in {request.answer, {}}
  PROVE  /\ query \in AllQueries /\ Placed' /\ BoundsTyped' /\ ChangesTyped' /\ SetsTyped'
         /\ Changes' = Changes /\ known' \subseteq Status("succeeded")'
         /\ Status("succeeded")'
              = Status("succeeded") \cup (IF s = "succeeded" THEN {i} ELSE {})
         /\ \A j \in Changes : changes'[j].concerns = changes[j].concerns
         /\ (Shown' <=> Shown) /\ (Refreshing => Refreshing')
         /\ query' = query /\ data' = data /\ failed' = failed /\ known' = known
<1>1. /\ query' = query /\ address' = address /\ view' = view /\ moves' = moves
      /\ data' = data /\ failed' = failed /\ known' = known
  BY DEF place
<1>2. /\ ChangesTyped' /\ Len(changes') = Len(changes)
      /\ \A j \in Changes : /\ changes'[j].concerns = changes[j].concerns
                            /\ changes'[j].refreshes = changes[j].refreshes
                            /\ j # i => changes'[j].status = changes[j].status
      /\ changes'[i].status = s
  BY BecomesKeeps DEF IInv
<1>3. Changes' = Changes
  BY <1>2 DEF Changes
<1>4. Status("succeeded")'
        = Status("succeeded") \cup (IF s = "succeeded" THEN {i} ELSE {})
  BY <1>2, <1>3 DEF Status
<1>5. Placed' /\ (Shown' <=> Shown)
  BY <1>1, Stays DEF IInv
<1>6. SetsTyped'
  BY <1>1, <1>3 DEF IInv, SetsTyped
<1>7. BoundsTyped'
  BY <1>1, <1>2 DEF IInv, BoundsTyped
<1>8. Refreshing => Refreshing'
  BY <1>1, <1>2, <1>3, Zenon DEF Refreshing
<1>9. known' \subseteq Status("succeeded")'
  BY <1>1, <1>4 DEF IInv
<1> QED BY <1>1, <1>2, <1>3, <1>4, <1>5, <1>6, <1>7, <1>8, <1>9 DEF IInv

(* A change that does not succeed is not owed. *)
LEMMA UnheardStep ==
  ASSUME IInv, NEW i \in Changes, ServerApplies(i) \/ Fails(i)
  PROVE  IInv'
<1>1. /\ UNCHANGED <<query, place, world, data, request, failed, blind, known>>
      /\ changes[i].status # "succeeded"
  BY DEF ServerApplies, Fails
<1>2. PICK s \in Stages \ {"succeeded"} : Becomes(i, s)
  BY DEF ServerApplies, Fails, Stages
<1>3. /\ query \in AllQueries /\ Placed' /\ BoundsTyped' /\ ChangesTyped' /\ SetsTyped'
      /\ Changes' = Changes /\ known' \subseteq Status("succeeded")'
      /\ Status("succeeded")'
           = Status("succeeded") \cup (IF s = "succeeded" THEN {i} ELSE {})
      /\ \A j \in Changes : changes'[j].concerns = changes[j].concerns
      /\ (Shown' <=> Shown) /\ (Refreshing => Refreshing')
      /\ query' = query /\ data' = data /\ failed' = failed /\ known' = known
  <2>1. request'.answer \in {request.answer, {}}
    BY <1>1
  <2> QED BY <1>1, <1>2, <2>1, MovesOn
<1>4. Status("succeeded")' = Status("succeeded")
  BY <1>2, <1>3
<1>5. Owed' = Owed
  BY <1>3, <1>4, OwedStays
<1>6. AnswerCatches => AnswerCatches'
  BY <1>1, <1>5 DEF AnswerCatches, Answered
<1>7. DataCatches => DataCatches'
  BY <1>1, <1>3, <1>5 DEF DataCatches
<1> QED BY <1>3, <1>6, <1>7 DEF IInv, Catches

(* A change that succeeds is fetched where it is in view, and leaves a fetch
   that is out of view blind. *)
LEMMA SucceedsStep ==
  ASSUME IInv, NEW i \in Changes, Succeeds(i)
  PROVE  IInv'
<1>1. /\ UNCHANGED <<query, place, world, data, failed, known>>
      /\ changes[i].status = "applied" /\ Becomes(i, "succeeded")
      /\ \/ changes[i].refreshes /\ Shown /\ request' = Sent
         \/ /\ ~(changes[i].refreshes /\ Shown) /\ request' = request
            /\ blind' = (blind \/ (request # None /\ ~Shown))
  BY DEF Succeeds
<1>2. /\ query \in AllQueries /\ Placed' /\ BoundsTyped' /\ ChangesTyped' /\ SetsTyped'
      /\ Changes' = Changes /\ known' \subseteq Status("succeeded")'
      /\ Status("succeeded")' = Status("succeeded") \cup {i}
      /\ \A j \in Changes : changes'[j].concerns = changes[j].concerns
      /\ (Shown' <=> Shown) /\ (Refreshing => Refreshing')
      /\ query' = query /\ data' = data /\ failed' = failed /\ known' = known
  <2>1. request'.answer \in {request.answer, {}}
    BY <1>1 DEF Sent
  <2>2. "succeeded" \in Stages /\ changes[i].status # "succeeded"
    BY <1>1 DEF Stages
  <2> QED BY <1>1, <2>1, <2>2, MovesOn
<1>3. ASSUME query # AllHostsForChain PROVE AnswerCatches' /\ DataCatches'
  <2>1. CASE request' = Sent
    <3>1. ~Answered' /\ request' # None
      BY <2>1 DEF Answered, Sent, None
    <3> QED BY <3>1 DEF AnswerCatches, DataCatches
  <2>2. CASE /\ ~(changes[i].refreshes /\ Shown) /\ request' = request
             /\ blind' = (blind \/ (request # None /\ ~Shown))
    <3>1. Refreshing /\ AnswerCatches /\ DataCatches
      BY <1>3 DEF IInv, Catches
    <3>2. ASSUME Shown PROVE Owed' = Owed
      <4>1. CASE query.loader
        BY <1>2, <4>1, OwedStays
      <4>2. CASE ~query.loader
        <5>1. ~changes[i].concerns
          BY <2>2, <3>1, <3>2, <4>2, Zenon DEF Refreshing
        <5>2. Current = Status("succeeded") /\ Current' = Status("succeeded") \cup {i}
          BY <1>2, <4>2 DEF Current
        <5>3. Status("succeeded") \subseteq Changes
          BY DEF Status
        <5> QED BY <1>2, <5>1, <5>2, <5>3, Zenon DEF Owed
      <4> QED BY <4>1, <4>2
    <3>3. AnswerCatches'
      <4>1. SUFFICES ASSUME Answered', ~blind' PROVE Owed' \subseteq request'.answer
        BY DEF AnswerCatches
      <4>2. Answered
        BY <2>2, <4>1 DEF Answered
      <4>3. request # None
        BY <4>2 DEF Answered, None
      <4>4. ~blind /\ Shown
        BY <2>2, <4>1, <4>3, Zenon
      <4> QED BY <2>2, <3>1, <3>2, <4>2, <4>4 DEF AnswerCatches
    <3>4. DataCatches'
      <4>1. SUFFICES ASSUME Shown', request' = None, ~failed', ~blind'
                     PROVE  Owed' \subseteq data'
        BY DEF DataCatches
      <4>2. Shown /\ request = None /\ ~failed /\ ~blind
        BY <1>2, <2>2, <4>1, Zenon
      <4> QED BY <1>2, <3>1, <3>2, <4>2 DEF DataCatches
    <3> QED BY <3>3, <3>4
  <2> QED BY <1>1, <2>1, <2>2
<1> QED BY <1>2, <1>3 DEF IInv, Catches

-----------------------------------------------------------------------------
(* Fetches *)

LEMMA FetchKeeps ==
  ASSUME IInv, UNCHANGED <<query, place, changes, known>>
  PROVE  /\ query' \in AllQueries /\ Placed' /\ BoundsTyped' /\ ChangesTyped'
         /\ known' \subseteq Status("succeeded")' /\ Changes' = Changes
         /\ (Shown' <=> Shown) /\ Owed' = Owed /\ query' = query
         /\ (Refreshing => Refreshing')
<1>1. /\ query' = query /\ address' = address /\ view' = view /\ moves' = moves
      /\ changes' = changes /\ known' = known
  BY DEF place
<1>2. Changes' = Changes /\ Status("succeeded")' = Status("succeeded")
  BY <1>1 DEF Changes, Status
<1>3. Placed' /\ (Shown' <=> Shown)
  BY <1>1, Stays DEF IInv
<1>4. Owed' = Owed
  BY <1>1, <1>2 DEF Owed, Current
<1>5. BoundsTyped' /\ ChangesTyped'
  BY <1>1 DEF IInv, BoundsTyped, ChangesTyped
<1>6. Refreshing => Refreshing'
  BY <1>1, <1>2 DEF Refreshing
<1> QED BY <1>1, <1>2, <1>3, <1>4, <1>5, <1>6 DEF IInv

(* What succeeded was applied. *)
LEMMA AppliedCatches ==
  ASSUME IInv
  PROVE  Owed \subseteq Applied /\ Applied \subseteq Changes \cup {World}
<1>1. Owed \subseteq Status("succeeded")
  BY DEF IInv, Owed, Current
<1> QED BY <1>1 DEF Applied, Status

LEMMA ServeStep == ASSUME IInv, Serve PROVE IInv'
<1>1. /\ request' = [stage |-> "answered", answer |-> Applied]
      /\ UNCHANGED <<query, place, changes, known>> /\ data' = data
  BY DEF Serve, server
<1>2. /\ query' \in AllQueries /\ Placed' /\ BoundsTyped' /\ ChangesTyped'
      /\ known' \subseteq Status("succeeded")' /\ Changes' = Changes
      /\ Owed' = Owed /\ query' = query /\ (Refreshing => Refreshing')
  BY <1>1, FetchKeeps
<1>3. request'.answer = Applied /\ request' # None
  BY <1>1 DEF None
<1>4. SetsTyped'
  BY <1>1, <1>2, <1>3, AppliedCatches DEF IInv, SetsTyped
<1>5. AnswerCatches' /\ DataCatches'
  BY <1>2, <1>3, AppliedCatches DEF AnswerCatches, DataCatches
<1> QED BY <1>2, <1>4, <1>5 DEF IInv, Catches

LEMMA EndsStep == ASSUME IInv, Deliver \/ FetchFails PROVE IInv'
<1>1. /\ Answered /\ request' = None /\ blind' = blind
      /\ UNCHANGED <<query, place, changes, known>>
      /\ \/ data' = request.answer
         \/ data' = data /\ failed' = TRUE
  BY DEF Deliver, FetchFails, server
<1>2. /\ query' \in AllQueries /\ Placed' /\ BoundsTyped' /\ ChangesTyped'
      /\ known' \subseteq Status("succeeded")' /\ Changes' = Changes
      /\ Owed' = Owed /\ query' = query /\ (Refreshing => Refreshing')
  BY <1>1, FetchKeeps
<1>3. request'.answer = {} /\ ~Answered'
  BY <1>1 DEF None, Answered
<1>4. SetsTyped'
  BY <1>1, <1>2, <1>3 DEF IInv, SetsTyped
<1>5. AnswerCatches'
  BY <1>3 DEF AnswerCatches
<1>6. AnswerCatches => DataCatches'
  BY <1>1, <1>2 DEF AnswerCatches, DataCatches
<1> QED BY <1>2, <1>4, <1>5, <1>6 DEF IInv, Catches

LEMMA RefetchStep == ASSUME IInv, Refetch PROVE IInv'
<1>1. request' = Sent /\ UNCHANGED <<query, place, changes, known>> /\ data' = data
  BY DEF Refetch, server
<1>2. /\ query' \in AllQueries /\ Placed' /\ BoundsTyped' /\ ChangesTyped'
      /\ known' \subseteq Status("succeeded")' /\ Changes' = Changes
      /\ query' = query /\ (Refreshing => Refreshing')
  BY <1>1, FetchKeeps
<1>3. request'.answer = {} /\ ~Answered' /\ request' # None
  BY <1>1 DEF Sent, None, Answered
<1>4. SetsTyped'
  BY <1>1, <1>2, <1>3 DEF IInv, SetsTyped
<1>5. AnswerCatches' /\ DataCatches'
  BY <1>3 DEF AnswerCatches, DataCatches
<1> QED BY <1>2, <1>4, <1>5 DEF IInv, Catches

LEMMA StillStep ==
  ASSUME IInv, UNCHANGED <<query, place, changes, data, request, failed, blind, known>>
  PROVE  IInv'
<1>1. request' = request /\ data' = data /\ failed' = failed /\ blind' = blind
  OBVIOUS
<1>2. /\ query' \in AllQueries /\ Placed' /\ BoundsTyped' /\ ChangesTyped'
      /\ known' \subseteq Status("succeeded")' /\ Changes' = Changes
      /\ (Shown' <=> Shown) /\ Owed' = Owed /\ query' = query
      /\ (Refreshing => Refreshing')
  BY FetchKeeps
<1>3. SetsTyped'
  BY <1>1, <1>2 DEF IInv, SetsTyped
<1>4. AnswerCatches => AnswerCatches'
  BY <1>1, <1>2 DEF AnswerCatches, Answered
<1>5. DataCatches => DataCatches'
  BY <1>1, <1>2 DEF DataCatches
<1> QED BY <1>2, <1>3, <1>4, <1>5 DEF IInv, Catches

-----------------------------------------------------------------------------
LEMMA InitInv == Init => IInv
<1> SUFFICES ASSUME Init PROVE IInv
  OBVIOUS
<1>1. /\ query \in AllQueries /\ moves = 0 /\ changes = <<>> /\ data = Nothing
      /\ known = {}
  BY DEF Init
<1>2. PICK p \in Places : /\ address = p.path /\ view = p.view
                          /\ request = IF query \in p.shows THEN Sent ELSE None
  BY DEF Init
<1>3. Placed
  BY <1>2 DEF Placed
<1>4. Here = p
  BY <1>2, <1>3, HereIsPlace, RoutesAssumption
<1>5. Changes = {}
  BY <1>1 DEF Changes
<1>6. ChangesTyped /\ BoundsTyped
  BY <1>1, QueryCacheAssumption DEF ChangesTyped, BoundsTyped
<1>7. SetsTyped
  BY <1>1, <1>2 DEF SetsTyped, Sent, None
<1>8. ~Answered /\ (Shown => request # None)
  BY <1>2, <1>4 DEF Answered, Shown, Sent, None
<1>9. Catches
  BY <1>5, <1>8 DEF Catches, Refreshing, AnswerCatches, DataCatches
<1> QED BY <1>1, <1>3, <1>6, <1>7, <1>9 DEF IInv

LEMMA StepInv == IInv /\ [Next]_vars => IInv'
<1> SUFFICES ASSUME IInv, [Next]_vars PROVE IInv'
  OBVIOUS
<1>1. CASE Walk
  <2>1. ASSUME NEW p \in Places, Navigate(p) PROVE IInv'
    BY <2>1, NavigateStep
  <2>2. ASSUME NEW p \in Places, SwitchTab(p) PROVE IInv'
    BY <2>2, SwitchTabStep
  <2>3. ASSUME NEW m \in Here.offers, Submit(m) PROVE IInv'
    BY <2>3, SubmitStep
  <2> QED BY <1>1, <2>1, <2>2, <2>3, CloseStep DEF Walk
<1>2. CASE Answers
  <2>1. ASSUME NEW i \in Changes, ServerApplies(i) PROVE IInv'
    BY <2>1, UnheardStep
  <2>2. ASSUME NEW i \in Changes, Succeeds(i) PROVE IInv'
    BY <2>2, SucceedsStep
  <2> QED BY <1>2, <2>1, <2>2, ServeStep, EndsStep DEF Answers
<1>3. CASE Failures
  <2>1. ASSUME NEW i \in Changes, Fails(i) PROVE IInv'
    BY <2>1, UnheardStep
  <2> QED BY <1>3, <2>1, EndsStep DEF Failures
<1>4. CASE WorldMoves
  BY <1>4, StillStep DEF WorldMoves
<1>5. CASE WindowFocus \/ Poll
  BY <1>5, RefetchStep DEF WindowFocus, Poll
<1>6. CASE UNCHANGED vars
  BY <1>6, StillStep DEF vars, server
<1> QED BY <1>1, <1>2, <1>3, <1>4, <1>5, <1>6 DEF Next

(* Every fetch under way was asked for after what is owed was applied, or is
   blind, and so is what the last one brought to a view. *)
THEOREM CacheInductive == Spec => []IInv
  BY InitInv, StepInv, PTL DEF Spec

(* Every variable keeps its type, and the user is always at a place that the
   router knows. *)
THEOREM CacheTypeCorrect == Spec => []TypeOK
<1>1. IInv => TypeOK
  <2> SUFFICES ASSUME IInv PROVE TypeOK
    OBVIOUS
  <2>1. \A i \in Changes : changes[i].status \in Stages
    <3> SUFFICES ASSUME NEW i \in Changes PROVE changes[i].status \in Stages
      OBVIOUS
    <3>1. i \in 1 .. Len(changes)
      BY DEF Changes
    <3>2. changes[i] \in Change
      BY <3>1 DEF IInv, ChangesTyped
    <3> QED BY <3>2 DEF Change
  <2>2. known \subseteq Changes
    BY DEF IInv, Status
  <2> QED BY <2>1, <2>2 DEF IInv, TypeOK, Stages, Placed, BoundsTyped, SetsTyped
<1> QED BY <1>1, CacheInductive, PTL

(* However many changes are made, by whatever walk, and in whichever order
   their answers and those of the fetches arrive, a page at rest shows every
   change of its resource that the user knows to have succeeded (the onSuccess
   of each mutation). *)
THEOREM ViewsCatchUp == Spec => []ViewIsCurrent
<1>1. IInv => ViewIsCurrent
  BY DEF IInv, Catches, DataCatches, Owed, ViewIsCurrent, Settled
<1> QED BY <1>1, CacheInductive, PTL
==============================================================================
