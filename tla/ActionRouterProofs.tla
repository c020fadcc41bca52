------------------------- MODULE ActionRouterProofs -------------------------
(***************************************************************************)
(* What the tables of items, routes and records guarantee for any number   *)
(* of items, variants, proposing runs and review requests.                 *)
(***************************************************************************)
EXTENDS ActionRouter, TLAPS

USE RouterAssumption

Stages == {"reroute", "approve", "apply", "reject", "insert"}

\* A request is about a route that exists, and one that is about to apply
\* found it, or left it, approved.
ReviewOK ==
  \A r \in Reviewers :
    todo[r] # <<>> =>
      /\ at[r] \in RouteIds /\ route[at[r]].status # "none"
      /\ Head(todo[r]) \in {"apply", "insert"} => route[at[r]].status # "pending"

\* An open apply transaction has an approved route for itself, and an id.
LockedOK ==
  /\ \A r \in Reviewers :
       todo[r] = <<"insert">> =>
         /\ route[at[r]].status = "approved"
         /\ route[at[r]].dest # Shelf => newId[r] \in Nat \ {0}
  /\ \A r, q \in Reviewers :
       todo[r] = <<"insert">> /\ todo[q] = <<"insert">> /\ at[r] = at[q] => r = q

\* Unless the route was changed in between, it still goes where the request
\* that approves or applies it saw or chose it to go.
LookOK ==
  \A r \in Reviewers :
    /\ todo[r] # <<>> /\ at[r] \notin crossed
    /\ Head(todo[r]) \in {"approve", "apply", "insert"}
    => route[at[r]].dest = pick[r]

\* Records are those of the applied routes, and theirs alone.
RecordsOK ==
  /\ \A c \in records : route[c.route].status = "applied" /\ route[c.route].dest = c.table
  /\ OneRecordPerRoute

\* Without an overlap at most one proposal is open, and none while synthesis is.
SerialOK ==
  ~overlapped =>
    /\ \A p, q \in Proposers : selected[p] # {} /\ selected[q] # {} => p = q
    /\ synthesizing => \A p \in Proposers : selected[p] = {}

ItemOK ==
  /\ \A i \in Items : item[i].active => item[i].variant \in Variants
  /\ \A x \in RouteIds : route[x].status = "rejected" => item[ItemOf(x)].routing # "unrouted"

SynthesisOK ==
  /\ ~synthesizing => archiving = {}
  /\ ~overlapped => \A i \in archiving : ~HasRoute(i)

\* A selection has one route for an item; its items are still active and
\* without any route when it is committed.
SelectedOK ==
  /\ \A p \in Proposers : \A x, y \in selected[p] : ItemOf(x) = ItemOf(y) => x = y
  /\ ~overlapped =>
       \A p \in Proposers : \A x \in selected[p] :
         /\ item[ItemOf(x)].active
         /\ \A y \in RouteIds : ItemOf(y) = ItemOf(x) => route[y].status = "none"

PayloadOK == ~overlapped => \A x \in RouteIds : route[x].payload = route[x].dest

RouterInv ==
  /\ TypeOK /\ ReviewOK /\ LockedOK /\ LookOK /\ RecordsOK
  /\ SerialOK /\ ItemOK /\ SynthesisOK /\ SelectedOK /\ PayloadOK
  /\ OneRoutePerItem /\ RoutedItemsStay

-----------------------------------------------------------------------------
(* Plans, calls and upserts.                                               *)

\* What is left of a plan after a call is again the end of a plan.
LEMMA PlanFacts ==
  /\ Plans \subseteq Suffixes /\ <<>> \in Suffixes /\ <<"insert">> \in Suffixes
  /\ \A s \in Suffixes : s # <<>> /\ Len(s) # 1 => Tail(s) \in Suffixes /\ Tail(s) # <<>>
  /\ \A s \in Plans : s # <<>> /\ s # <<"insert">>
  /\ \A s \in Suffixes : s # <<>> => Head(s) \in Stages
  /\ Head(<<"insert">>) = "insert" /\ Len(<<"insert">>) = 1 /\ <<"insert">> # <<>>
  /\ \A s \in Suffixes : s # <<>> /\ Head(s) = "insert" => s = <<"insert">>
  /\ \A s \in Suffixes : s # <<>> /\ Head(s) = "apply" => s = <<"apply">>
  /\ \A s \in Suffixes : s # <<>> /\ Head(s) = "reroute" /\ Len(s) # 1 => Head(Tail(s)) = "approve"
  /\ \A s \in Suffixes : s # <<>> /\ Head(s) = "approve" /\ Len(s) # 1 => Head(Tail(s)) = "apply"
  /\ \A s \in Suffixes : s # <<>> /\ Head(s) = "approve" => \E n \in DOMAIN s : s[n] = "approve"
  /\ <<"apply">> # <<>> /\ Head(<<"apply">>) = "apply"
BY DEF Plans, Suffixes, Stages

LEMMA PlansForFacts ==
  ASSUME NEW s, NEW plan \in PlansFor(s)
  PROVE  /\ plan \in Plans /\ s \in {"pending", "approved"}
         /\ Head(plan) = "apply" => s = "approved"
BY DEF PlansFor, Plans

LEMMA AnsweredFacts ==
  ASSUME TypeOK, NEW r \in Reviewers, Answered(r)
  PROVE  /\ todo' \in [Reviewers -> Suffixes] /\ at' \in [Reviewers -> RouteIds \union {NoRoute}]
         /\ pick' \in [Reviewers -> Destinations] /\ newId' \in [Reviewers -> Nat]
         /\ todo'[r] = <<>>
         /\ \A q \in Reviewers \ {r} : /\ todo'[q] = todo[q] /\ at'[q] = at[q]
                                       /\ pick'[q] = pick[q] /\ newId'[q] = newId[q]
BY PlanFacts DEF TypeOK, Answered, Destinations

LEMMA AdvanceFacts ==
  ASSUME TypeOK, NEW r \in Reviewers, todo[r] # <<>>, Advance(r)
  PROVE  /\ todo' \in [Reviewers -> Suffixes] /\ at' \in [Reviewers -> RouteIds \union {NoRoute}]
         /\ pick' \in [Reviewers -> Destinations] /\ newId' \in [Reviewers -> Nat]
         /\ \/ todo'[r] = <<>>
            \/ /\ Len(todo[r]) # 1 /\ todo'[r] = Tail(todo[r])
               /\ at'[r] = at[r] /\ pick'[r] = pick[r] /\ newId'[r] = newId[r]
         /\ \A q \in Reviewers \ {r} : /\ todo'[q] = todo[q] /\ at'[q] = at[q]
                                       /\ pick'[q] = pick[q] /\ newId'[q] = newId[q]
<1>1. CASE Len(todo[r]) = 1
  BY <1>1, AnsweredFacts DEF Advance
<1>2. CASE Len(todo[r]) # 1
  <2>1. todo[r] \in Suffixes /\ Tail(todo[r]) \in Suffixes
    BY <1>2, PlanFacts DEF TypeOK
  <2>2. todo' = [todo EXCEPT ![r] = Tail(todo[r])] /\ UNCHANGED <<at, pick, newId>>
    BY <1>2 DEF Advance
  <2>3. todo' \in [Reviewers -> Suffixes] /\ todo'[r] = Tail(todo[r])
    BY <2>1, <2>2 DEF TypeOK
  <2>4. \A q \in Reviewers \ {r} : todo'[q] = todo[q]
    BY <2>2 DEF TypeOK
  <2> QED BY <1>2, <2>2, <2>3, <2>4 DEF TypeOK
<1> QED BY <1>1, <1>2

\* What is left after a reroute starts with an approval, and after that with
\* an apply.
LEMMA AdvanceHead ==
  ASSUME TypeOK, NEW r \in Reviewers, todo[r] # <<>>, Advance(r), todo'[r] # <<>>
  PROVE  /\ todo'[r] \in Suffixes /\ at'[r] = at[r] /\ pick'[r] = pick[r]
         /\ Head(todo[r]) = "reroute" => Head(todo'[r]) = "approve"
         /\ Head(todo[r]) = "approve" => Head(todo'[r]) = "apply"
<1>1. /\ Len(todo[r]) # 1 /\ todo'[r] = Tail(todo[r])
      /\ at'[r] = at[r] /\ pick'[r] = pick[r] /\ todo' \in [Reviewers -> Suffixes]
  BY AdvanceFacts
<1>2. todo[r] \in Suffixes
  BY DEF TypeOK
<1>3. /\ Head(todo[r]) = "reroute" => Head(Tail(todo[r])) = "approve"
      /\ Head(todo[r]) = "approve" => Head(Tail(todo[r])) = "apply"
  BY <1>1, <1>2, PlanFacts
<1>4. todo'[r] \in Suffixes
  BY <1>1
<1> QED BY <1>1, <1>3, <1>4

LEMMA UpsertFacts ==
  ASSUME TypeOK, NEW x \in RouteIds
  PROVE  /\ Upsert(x) \in [status : Statuses, dest : Destinations, payload : Destinations]
         /\ Proposed(x) \in [status : Statuses, dest : Destinations, payload : Destinations]
         /\ route[x].status = "none" => Upsert(x) = Proposed(x)
         /\ route[x].status # "none" =>
              Upsert(x).status = route[x].status /\ Upsert(x).dest = route[x].dest
         /\ route[x].status \notin {"none", "pending"} => Upsert(x) = route[x]
         /\ Proposed(x).status = "pending" /\ Proposed(x).dest = Proposed(x).payload
<1>1. Dest[x[2]] \in Destinations
  BY DEF RouteIds
<1>2. route[x] \in [status : Statuses, dest : Destinations, payload : Destinations]
  BY DEF TypeOK
<1>3. Proposed(x) \in [status : Statuses, dest : Destinations, payload : Destinations]
  BY <1>1 DEF Proposed, Statuses
<1> QED BY <1>1, <1>2, <1>3 DEF Upsert, Proposed

-----------------------------------------------------------------------------
(* Types.                                                                  *)

LEMMA InitRouterInv == Init => RouterInv
<1> SUFFICES ASSUME Init
             PROVE  RouterInv
  OBVIOUS
<1> USE DEF Init
<1>1. TypeOK
  BY PlanFacts DEF TypeOK, Routings, Statuses, Destinations, Refreshes, NoRefresh, Shelf
<1>2. ReviewOK /\ LockedOK /\ LookOK
  BY PlanFacts DEF ReviewOK, LockedOK, LookOK
<1>3. RecordsOK
  BY DEF RecordsOK, OneRecordPerRoute
<1>4. SerialOK /\ ItemOK /\ SynthesisOK /\ SelectedOK /\ PayloadOK
  BY DEF SerialOK, ItemOK, SynthesisOK, SelectedOK, PayloadOK, ItemOf, RouteIds
<1>5. OneRoutePerItem /\ RoutedItemsStay
  BY DEF OneRoutePerItem, RoutedItemsStay, Guarded
<1> QED BY <1>1, <1>2, <1>3, <1>4, <1>5 DEF RouterInv

LEMMA ItemIsTyped ==
  ASSUME NEW x \in RouteIds
  PROVE  ItemOf(x) \in Items
BY DEF RouteIds, ItemOf

LEMMA RoutedIsTyped ==
  ASSUME TypeOK, NEW i \in Items, NEW how \in Routings, Routed(i, how)
  PROVE  item' \in [Items -> [variant : Variants \union {NoVariant}, active : BOOLEAN,
                             routing : Routings]]
<1> DEFINE Row == [variant : Variants \union {NoVariant}, active : BOOLEAN, routing : Routings]
<1>1. item \in [Items -> Row]
  BY DEF TypeOK
<1>2. [item[i] EXCEPT !.routing = how] \in Row
  BY <1>1
<1>3. item' = [item EXCEPT ![i].routing = how]
  BY DEF Routed
<1> HIDE DEF Row
<1>4. item' \in [Items -> Row]
  BY <1>1, <1>2, <1>3
<1> QED BY <1>4 DEF Row

\* Every variable keeps its type.
LEMMA TypeStep ==
  ASSUME TypeOK, ReviewOK, LockedOK, ItemOK, [Next]_vars
  PROVE  TypeOK'
<1>1. CASE Synthesis
  <2>1. ASSUME NEW found \in Refreshes, SynthesisArchive(found) PROVE TypeOK'
    BY <2>1 DEF SynthesisArchive, Overlaps, TypeOK, reviewVars
  <2>2. CASE SynthesisCommit
    <3>1. item' \in [Items -> [variant : Variants \union {NoVariant}, active : BOOLEAN,
                               routing : Routings]]
      <4>1. \A i \in Items :
              /\ refresh[i] # NoVariant => refresh[i] \in Variants
              /\ item[i] \in [variant : Variants \union {NoVariant}, active : BOOLEAN,
                              routing : Routings]
        BY DEF TypeOK, Refreshes
      <4>2. \A i \in Items :
              item'[i] \in [variant : Variants \union {NoVariant}, active : BOOLEAN,
                            routing : Routings]
        BY <2>2, <4>1 DEF SynthesisCommit
      <4>3. item' = [i \in Items |-> item'[i]]
        BY <2>2 DEF SynthesisCommit
      <4> QED BY <4>2, <4>3
    <3> QED BY <2>2, <3>1 DEF SynthesisCommit, SynthesisEnds, TypeOK, reviewVars, Refreshes, NoRefresh
  <2>3. CASE SynthesisFails
    BY <2>3 DEF SynthesisFails, SynthesisEnds, TypeOK, reviewVars, Refreshes, NoRefresh
  <2> QED BY <1>1, <2>1, <2>2, <2>3 DEF Synthesis
<1>2. ASSUME NEW p \in Proposers, Propose(p) PROVE TypeOK'
  <2>1. CASE ProposeSelect(p)
    <3>1. PICK I \in SUBSET {i \in Items : Selectable(i)} :
            selected' = [selected EXCEPT ![p] = {<<i, item[i].variant>> : i \in I}]
      BY <2>1 DEF ProposeSelect
    <3>2. {<<i, item[i].variant>> : i \in I} \subseteq RouteIds
      BY <3>1 DEF ItemOK, Selectable, RouteIds
    <3> QED BY <2>1, <3>1, <3>2 DEF ProposeSelect, Overlaps, TypeOK, itemVars, reviewVars
  <2>2. CASE ProposeCommit(p)
    <3>1. route' \in [RouteIds -> [status : Statuses, dest : Destinations, payload : Destinations]]
      BY <2>2, UpsertFacts DEF ProposeCommit, TypeOK
    <3> QED BY <2>2, <3>1 DEF ProposeCommit, TypeOK, itemVars, reviewVars
  <2>3. CASE ProposeFails(p)
    BY <2>3 DEF ProposeFails, TypeOK, itemVars, reviewVars
  <2> QED BY <1>2, <2>1, <2>2, <2>3 DEF Propose
<1>3. ASSUME NEW r \in Reviewers, Refused(r) \/ ApplyCollides(r) \/ ReviewFails(r) PROVE TypeOK'
  BY <1>3, AnsweredFacts DEF Refused, ApplyCollides, ReviewFails, TypeOK, itemVars
<1>4. ASSUME NEW r \in Reviewers, Reroute(r) \/ Approve(r) PROVE TypeOK'
  <2>1. todo[r] # <<>> /\ Advance(r) /\ UNCHANGED <<itemVars, records, selected, overlapped>>
    BY <1>4 DEF Reroute, Approve, Calls
  <2>2. at[r] \in RouteIds /\ pick[r] \in Destinations
    BY <2>1 DEF ReviewOK, TypeOK
  <2>3. route' \in [RouteIds -> [status : Statuses, dest : Destinations, payload : Destinations]]
    BY <1>4, <2>2 DEF Reroute, Approve, TypeOK, Statuses
  <2>4. crossed' \subseteq RouteIds
    BY <1>4, <2>2 DEF Reroute, Approve, TypeOK
  <2> QED BY <2>1, <2>3, <2>4, AdvanceFacts DEF TypeOK, itemVars
<1>5. ASSUME NEW r \in Reviewers, Reject(r) PROVE TypeOK'
  <2>1. at[r] \in RouteIds
    BY <1>5 DEF Reject, Calls, ReviewOK
  <2>2. route' \in [RouteIds -> [status : Statuses, dest : Destinations, payload : Destinations]]
    BY <1>5, <2>1 DEF Reject, TypeOK, Statuses
  <2>3. item' \in [Items -> [variant : Variants \union {NoVariant}, active : BOOLEAN,
                             routing : Routings]]
    <3>1. Routed(ItemOf(at[r]), "ignored") /\ "ignored" \in Routings
      BY <1>5 DEF Reject, Routings
    <3> QED BY <2>1, <3>1, ItemIsTyped, RoutedIsTyped
  <2> QED BY <1>5, <2>2, <2>3, AnsweredFacts DEF Reject, TypeOK
<1>6. ASSUME NEW r \in Reviewers, ApplyLock(r) PROVE TypeOK'
  <2>1. newId' \in [Reviewers -> Nat]
    <3>1. PICK n \in IF route[at[r]].dest = Shelf THEN {0} ELSE NextIds(route[at[r]].dest) :
            newId' = [newId EXCEPT ![r] = n]
      BY <1>6 DEF ApplyLock
    <3>2. n \in Nat
      BY <3>1 DEF NextIds, IdsOf, TypeOK
    <3> QED BY <3>1, <3>2 DEF TypeOK
  <2> QED BY <1>6, <2>1, PlanFacts DEF ApplyLock, TypeOK, itemVars
<1>7. ASSUME NEW r \in Reviewers, ApplyCommit(r) PROVE TypeOK'
  <2>1. at[r] \in RouteIds
    BY <1>7, PlanFacts DEF ApplyCommit, ReviewOK
  <2>2. route' \in [RouteIds -> [status : Statuses, dest : Destinations, payload : Destinations]]
    BY <1>7, <2>1 DEF ApplyCommit, TypeOK, Statuses
  <2>3. item' \in [Items -> [variant : Variants \union {NoVariant}, active : BOOLEAN,
                             routing : Routings]]
    <3>1. PICK how \in Routings : Routed(ItemOf(at[r]), how)
      BY <1>7 DEF ApplyCommit, Outcomes, Routings
    <3> QED BY <2>1, <3>1, ItemIsTyped, RoutedIsTyped
  <2>4. records' \subseteq [table : Tables, id : Nat \ {0}, route : RouteIds]
    <3>1. CASE route[at[r]].dest = Shelf
      BY <1>7, <3>1 DEF ApplyCommit, TypeOK
    <3>2. CASE route[at[r]].dest # Shelf
      <4>1. route[at[r]].dest \in Tables /\ newId[r] \in Nat \ {0}
        BY <1>7, <2>1, <3>2 DEF ApplyCommit, LockedOK, TypeOK, Destinations
      <4> QED BY <1>7, <2>1, <3>2, <4>1 DEF ApplyCommit, TypeOK
    <3> QED BY <3>1, <3>2
  <2> QED BY <1>7, <2>2, <2>3, <2>4, AnsweredFacts DEF ApplyCommit, TypeOK
<1>8. ASSUME NEW r \in Reviewers, NEW x \in RouteIds, ReviewRead(r, x) PROVE TypeOK'
  <2>1. route[x].dest \in Destinations
    BY <1>8 DEF TypeOK
  <2>2. PICK plan \in PlansFor(route[x].status) :
          /\ todo' = [todo EXCEPT ![r] = plan]
          /\ \E d \in IF Head(plan) = "reroute" THEN Destinations ELSE {route[x].dest} :
               pick' = [pick EXCEPT ![r] = d]
    BY <1>8 DEF ReviewRead
  <2>3. plan \in Suffixes
    BY <2>2, PlansForFacts, PlanFacts
  <2>4. pick' \in [Reviewers -> Destinations]
    BY <2>1, <2>2 DEF TypeOK
  <2> QED BY <1>8, <2>2, <2>3, <2>4 DEF ReviewRead, TypeOK, itemVars
<1>9. CASE UNCHANGED vars
  BY <1>9 DEF vars, itemVars, reviewVars, TypeOK
<1> QED
  BY <1>1, <1>2, <1>3, <1>4, <1>5, <1>6, <1>7, <1>8, <1>9 DEF Next, ReviewStep

-----------------------------------------------------------------------------
(* Reviews.                                                                *)

ReviewInv == TypeOK /\ ReviewOK /\ LockedOK /\ LookOK

\* Steps that leave routes and requests alone.
Elsewhere ==
  \/ Synthesis
  \/ \E p \in Proposers : ProposeSelect(p) \/ ProposeFails(p)
  \/ UNCHANGED vars

LEMMA ElsewhereFacts ==
  ASSUME Elsewhere
  PROVE  UNCHANGED <<route, records, todo, at, pick, newId, crossed>>
BY DEF Elsewhere, Synthesis, SynthesisArchive, SynthesisCommit, SynthesisFails, ProposeSelect,
       ProposeFails, vars, reviewVars

\* A request that ends, for whatever reason, leaves the others as they were.
LEMMA ReviewEnds ==
  ASSUME ReviewInv, NEW r \in Reviewers, Answered(r),
         \A q \in Reviewers \ {r} : todo[q] # <<>> => route'[at[q]] = route[at[q]],
         crossed' = crossed
  PROVE  ReviewOK' /\ LockedOK' /\ LookOK'
<1>1. /\ todo'[r] = <<>>
      /\ \A q \in Reviewers \ {r} : /\ todo'[q] = todo[q] /\ at'[q] = at[q]
                                    /\ pick'[q] = pick[q] /\ newId'[q] = newId[q]
  BY AnsweredFacts DEF ReviewInv
<1>2. ReviewOK'
  BY <1>1 DEF ReviewInv, ReviewOK
<1>3. LockedOK'
  BY <1>1, PlanFacts DEF ReviewInv, LockedOK
<1>4. LookOK'
  BY <1>1 DEF ReviewInv, LookOK
<1> QED BY <1>2, <1>3, <1>4

LEMMA ProposeCommitReviews ==
  ASSUME ReviewInv, NEW p \in Proposers, ProposeCommit(p)
  PROVE  ReviewOK' /\ LockedOK' /\ LookOK'
<1>1. /\ UNCHANGED <<todo, at, pick, newId>>
      /\ crossed \subseteq crossed'
      /\ \A x \in RouteIds : route'[x] = route[x] \/ (route'[x] = Upsert(x) /\ ~ Locked(x))
  BY DEF ProposeCommit, reviewVars
<1>2. \A x \in RouteIds : route[x].status # "none" =>
        route'[x].status = route[x].status /\ route'[x].dest = route[x].dest
  BY <1>1, UpsertFacts DEF ReviewInv
<1>3. ReviewOK'
  BY <1>1, <1>2 DEF ReviewInv, ReviewOK
<1>4. LockedOK'
  <2>1. \A r \in Reviewers : todo[r] = <<"insert">> =>
          at[r] \in RouteIds /\ route'[at[r]] = route[at[r]]
    BY <1>1, PlanFacts DEF Locked, ReviewInv, ReviewOK
  <2> QED BY <1>1, <2>1 DEF ReviewInv, LockedOK
<1>5. LookOK'
  BY <1>1, <1>2 DEF ReviewInv, ReviewOK, LookOK
<1> QED BY <1>3, <1>4, <1>5

\* A reroute changes a pending route under everybody who has yet to approve it.
LEMMA RerouteReviews ==
  ASSUME ReviewInv, NEW r \in Reviewers, Reroute(r)
  PROVE  ReviewOK' /\ LockedOK' /\ LookOK'
<1> DEFINE x == at[r]
<1>1. /\ todo[r] # <<>> /\ Head(todo[r]) = "reroute" /\ ~ Locked(x) /\ Advance(r)
      /\ route[x].status = "pending"
      /\ route' = [route EXCEPT ![x].dest = pick[r], ![x].payload = pick[r]]
      /\ crossed' = IF Looking(x) \ {r} = {} THEN crossed ELSE crossed \union {x}
  BY DEF Reroute, Calls
<1>2. x \in RouteIds
  BY <1>1 DEF ReviewInv, ReviewOK
<1>3. /\ route'[x].dest = pick[r] /\ route'[x].status = "pending"
      /\ \A y \in RouteIds \ {x} : route'[y] = route[y]
  BY <1>1, <1>2 DEF ReviewInv, TypeOK
<1>4. /\ todo'[r] # <<>> => /\ at'[r] = x /\ pick'[r] = pick[r]
                            /\ todo'[r] \in Suffixes /\ Head(todo'[r]) = "approve"
      /\ \A q \in Reviewers \ {r} : /\ todo'[q] = todo[q] /\ at'[q] = at[q]
                                    /\ pick'[q] = pick[q] /\ newId'[q] = newId[q]
  <2>1. TypeOK
    BY DEF ReviewInv
  <2>2. todo'[r] # <<>> => /\ at'[r] = x /\ pick'[r] = pick[r]
                           /\ todo'[r] \in Suffixes /\ Head(todo'[r]) = "approve"
    BY <1>1, <2>1, AdvanceHead
  <2>3. \A q \in Reviewers \ {r} : /\ todo'[q] = todo[q] /\ at'[q] = at[q]
                                    /\ pick'[q] = pick[q] /\ newId'[q] = newId[q]
    BY <1>1, <2>1, AdvanceFacts
  <2> QED BY <2>2, <2>3
<1>5. ReviewOK'
  <2>1. \A q \in Reviewers : todo'[q] # <<>> =>
          /\ at'[q] = at[q] /\ at[q] \in RouteIds /\ route[at[q]].status # "none"
          /\ q # r => todo'[q] = todo[q]
    BY <1>1, <1>4 DEF ReviewInv, ReviewOK
  <2>2. \A q \in Reviewers : todo'[q] # <<>> => route'[at[q]].status # "none"
    BY <1>3, <2>1
  <2>3. ASSUME NEW q \in Reviewers, todo'[q] # <<>>, Head(todo'[q]) \in {"apply", "insert"}
        PROVE  route'[at[q]].status # "pending"
    <3>1. q # r /\ todo[q] = todo'[q] /\ at[q] \in RouteIds
      BY <1>4, <2>1, <2>3
    <3>2. route[at[q]].status # "pending"
      BY <2>3, <3>1 DEF ReviewInv, ReviewOK
    <3> QED BY <1>1, <1>3, <3>1, <3>2
  <2> QED BY <2>1, <2>2, <2>3 DEF ReviewOK
<1>6. LockedOK'
  <2>1. todo'[r] # <<"insert">>
    BY <1>4, PlanFacts
  <2>2. \A q \in Reviewers : todo[q] = <<"insert">> => at[q] \in RouteIds \ {x}
    BY <1>1, PlanFacts DEF Locked, ReviewInv, ReviewOK
  <2> QED BY <1>3, <1>4, <2>1, <2>2 DEF ReviewInv, LockedOK
<1>7. LookOK'
  <2>1. ASSUME NEW q \in Reviewers \ {r}, todo[q] # <<>>, at[q] = x, x \notin crossed',
               Head(todo[q]) \in {"approve", "apply", "insert"}
        PROVE  FALSE
    <3>1. Head(todo[q]) = "approve"
      BY <1>1, <2>1 DEF ReviewInv, ReviewOK
    <3>2. q \in Looking(x)
      BY <2>1, <3>1, PlanFacts DEF Looking, ReviewInv, TypeOK
    <3> QED BY <1>1, <2>1, <3>2
  <2>2. \A q \in Reviewers : todo[q] # <<>> => at[q] \in RouteIds
    BY DEF ReviewInv, ReviewOK
  <2>3. crossed \subseteq crossed'
    BY <1>1
  <2> QED BY <1>3, <1>4, <2>1, <2>2, <2>3 DEF ReviewInv, LookOK
<1> QED BY <1>5, <1>6, <1>7

LEMMA ApproveReviews ==
  ASSUME ReviewInv, NEW r \in Reviewers, Approve(r)
  PROVE  ReviewOK' /\ LockedOK' /\ LookOK'
<1> DEFINE x == at[r]
<1>1. /\ todo[r] # <<>> /\ Head(todo[r]) = "approve" /\ ~ Locked(x) /\ Advance(r)
      /\ route[x].status = "pending" /\ crossed' = crossed
      /\ route' = [route EXCEPT ![x].status = "approved"]
  BY DEF Approve, Calls
<1>2. x \in RouteIds
  BY <1>1 DEF ReviewInv, ReviewOK
<1>3. /\ route'[x].dest = route[x].dest /\ route'[x].status = "approved"
      /\ \A y \in RouteIds \ {x} : route'[y] = route[y]
  BY <1>1, <1>2 DEF ReviewInv, TypeOK
<1>4. /\ todo'[r] # <<>> => /\ at'[r] = x /\ pick'[r] = pick[r]
                            /\ todo'[r] \in Suffixes /\ Head(todo'[r]) = "apply"
      /\ \A q \in Reviewers \ {r} : /\ todo'[q] = todo[q] /\ at'[q] = at[q]
                                    /\ pick'[q] = pick[q] /\ newId'[q] = newId[q]
  <2>1. TypeOK
    BY DEF ReviewInv
  <2>2. todo'[r] # <<>> => /\ at'[r] = x /\ pick'[r] = pick[r]
                           /\ todo'[r] \in Suffixes /\ Head(todo'[r]) = "apply"
    BY <1>1, <2>1, AdvanceHead
  <2>3. \A q \in Reviewers \ {r} : /\ todo'[q] = todo[q] /\ at'[q] = at[q]
                                    /\ pick'[q] = pick[q] /\ newId'[q] = newId[q]
    BY <1>1, <2>1, AdvanceFacts
  <2> QED BY <2>2, <2>3
<1>5. ReviewOK'
  <2>1. \A q \in Reviewers : todo'[q] # <<>> =>
          /\ at'[q] = at[q] /\ at[q] \in RouteIds /\ route[at[q]].status # "none"
          /\ q # r => todo'[q] = todo[q]
    BY <1>1, <1>4 DEF ReviewInv, ReviewOK
  <2>2. \A q \in Reviewers : todo'[q] # <<>> => route'[at[q]].status # "none"
    BY <1>3, <2>1
  <2>3. ASSUME NEW q \in Reviewers, todo'[q] # <<>>, Head(todo'[q]) \in {"apply", "insert"}
        PROVE  route'[at[q]].status # "pending"
    BY <1>1, <1>3, <1>4, <2>1, <2>3 DEF ReviewInv, ReviewOK
  <2> QED BY <2>1, <2>2, <2>3 DEF ReviewOK
<1>6. LockedOK'
  <2>1. todo'[r] # <<"insert">>
    BY <1>4, PlanFacts
  <2>2. \A q \in Reviewers : todo[q] = <<"insert">> => at[q] \in RouteIds \ {x}
    BY <1>1, PlanFacts DEF Locked, ReviewInv, ReviewOK
  <2> QED BY <1>3, <1>4, <2>1, <2>2 DEF ReviewInv, LockedOK
<1>7. LookOK'
  <2>1. \A q \in Reviewers : todo[q] # <<>> => at[q] \in RouteIds
    BY DEF ReviewInv, ReviewOK
  <2> QED BY <1>1, <1>3, <1>4, <2>1 DEF ReviewInv, LookOK
<1> QED BY <1>5, <1>6, <1>7

LEMMA ApplyLockReviews ==
  ASSUME ReviewInv, NEW r \in Reviewers, ApplyLock(r)
  PROVE  ReviewOK' /\ LockedOK' /\ LookOK'
<1>1. /\ todo[r] # <<>> /\ Head(todo[r]) = "apply" /\ ~ Locked(at[r])
      /\ route[at[r]].status = "approved"
      /\ todo' = [todo EXCEPT ![r] = <<"insert">>]
      /\ UNCHANGED <<route, at, pick, crossed>>
  BY DEF ApplyLock, Calls
<1>2. PICK n \in IF route[at[r]].dest = Shelf THEN {0} ELSE NextIds(route[at[r]].dest) :
        newId' = [newId EXCEPT ![r] = n]
  BY DEF ApplyLock
<1>3. route[at[r]].dest # Shelf => n \in Nat \ {0}
  BY <1>2 DEF NextIds, IdsOf, ReviewInv, TypeOK
<1>4. /\ todo'[r] = <<"insert">> /\ newId'[r] = n
      /\ \A q \in Reviewers \ {r} : todo'[q] = todo[q] /\ newId'[q] = newId[q]
  BY <1>1, <1>2 DEF ReviewInv, TypeOK
<1>5. ReviewOK'
  BY <1>1, <1>4, PlanFacts DEF ReviewInv, ReviewOK
<1>6. LockedOK'
  BY <1>1, <1>3, <1>4 DEF ReviewInv, LockedOK, Locked
<1>7. LookOK'
  BY <1>1, <1>4, PlanFacts DEF ReviewInv, LookOK
<1> QED BY <1>5, <1>6, <1>7

LEMMA ReadReviews ==
  ASSUME ReviewInv, NEW r \in Reviewers, NEW x \in RouteIds, ReviewRead(r, x)
  PROVE  ReviewOK' /\ LockedOK' /\ LookOK'
<1>1. PICK plan \in PlansFor(route[x].status) :
        /\ todo' = [todo EXCEPT ![r] = plan]
        /\ \E d \in IF Head(plan) = "reroute" THEN Destinations ELSE {route[x].dest} :
             pick' = [pick EXCEPT ![r] = d]
  BY DEF ReviewRead
<1>2. at' = [at EXCEPT ![r] = x] /\ UNCHANGED <<route, newId, crossed>>
  BY DEF ReviewRead
<1>3. /\ plan \in Plans /\ route[x].status \in {"pending", "approved"}
      /\ Head(plan) = "apply" => route[x].status = "approved"
      /\ plan # <<"insert">> /\ Head(plan) # "insert"
  BY <1>1, PlansForFacts, PlanFacts
<1>4. /\ todo'[r] = plan /\ at'[r] = x
      /\ Head(plan) # "reroute" => pick'[r] = route[x].dest
      /\ \A q \in Reviewers \ {r} : todo'[q] = todo[q] /\ at'[q] = at[q] /\ pick'[q] = pick[q]
  BY <1>1, <1>2 DEF ReviewInv, TypeOK
<1>5. ReviewOK'
  BY <1>2, <1>3, <1>4 DEF ReviewInv, ReviewOK
<1>6. LockedOK'
  BY <1>2, <1>3, <1>4 DEF ReviewInv, LockedOK
<1>7. LookOK'
  BY <1>2, <1>3, <1>4 DEF ReviewInv, LookOK
<1> QED BY <1>5, <1>6, <1>7

LEMMA ReviewsStep ==
  ASSUME ReviewInv, [Next]_vars
  PROVE  ReviewOK' /\ LockedOK' /\ LookOK'
<1>1. CASE Elsewhere
  BY <1>1, ElsewhereFacts DEF ReviewInv, ReviewOK, LockedOK, LookOK
<1>2. ASSUME NEW r \in Reviewers, Refused(r) \/ ApplyCollides(r) \/ ReviewFails(r)
      PROVE ReviewOK' /\ LockedOK' /\ LookOK'
  BY <1>2, ReviewEnds DEF Refused, ApplyCollides, ReviewFails
<1>3. ASSUME NEW r \in Reviewers, Reject(r) \/ ApplyCommit(r)
      PROVE ReviewOK' /\ LockedOK' /\ LookOK'
  <2> DEFINE x == at[r]
  <2>1. x \in RouteIds /\ todo[r] # <<>>
    BY <1>3, PlanFacts DEF Reject, ApplyCommit, Calls, ReviewInv, ReviewOK
  <2>2. PICK how \in {"rejected", "applied"} : route' = [route EXCEPT ![x].status = how]
    BY <1>3 DEF Reject, ApplyCommit
  <2>3. /\ route'[x].dest = route[x].dest /\ route'[x].status \in {"rejected", "applied"}
        /\ \A y \in RouteIds \ {x} : route'[y] = route[y]
    BY <2>1, <2>2 DEF ReviewInv, TypeOK
  <2>4. /\ todo'[r] = <<>> /\ crossed' = crossed
        /\ \A q \in Reviewers \ {r} : /\ todo'[q] = todo[q] /\ at'[q] = at[q]
                                      /\ pick'[q] = pick[q] /\ newId'[q] = newId[q]
    BY <1>3, AnsweredFacts DEF Reject, ApplyCommit, ReviewInv
  <2>5. \A q \in Reviewers \ {r} : todo[q] # <<>> => at[q] \in RouteIds
    BY DEF ReviewInv, ReviewOK
  <2>6. \A q \in Reviewers \ {r} : todo[q] = <<"insert">> => at[q] # x
    BY <1>3 DEF Reject, Calls, Locked, ApplyCommit, ReviewInv, LockedOK
  <2>7. ReviewOK'
    BY <2>3, <2>4, <2>5 DEF ReviewInv, ReviewOK
  <2>8. LockedOK'
    BY <2>3, <2>4, <2>5, <2>6, PlanFacts DEF ReviewInv, LockedOK
  <2>9. LookOK'
    BY <2>3, <2>4, <2>5 DEF ReviewInv, LookOK
  <2> QED BY <2>7, <2>8, <2>9
<1> QED
  BY <1>1, <1>2, <1>3, ProposeCommitReviews, RerouteReviews, ApproveReviews, ApplyLockReviews,
     ReadReviews
  DEF Next, Propose, ReviewStep, Elsewhere
-----------------------------------------------------------------------------
(* What a step does to a route, to an item, and to the selections.         *)

SameBut(x, s) ==
  route'[x].status = s /\ route'[x].dest = route[x].dest /\ route'[x].payload = route[x].payload

RouteChange(x) ==
  \/ route'[x] = route[x]
  \/ \E p \in Proposers : ProposeCommit(p) /\ x \in selected[p] /\ route'[x] = Upsert(x)
  \/ /\ route[x].status = "pending" /\ route'[x].status = "pending"
     /\ route'[x].payload = route'[x].dest
  \/ route[x].status = "pending" /\ SameBut(x, "approved")
  \/ /\ route[x].status \in {"pending", "approved"} /\ SameBut(x, "rejected")
     /\ \E r \in Reviewers : Reject(r) /\ at[r] = x
  \/ /\ route[x].status = "approved" /\ SameBut(x, "applied")
     /\ \E r \in Reviewers : ApplyCommit(r) /\ at[r] = x

LEMMA RouteStep ==
  ASSUME ReviewInv, [Next]_vars, NEW x \in RouteIds
  PROVE  RouteChange(x)
<1>1. CASE Elsewhere
  BY <1>1, ElsewhereFacts DEF RouteChange
<1>2. ASSUME NEW p \in Proposers, ProposeCommit(p) PROVE RouteChange(x)
  BY <1>2 DEF RouteChange, ProposeCommit
<1>3. ASSUME NEW r \in Reviewers,
             Refused(r) \/ ApplyCollides(r) \/ ReviewFails(r) \/ ApplyLock(r)
               \/ \E y \in RouteIds : ReviewRead(r, y)
      PROVE RouteChange(x)
  BY <1>3 DEF RouteChange, Refused, ApplyCollides, ReviewFails, ApplyLock, ReviewRead
<1>4. ASSUME NEW r \in Reviewers, Reroute(r) PROVE RouteChange(x)
  <2>1. /\ at[r] \in RouteIds /\ route[at[r]].status = "pending"
        /\ route' = [route EXCEPT ![at[r]].dest = pick[r], ![at[r]].payload = pick[r]]
    BY <1>4 DEF Reroute, Calls, ReviewInv, ReviewOK
  <2>2. CASE x = at[r]
    <3>1. route[x] \in [status : Statuses, dest : Destinations, payload : Destinations]
      BY DEF ReviewInv, TypeOK
    <3>2. route'[x].status = route[x].status /\ route'[x].dest = pick[r]
      BY <2>1, <2>2, <3>1 DEF ReviewInv, TypeOK
    <3>3. route'[x].payload = pick[r]
      BY <2>1, <2>2, <3>1 DEF ReviewInv, TypeOK
    <3> QED BY <2>1, <2>2, <3>2, <3>3 DEF RouteChange
  <2>3. CASE x # at[r]
    BY <2>1, <2>3 DEF RouteChange, ReviewInv, TypeOK
  <2> QED BY <2>2, <2>3
<1>5. ASSUME NEW r \in Reviewers, Approve(r) \/ Reject(r) \/ ApplyCommit(r) PROVE RouteChange(x)
  <2>1. /\ at[r] \in RouteIds
        /\ \E s : /\ route' = [route EXCEPT ![at[r]].status = s]
                  /\ \/ s = "approved" /\ route[at[r]].status = "pending"
                     \/ s = "rejected" /\ route[at[r]].status \in {"pending", "approved"} /\ Reject(r)
                     \/ s = "applied" /\ route[at[r]].status = "approved" /\ ApplyCommit(r)
    BY <1>5, PlanFacts DEF Approve, Reject, ApplyCommit, Calls, ReviewInv, ReviewOK, LockedOK
  <2>2. PICK s : /\ route' = [route EXCEPT ![at[r]].status = s]
                 /\ \/ s = "approved" /\ route[at[r]].status = "pending"
                    \/ s = "rejected" /\ route[at[r]].status \in {"pending", "approved"} /\ Reject(r)
                    \/ s = "applied" /\ route[at[r]].status = "approved" /\ ApplyCommit(r)
    BY <2>1
  <2>3. CASE x = at[r]
    <3>1. SameBut(x, s)
      BY <2>1, <2>2, <2>3 DEF SameBut, ReviewInv, TypeOK
    <3> QED BY <2>2, <2>3, <3>1 DEF RouteChange
  <2>4. CASE x # at[r]
    BY <2>2, <2>4 DEF RouteChange, ReviewInv, TypeOK
  <2> QED BY <2>3, <2>4
<1> QED
  BY <1>1, <1>2, <1>3, <1>4, <1>5 DEF Next, Propose, ReviewStep, Elsewhere

\* A route that was answered stays as it is, and only its own request applies it.
LEMMA SettledStep ==
  ASSUME ReviewInv, [Next]_vars, NEW x \in RouteIds
  PROVE  /\ route[x].status \in {"rejected", "applied"} => route'[x] = route[x]
         /\ route[x].status # "applied" /\ route'[x].status = "applied" =>
              \E r \in Reviewers : ApplyCommit(r) /\ at[r] = x /\ SameBut(x, "applied")
<1>1. RouteChange(x)
  BY RouteStep
<1>2. /\ route[x].status \notin {"none", "pending"} => Upsert(x) = route[x]
      /\ Upsert(x).status # "applied" \/ Upsert(x) = route[x]
  <2>1. TypeOK
    BY DEF ReviewInv
  <2> QED BY <2>1, UpsertFacts
<1> QED BY <1>1, <1>2 DEF RouteChange, SameBut

-----------------------------------------------------------------------------
(* Records.                                                                *)

LEMMA RecordsKept ==
  ASSUME TypeOK, RecordsOK, records' = records,
         \A x \in RouteIds : route[x].status = "applied" => route'[x] = route[x],
         \A x \in RouteIds :
           route'[x].status = "applied" =>
             /\ route'[x].dest = route[x].dest
             /\ route[x].status = "applied" \/ route[x].dest = Shelf
  PROVE  RecordsOK'
<1>1. \A c \in records : c.route \in RouteIds /\ c.table # Shelf
  BY DEF TypeOK
<1>2. \A c \in records' : route'[c.route].status = "applied" /\ route'[c.route].dest = c.table
  BY <1>1 DEF RecordsOK
<1>3. \A c, e \in records' : (c.table = e.table /\ c.id = e.id) \/ c.route = e.route => c = e
  BY DEF RecordsOK, OneRecordPerRoute
<1>4. ASSUME NEW x \in RouteIds
      PROVE  route'[x].status = "applied" /\ route'[x].dest # Shelf
               <=> \E c \in records' : c.route = x /\ c.table = route'[x].dest
  <2>1. CASE route'[x].status = "applied" /\ route'[x].dest # Shelf
    BY <2>1 DEF RecordsOK, OneRecordPerRoute
  <2>2. CASE ~ (route'[x].status = "applied" /\ route'[x].dest # Shelf)
    BY <1>1, <1>2, <2>2
  <2> QED BY <2>1, <2>2
<1> QED BY <1>2, <1>3, <1>4 DEF RecordsOK, OneRecordPerRoute

LEMMA RecordAdded ==
  ASSUME ReviewInv, RecordsOK, NEW r \in Reviewers, ApplyCommit(r), route[at[r]].dest # Shelf
  PROVE  RecordsOK'
<1> DEFINE x == at[r]
<1> DEFINE new == [table |-> route[x].dest, id |-> newId[r], route |-> x]
<1>1. /\ x \in RouteIds /\ route[x].status = "approved"
      /\ route' = [route EXCEPT ![x].status = "applied"]
      /\ records' = records \union {new} /\ ~ Taken(route[x].dest, newId[r])
  BY PlanFacts DEF ApplyCommit, ReviewInv, ReviewOK, LockedOK
<1>2. /\ route'[x].status = "applied" /\ route'[x].dest = route[x].dest
      /\ \A y \in RouteIds \ {x} : route'[y] = route[y]
  BY <1>1 DEF ReviewInv, TypeOK
<1>3. \A c \in records : c.route \in RouteIds \ {x} /\ c.table # Shelf
  BY <1>1 DEF RecordsOK, ReviewInv, TypeOK
<1>4. \A c \in records' : route'[c.route].status = "applied" /\ route'[c.route].dest = c.table
  BY <1>1, <1>2, <1>3 DEF RecordsOK
<1>5. \A c, e \in records' : (c.table = e.table /\ c.id = e.id) \/ c.route = e.route => c = e
  BY <1>1, <1>3 DEF Taken, RecordsOK, OneRecordPerRoute
<1>6. ASSUME NEW y \in RouteIds
      PROVE  route'[y].status = "applied" /\ route'[y].dest # Shelf
               <=> \E c \in records' : c.route = y /\ c.table = route'[y].dest
  <2>1. CASE y = x
    <3>1. new \in records' /\ new.route = y /\ new.table = route'[y].dest
      BY <1>1, <1>2, <2>1
    <3>2. route'[y].status = "applied" /\ route'[y].dest # Shelf
      BY <1>2, <2>1
    <3> HIDE DEF new
    <3> QED BY <3>1, <3>2
  <2>2. CASE y # x
    <3>1. \A c \in records' : c.route = y => c \in records
      BY <1>1, <2>2
    <3> QED BY <1>1, <1>2, <2>2, <3>1 DEF RecordsOK, OneRecordPerRoute
  <2> QED BY <2>1, <2>2
<1> QED BY <1>4, <1>5, <1>6 DEF RecordsOK, OneRecordPerRoute

LEMMA RecordsStep ==
  ASSUME ReviewInv, RecordsOK, [Next]_vars
  PROVE  RecordsOK'
<1>1. TypeOK
  BY DEF ReviewInv
<1>2. CASE \E r \in Reviewers : ApplyCommit(r) /\ route[at[r]].dest # Shelf
  BY <1>2, RecordAdded
<1>3. CASE ~ \E r \in Reviewers : ApplyCommit(r) /\ route[at[r]].dest # Shelf
  <2>1. records' = records
    BY <1>3 DEF Next, Synthesis, SynthesisArchive, SynthesisCommit, SynthesisFails, Propose,
         ProposeSelect, ProposeCommit, ProposeFails, ReviewStep, Refused, Reroute, Approve, Reject,
         ApplyLock, ApplyCommit, ApplyCollides, ReviewFails, ReviewRead, vars
  <2>2. \A x \in RouteIds : route[x].status = "applied" => route'[x] = route[x]
    BY SettledStep
  <2>3. ASSUME NEW x \in RouteIds, route'[x].status = "applied"
        PROVE  /\ route'[x].dest = route[x].dest
               /\ route[x].status = "applied" \/ route[x].dest = Shelf
    BY <1>3, <2>2, <2>3, SettledStep DEF SameBut
  <2> QED BY <1>1, <2>1, <2>2, <2>3, RecordsKept
<1> QED BY <1>2, <1>3
-----------------------------------------------------------------------------
(* Items, proposals and syntheses.                                         *)

\* Only a commit of a proposal makes a route.
LEMMA RouteMade ==
  ASSUME RouterInv, [Next]_vars, NEW x \in RouteIds
  PROVE  /\ route'[x].status = "none" => route[x].status = "none"
         /\ route[x].status = "none" /\ route'[x].status # "none" =>
              \E p \in Proposers :
                /\ ProposeCommit(p) /\ x \in selected[p] /\ route'[x] = Proposed(x)
         /\ route'[x].status \in Guarded => route[x].status \in Guarded \union {"none"}
         /\ route'[x].status = "rejected" /\ route[x].status # "rejected" =>
              \E r \in Reviewers : Reject(r) /\ at[r] = x
<1>1. RouteChange(x)
  BY RouteStep DEF RouterInv, ReviewInv
<1>2. /\ route[x].status = "none" => Upsert(x) = Proposed(x)
      /\ route[x].status # "none" => Upsert(x).status = route[x].status
      /\ Proposed(x).status = "pending"
  <2>1. TypeOK
    BY DEF RouterInv
  <2> QED BY <2>1, UpsertFacts
<1>3. route[x].status \in Statuses
  BY DEF RouterInv, TypeOK
<1> QED BY <1>1, <1>2, <1>3 DEF RouteChange, SameBut, Guarded, Statuses

\* What a step does to an item.
LEMMA ItemStep ==
  ASSUME RouterInv, [Next]_vars, NEW i \in Items
  PROVE  \/ item'[i] = item[i]
         \/ /\ SynthesisCommit /\ item'[i].routing = item[i].routing
            /\ \/ item'[i].active /\ item'[i].variant \in Variants
               \/ i \in archiving /\ ~ item'[i].active
         \/ /\ item'[i].routing # "unrouted" /\ i \notin archiving
            /\ item'[i].active = item[i].active /\ item'[i].variant = item[i].variant
<1>1. item[i] \in [variant : Variants \union {NoVariant}, active : BOOLEAN, routing : Routings]
  BY DEF RouterInv, TypeOK
<1>2. CASE SynthesisCommit
  <2>1. refresh[i] # NoVariant => refresh[i] \in Variants
    BY DEF RouterInv, TypeOK, Refreshes
  <2>2. item'[i] = IF refresh[i] # NoVariant
                   THEN [item[i] EXCEPT !.variant = refresh[i], !.active = TRUE]
                   ELSE IF i \in archiving THEN [item[i] EXCEPT !.active = FALSE] ELSE item[i]
    BY <1>2 DEF SynthesisCommit
  <2> QED BY <1>1, <1>2, <2>1, <2>2
<1>3. ASSUME NEW r \in Reviewers, Reject(r) \/ ApplyCommit(r)
      PROVE  \E j \in Items, how \in Routings \ {"unrouted"} : Routed(j, how)
  <2>1. at[r] \in RouteIds
    BY <1>3, PlanFacts DEF Reject, ApplyCommit, Calls, RouterInv, ReviewOK
  <2> QED BY <1>3, <2>1, ItemIsTyped DEF Reject, ApplyCommit, Outcomes, Routings
<1>4. ASSUME NEW j \in Items, NEW how \in Routings \ {"unrouted"}, Routed(j, how)
      PROVE  \/ item'[i] = item[i]
             \/ /\ item'[i].routing # "unrouted" /\ i \notin archiving
                /\ item'[i].active = item[i].active /\ item'[i].variant = item[i].variant
  <2>1. CASE i = j
    BY <1>1, <1>4, <2>1 DEF Routed, RouterInv, TypeOK
  <2>2. CASE i # j
    BY <1>4, <2>2 DEF Routed, RouterInv, TypeOK
  <2> QED BY <2>1, <2>2
<1>5. CASE /\ ~ SynthesisCommit
           /\ ~ \E r \in Reviewers : Reject(r) \/ ApplyCommit(r)
  BY <1>5 DEF Next, Synthesis, SynthesisArchive, SynthesisFails, Propose, ProposeSelect,
     ProposeCommit, ProposeFails, ReviewStep, Refused, Reroute, Approve, ApplyLock,
     ApplyCollides, ReviewFails, ReviewRead, vars, itemVars
<1> QED BY <1>2, <1>3, <1>4, <1>5

\* What a step does to the open transactions.
LEMMA OpenStep ==
  ASSUME [Next]_vars
  PROVE  \/ UNCHANGED <<selected, archiving, refresh, synthesizing, overlapped>>
         \/ \E found \in Refreshes : SynthesisArchive(found)
         \/ SynthesisEnds /\ UNCHANGED <<selected, overlapped>>
         \/ \E p \in Proposers : ProposeSelect(p)
         \/ \E p \in Proposers :
              /\ selected' = [selected EXCEPT ![p] = {}]
              /\ UNCHANGED <<archiving, refresh, synthesizing, overlapped>>
<1>1. CASE Synthesis
  BY <1>1 DEF Synthesis, SynthesisCommit, SynthesisFails
<1>2. ASSUME NEW p \in Proposers, ProposeCommit(p) \/ ProposeFails(p)
      PROVE  /\ selected' = [selected EXCEPT ![p] = {}]
             /\ UNCHANGED <<archiving, refresh, synthesizing, overlapped>>
  BY <1>2 DEF ProposeCommit, ProposeFails, itemVars
<1>3. ASSUME NEW r \in Reviewers,
             ReviewStep(r) \/ ReviewFails(r) \/ \E x \in RouteIds : ReviewRead(r, x)
      PROVE  UNCHANGED <<selected, archiving, refresh, synthesizing, overlapped>>
  BY <1>3 DEF ReviewStep, Refused, Reroute, Approve, Reject, ApplyLock, ApplyCommit, ApplyCollides,
     ReviewFails, ReviewRead, itemVars
<1>4. CASE UNCHANGED vars
  BY <1>4 DEF vars, itemVars
<1> QED BY <1>1, <1>2, <1>3, <1>4 DEF Next, Propose

LEMMA SerialStep ==
  ASSUME RouterInv, [Next]_vars
  PROVE  SerialOK'
<1>1. selected \in [Proposers -> SUBSET RouteIds]
  BY DEF RouterInv, TypeOK
<1>2. SerialOK
  BY DEF RouterInv
<1>3. CASE \E found \in Refreshes : SynthesisArchive(found)
  BY <1>2, <1>3 DEF SynthesisArchive, Overlaps, Proposing, SerialOK
<1>4. CASE SynthesisEnds /\ UNCHANGED <<selected, overlapped>>
  BY <1>2, <1>4 DEF SynthesisEnds, SerialOK
<1>5. ASSUME NEW p \in Proposers, ProposeSelect(p) PROVE SerialOK'
  <2>1. /\ overlapped' = (overlapped \/ synthesizing \/ Proposing) /\ synthesizing' = synthesizing
        /\ \A q \in Proposers \ {p} : selected'[q] = selected[q]
    BY <1>1, <1>5 DEF ProposeSelect, Overlaps, itemVars
  <2> QED BY <2>1 DEF Proposing, SerialOK
<1>6. ASSUME NEW p \in Proposers, selected' = [selected EXCEPT ![p] = {}],
             UNCHANGED <<archiving, refresh, synthesizing, overlapped>>
      PROVE  SerialOK'
  BY <1>1, <1>2, <1>6 DEF SerialOK
<1>7. CASE UNCHANGED <<selected, archiving, refresh, synthesizing, overlapped>>
  BY <1>2, <1>7 DEF SerialOK
<1> QED BY <1>3, <1>4, <1>5, <1>6, <1>7, OpenStep

LEMMA ItemOKStep ==
  ASSUME RouterInv, [Next]_vars
  PROVE  ItemOK'
<1>1. \A i \in Items : item'[i].active => item'[i].variant \in Variants
  BY ItemStep DEF RouterInv, ItemOK
<1>2. ASSUME NEW x \in RouteIds, route'[x].status = "rejected"
      PROVE  item'[ItemOf(x)].routing # "unrouted"
  <2>1. ItemOf(x) \in Items
    BY ItemIsTyped
  <2>2. CASE route[x].status = "rejected"
    BY <2>1, <2>2, ItemStep DEF RouterInv, ItemOK
  <2>3. CASE route[x].status # "rejected"
    <3>1. PICK r \in Reviewers : Reject(r) /\ at[r] = x
      BY <1>2, <2>3, RouteMade
    <3> QED BY <2>1, <3>1 DEF Reject, Routed, RouterInv, TypeOK
  <2> QED BY <2>2, <2>3
<1> QED BY <1>1, <1>2 DEF ItemOK

LEMMA SynthesisStep ==
  ASSUME RouterInv, [Next]_vars
  PROVE  SynthesisOK'
<1>1. SynthesisOK /\ SerialOK
  BY DEF RouterInv
<1>2. CASE \E found \in Refreshes : SynthesisArchive(found)
  BY <1>2 DEF SynthesisArchive, Obsolete, SynthesisOK, HasRoute
<1>3. CASE SynthesisEnds
  BY <1>3 DEF SynthesisEnds, SynthesisOK
<1>4. CASE archiving' = archiving /\ synthesizing' = synthesizing /\ (overlapped => overlapped')
  <2>1. ASSUME ~ overlapped', NEW i \in archiving, NEW x \in RouteIds, ItemOf(x) = i,
               route'[x].status \in Guarded
        PROVE  FALSE
    <3>1. route[x].status = "none"
      BY <1>1, <1>4, <2>1, RouteMade DEF SynthesisOK, HasRoute
    <3>2. PICK p \in Proposers : x \in selected[p]
      BY <2>1, <3>1, RouteMade DEF Guarded
    <3> QED BY <1>1, <1>4, <2>1, <3>2 DEF SynthesisOK, SerialOK
  <2> QED BY <1>1, <1>4, <2>1 DEF SynthesisOK, HasRoute
<1> QED BY <1>2, <1>3, <1>4, OpenStep DEF ProposeSelect, Overlaps, itemVars

\* A selection is made of items that have no route at all.
LEMMA NewSelection ==
  ASSUME RouterInv, NEW p \in Proposers, ProposeSelect(p), NEW x \in selected'[p]
  PROVE  /\ x \in RouteIds /\ item[ItemOf(x)].active
         /\ \A y \in RouteIds : ItemOf(y) = ItemOf(x) => route[y].status = "none"
         /\ \A y \in selected'[p] : ItemOf(x) = ItemOf(y) => x = y
<1>1. PICK I \in SUBSET {i \in Items : Selectable(i)} :
        selected' = [selected EXCEPT ![p] = {<<i, item[i].variant>> : i \in I}]
  BY DEF ProposeSelect
<1>2. selected'[p] = {<<i, item[i].variant>> : i \in I}
  BY <1>1 DEF RouterInv, TypeOK
<1>3. PICK i \in I : x = <<i, item[i].variant>>
  BY <1>2
<1>4. item[i].active /\ item[i].routing = "unrouted" /\ ~ HasRoute(i) /\ i \in Items
  BY <1>1, <1>3 DEF Selectable
<1>5. ItemOf(x) = i /\ x \in RouteIds
  BY <1>3, <1>4 DEF ItemOf, RouteIds, RouterInv, ItemOK
<1>6. \A y \in RouteIds : ItemOf(y) = i => route[y].status = "none"
  BY <1>4 DEF HasRoute, Guarded, RouterInv, ItemOK, TypeOK, Statuses
<1>7. \A y \in selected'[p] : ItemOf(y) = i => y = x
  BY <1>2, <1>3 DEF ItemOf
<1> QED BY <1>4, <1>5, <1>6, <1>7
LEMMA SelectedStep ==
  ASSUME RouterInv, [Next]_vars
  PROVE  SelectedOK'
<1>1. SelectedOK /\ SerialOK /\ SynthesisOK
  BY DEF RouterInv
<1>2. selected \in [Proposers -> SUBSET RouteIds]
  BY DEF RouterInv, TypeOK
<1>3. ASSUME NEW p \in Proposers, ProposeSelect(p) PROVE SelectedOK'
  <2>1. /\ \A q \in Proposers \ {p} : selected'[q] = selected[q]
        /\ overlapped' = (overlapped \/ synthesizing \/ Proposing)
        /\ item' = item /\ route' = route
    BY <1>2, <1>3 DEF ProposeSelect, Overlaps, itemVars
  <2>2. \A q \in Proposers : \A x, y \in selected'[q] : ItemOf(x) = ItemOf(y) => x = y
    BY <1>1, <1>3, <2>1, NewSelection DEF SelectedOK
  <2>3. ~ overlapped' => \A q \in Proposers \ {p} : selected'[q] = {}
    BY <2>1 DEF Proposing
  <2> QED BY <1>3, <2>1, <2>2, <2>3, NewSelection DEF SelectedOK
<1>4. CASE /\ \A q \in Proposers : selected'[q] = selected[q] \/ selected'[q] = {}
           /\ overlapped => overlapped'
           /\ \A q \in Proposers : selected'[q] # {} => ~ ProposeCommit(q)
  <2>1. \A q \in Proposers : \A x, y \in selected'[q] : ItemOf(x) = ItemOf(y) => x = y
    BY <1>1, <1>4 DEF SelectedOK
  <2>2. ASSUME ~ overlapped', NEW q \in Proposers, NEW x \in selected'[q]
        PROVE  /\ item'[ItemOf(x)].active
               /\ \A y \in RouteIds : ItemOf(y) = ItemOf(x) => route'[y].status = "none"
    <3>1. ~ overlapped /\ x \in selected[q] /\ x \in RouteIds /\ ItemOf(x) \in Items
      BY <1>2, <1>4, <2>2, ItemIsTyped
    <3>2. /\ item[ItemOf(x)].active /\ archiving = {}
          /\ \A y \in RouteIds : ItemOf(y) = ItemOf(x) => route[y].status = "none"
      BY <1>1, <3>1 DEF SelectedOK, SerialOK, SynthesisOK
    <3>3. item'[ItemOf(x)].active
      BY <3>1, <3>2, ItemStep
    <3>4. ASSUME NEW y \in RouteIds, ItemOf(y) = ItemOf(x), route'[y].status # "none"
          PROVE  FALSE
      <4>1. PICK p \in Proposers : ProposeCommit(p) /\ y \in selected[p]
        BY <3>2, <3>4, RouteMade
      <4>2. p = q
        BY <1>1, <3>1, <4>1 DEF SerialOK
      <4> QED BY <1>4, <2>2, <4>1, <4>2
    <3> QED BY <3>3, <3>4
  <2> QED BY <2>1, <2>2 DEF SelectedOK
<1>5. CASE ~ \E p \in Proposers : ProposeSelect(p)
  <2>1. overlapped => overlapped'
    BY <1>5, OpenStep DEF SynthesisArchive, Overlaps
  <2>2. \A q \in Proposers : selected'[q] = selected[q] \/ selected'[q] = {}
    BY <1>2, <1>5, OpenStep DEF SynthesisArchive
  <2>3. \A q \in Proposers : selected'[q] # {} => ~ ProposeCommit(q)
    BY <1>2 DEF ProposeCommit
  <2> QED BY <1>4, <2>1, <2>2, <2>3
<1> QED BY <1>3, <1>5

LEMMA PayloadStep ==
  ASSUME RouterInv, [Next]_vars
  PROVE  PayloadOK'
<1>1. PayloadOK /\ SelectedOK
  BY DEF RouterInv
<1>2. overlapped => overlapped'
  BY OpenStep DEF SynthesisArchive, ProposeSelect, Overlaps
<1>3. ASSUME ~ overlapped', NEW x \in RouteIds PROVE route'[x].payload = route'[x].dest
  <2>1. RouteChange(x)
    BY RouteStep DEF RouterInv, ReviewInv
  <2>2. ASSUME NEW p \in Proposers, x \in selected[p], route'[x] = Upsert(x)
        PROVE  route'[x].payload = route'[x].dest
    <3>1. route[x].status = "none"
      BY <1>1, <1>2, <1>3, <2>2 DEF SelectedOK
    <3> QED BY <2>2, <3>1, UpsertFacts DEF RouterInv
  <2> QED BY <1>1, <1>2, <1>3, <2>1, <2>2 DEF PayloadOK, RouteChange, SameBut
<1> QED BY <1>3 DEF PayloadOK

\* The route of an item is made when it has none, with no other route.
LEMMA OneRouteStep ==
  ASSUME RouterInv, [Next]_vars
  PROVE  OneRoutePerItem'
<1>1. OneRoutePerItem /\ SelectedOK /\ SerialOK
  BY DEF RouterInv
<1>2. overlapped => overlapped'
  BY OpenStep DEF SynthesisArchive, ProposeSelect, Overlaps
<1> SUFFICES ASSUME ~ overlapped', NEW x \in RouteIds, NEW y \in RouteIds, ItemOf(x) = ItemOf(y),
                    route'[x].status # "none", route'[y].status # "none"
             PROVE  x = y
  BY DEF OneRoutePerItem
<1>3. CASE route[x].status # "none" /\ route[y].status # "none"
  BY <1>1, <1>2, <1>3 DEF OneRoutePerItem
<1>4. ASSUME NEW a \in {x, y}, route[a].status = "none" PROVE x = y
  <2>1. PICK p \in Proposers : a \in selected[p]
    BY <1>4, RouteMade
  <2>2. route[x].status = "none" /\ route[y].status = "none"
    BY <1>1, <1>2, <1>4, <2>1 DEF SelectedOK
  <2>3. /\ \E q \in Proposers : x \in selected[q]
        /\ \E q \in Proposers : y \in selected[q]
    BY <2>2, RouteMade
  <2> QED BY <1>1, <1>2, <2>3 DEF SelectedOK, SerialOK
<1> QED BY <1>3, <1>4

LEMMA StayStep ==
  ASSUME RouterInv, [Next]_vars
  PROVE  RoutedItemsStay'
<1>1. RoutedItemsStay /\ SelectedOK /\ SerialOK /\ SynthesisOK
  BY DEF RouterInv
<1>2. overlapped => overlapped'
  BY OpenStep DEF SynthesisArchive, ProposeSelect, Overlaps
<1> SUFFICES ASSUME ~ overlapped', NEW x \in RouteIds, route'[x].status \in Guarded
             PROVE  item'[ItemOf(x)].active
  BY DEF RoutedItemsStay
<1>3. ItemOf(x) \in Items
  BY ItemIsTyped
<1>4. CASE route[x].status \in Guarded
  <2>1. item[ItemOf(x)].active /\ ItemOf(x) \notin archiving
    BY <1>1, <1>2, <1>4 DEF RoutedItemsStay, SynthesisOK, HasRoute
  <2> QED BY <1>3, <2>1, ItemStep
<1>5. CASE route[x].status = "none"
  <2>1. PICK p \in Proposers : x \in selected[p]
    BY <1>5, RouteMade DEF Guarded
  <2>2. item[ItemOf(x)].active /\ archiving = {}
    BY <1>1, <1>2, <2>1 DEF SelectedOK, SerialOK, SynthesisOK
  <2> QED BY <1>3, <2>2, ItemStep
<1> QED BY <1>4, <1>5, RouteMade

-----------------------------------------------------------------------------
(* Theorems.                                                               *)

LEMMA RouterStep == RouterInv /\ [Next]_vars => RouterInv'
<1> SUFFICES ASSUME RouterInv, [Next]_vars
             PROVE  RouterInv'
  OBVIOUS
<1>1. TypeOK'
  BY TypeStep DEF RouterInv
<1>2. ReviewOK' /\ LockedOK' /\ LookOK' /\ RecordsOK'
  BY ReviewsStep, RecordsStep DEF RouterInv, ReviewInv
<1> QED
  BY <1>1, <1>2, SerialStep, ItemOKStep, SynthesisStep, SelectedStep, PayloadStep, OneRouteStep,
     StayStep
  DEF RouterInv

\* The inductive invariant of the tables holds in every reachable state.
THEOREM RouterInvariant == Spec => []RouterInv
BY InitRouterInv, RouterStep, PTL DEF Spec

\* Every variable of the router has its type: rows, requests and open
\* transactions of proposeActionRoutes and the review calls.
THEOREM RouterTypeCorrect == Spec => []TypeOK
<1>1. RouterInv => TypeOK
  BY DEF RouterInv
<1> QED BY <1>1, RouterInvariant, PTL

\* As long as no proposal and no refresh overlap, proposeActionRoutes never
\* makes a second route for an item, however the first was answered.
THEOREM RoutesPerItem == Spec => []OneRoutePerItem
<1>1. RouterInv => OneRoutePerItem
  BY DEF RouterInv
<1> QED BY <1>1, RouterInvariant, PTL

\* As long as they do not overlap, governed synthesis never archives an item
\* whose route waits or was applied.
THEOREM RoutedStay == Spec => []RoutedItemsStay
<1>1. RouterInv => RoutedItemsStay
  BY DEF RouterInv
<1> QED BY <1>1, RouterInvariant, PTL

\* applyActionRoute inserts one record for a route, under an id of its own,
\* although requests apply a route twice or compute one id for two routes.
THEOREM RecordsPerRoute == Spec => []OneRecordPerRoute
<1>1. RouterInv => OneRecordPerRoute
  BY DEF RouterInv, RecordsOK
<1> QED BY <1>1, RouterInvariant, PTL

\* No upsert of a proposal changes the status, place or payload of a rejected or
\* applied route.
THEOREM AnswersFinal == Spec => AnswersAreFinal
<1>1. RouterInv /\ [Next]_vars =>
        [\A x \in RouteIds :
           route[x].status \in {"rejected", "applied"} => route'[x] = route[x]]_vars
  BY SettledStep DEF RouterInv, ReviewInv
<1> QED BY <1>1, RouterInvariant, PTL DEF Spec, AnswersAreFinal

\* A request applies a route to the place its reviewer saw or chose, unless the
\* route was changed before it was approved.
THEOREM AppliedReviewed == Spec => AppliedAsReviewed
<1>1. ASSUME RouterInv, [Next]_vars, NEW r \in Reviewers, NEW x \in RouteIds, at[r] = x,
             todo[r] = <<"insert">>, x \notin crossed
      PROVE  route[x].dest = pick[r] /\ (overlapped \/ route[x].payload = pick[r])
  <2>1. route[x].dest = pick[r]
    BY <1>1, PlanFacts DEF RouterInv, LookOK
  <2> QED BY <1>1, <2>1 DEF RouterInv, PayloadOK
<1>2. RouterInv /\ [Next]_vars =>
        [\A r \in Reviewers, x \in RouteIds :
           /\ at[r] = x /\ todo[r] = <<"insert">> /\ x \notin crossed
           /\ route[x].status # "applied" /\ route'[x].status = "applied"
           => route[x].dest = pick[r] /\ (overlapped \/ route[x].payload = pick[r])]_vars
  BY <1>1
<1> QED BY <1>2, RouterInvariant, PTL DEF Spec, AppliedAsReviewed

-----------------------------------------------------------------------------
(* The book of routes that the router implements.                          *)

BookStatus == [x \in RouteIds |-> route[x].status]
BookPlace == [x \in RouteIds |-> route[x].dest]
BookMade == {<<c.route, c.table>> : c \in records}

LEMMA BookPage ==
  /\ Book!Routes = RouteIds /\ Book!Places = Destinations
  /\ UNCHANGED <<route, records, overlapped>> => UNCHANGED Book!bookVars
  /\ UNCHANGED <<route, records>> /\ overlapped' => Book!Race
<1>1. UNCHANGED <<route, records>> => UNCHANGED <<BookStatus, BookPlace, BookMade>>
  BY DEF BookStatus, BookPlace, BookMade
<1> QED
  BY <1>1 DEF Book!Routes, Book!Places, Book!bookVars, Book!Race, RouteIds, Destinations,
              BookStatus, BookPlace, BookMade

\* A proposal's commit writes new routes of items that have none, and what it
\* refreshes is no part of the book.
LEMMA BookProposes ==
  ASSUME RouterInv, RouterInv', NEW p \in Proposers, ProposeCommit(p)
  PROVE  \E S \in SUBSET RouteIds : Book!Propose(S)
<1> DEFINE S == {x \in selected[p] : route[x].status = "none"}
<1>1. /\ route' = [x \in RouteIds |-> IF x \in selected[p] THEN Upsert(x) ELSE route[x]]
      /\ UNCHANGED <<records, overlapped>>
  BY DEF ProposeCommit
<1>2. S \in SUBSET RouteIds /\ TypeOK /\ TypeOK'
  BY DEF RouterInv, TypeOK
<1>3. \A x \in RouteIds :
        /\ x \in S => route[x].status = "none" /\ route'[x].status = "pending"
        /\ x \notin S => route'[x].status = route[x].status /\ route'[x].dest = route[x].dest
  BY <1>1, <1>2, UpsertFacts
<1>4. BookStatus' = [x \in RouteIds |-> IF x \in S THEN "pending" ELSE BookStatus[x]]
  BY <1>3 DEF BookStatus
<1>5. /\ BookPlace' \in [RouteIds -> Destinations]
      /\ \A x \in RouteIds \ S : BookPlace'[x] = BookPlace[x]
  <2>1. \A x \in RouteIds : route'[x].dest \in Destinations
    BY <1>2 DEF TypeOK
  <2> QED BY <1>3, <2>1 DEF BookPlace
<1>6. \/ overlapped
      \/ \A x \in S, y \in RouteIds :
           x[1] = y[1] /\ (y \in S \/ BookStatus[y] # "none") => x = y
  <2> SUFFICES ASSUME ~ overlapped, NEW x \in S, NEW y \in RouteIds, x[1] = y[1],
                      y \in S \/ BookStatus[y] # "none"
               PROVE  x = y
    OBVIOUS
  <2>1. route'[x].status # "none" /\ route'[y].status # "none"
    BY <1>2, <1>3 DEF BookStatus
  <2>2. ~ overlapped' /\ OneRoutePerItem'
    BY <1>1 DEF RouterInv
  <2> QED BY <1>2, <2>1, <2>2 DEF OneRoutePerItem, ItemOf
<1>7. BookMade' = BookMade /\ \A x \in S : BookStatus[x] = "none"
  BY <1>1, <1>2 DEF BookMade, BookStatus
<1> HIDE DEF S
<1>8. PICK T \in SUBSET RouteIds : T = S
  BY <1>2
<1>9. Book!Propose(T)
  <2>1. \A x \in T : BookStatus[x] = "none"
    BY <1>7, <1>8
  <2>2. \/ overlapped
        \/ \A x \in T, y \in RouteIds :
             x[1] = y[1] /\ (y \in T \/ BookStatus[y] # "none") => x = y
    BY <1>6, <1>8
  <2>3. BookStatus' = [x \in RouteIds |-> IF x \in T THEN "pending" ELSE BookStatus[x]]
    BY <1>4, <1>8
  <2>4. /\ BookPlace' \in [RouteIds -> Destinations]
        /\ \A x \in RouteIds \ T : BookPlace'[x] = BookPlace[x]
    BY <1>5, <1>8
  <2>5. UNCHANGED <<BookMade, overlapped>>
    BY <1>1, <1>7
  <2> QED
    BY <2>1, <2>2, <2>3, <2>4, <2>5, BookPage
    DEF Book!Propose, BookStatus, BookPlace, BookMade
<1> QED BY <1>9

\* A review's call that writes its route is one entry of the book.
LEMMA BookReviews ==
  ASSUME RouterInv, NEW r \in Reviewers,
         Reroute(r) \/ Approve(r) \/ Reject(r) \/ ApplyCommit(r)
  PROVE  Book!Next
<1> DEFINE x == at[r]
<1>1. TypeOK /\ x \in RouteIds
  BY PlanFacts DEF RouterInv, ReviewOK, Reroute, Approve, Reject, ApplyCommit, Calls
<1>2. /\ route \in [RouteIds -> [status : Statuses, dest : Destinations, payload : Destinations]]
      /\ pick[r] \in Destinations
  BY <1>1 DEF TypeOK
<1>3. CASE Reroute(r)
  <2>1. /\ route[x].status = "pending" /\ UNCHANGED <<records, overlapped>>
        /\ route' = [route EXCEPT ![x].dest = pick[r], ![x].payload = pick[r]]
    BY <1>3 DEF Reroute
  <2>2. BookStatus' = BookStatus /\ BookPlace' = [BookPlace EXCEPT ![x] = pick[r]]
    BY <1>1, <1>2, <2>1 DEF BookStatus, BookPlace
  <2>3. BookMade' = BookMade /\ BookStatus[x] = "pending"
    BY <1>1, <2>1 DEF BookMade, BookStatus
  <2>4. PICK y \in RouteIds, d \in Destinations : y = x /\ d = pick[r]
    BY <1>1, <1>2
  <2>5. Book!Redirect(y, d)
    BY <2>1, <2>2, <2>3, <2>4 DEF Book!Redirect, BookStatus, BookPlace, BookMade
  <2> QED BY <2>5, BookPage DEF Book!Next
<1>4. ASSUME NEW s, route' = [route EXCEPT ![x].status = s]
      PROVE  BookPlace' = BookPlace /\ BookStatus' = [BookStatus EXCEPT ![x] = s]
  BY <1>1, <1>2, <1>4 DEF BookStatus, BookPlace
<1>5. PICK y \in RouteIds : y = x
  BY <1>1
<1>6. CASE Approve(r)
  <2>1. /\ route[x].status = "pending" /\ UNCHANGED <<records, overlapped>>
        /\ route' = [route EXCEPT ![x].status = "approved"]
    BY <1>6 DEF Approve
  <2>2. BookPlace' = BookPlace /\ BookStatus' = [BookStatus EXCEPT ![x] = "approved"]
    BY <1>4, <2>1
  <2>3. BookMade' = BookMade /\ BookStatus[x] = "pending"
    BY <1>1, <2>1 DEF BookMade, BookStatus
  <2>4. Book!Approve(y)
    BY <1>5, <2>1, <2>2, <2>3 DEF Book!Approve, BookStatus, BookPlace, BookMade
  <2> QED BY <2>4, BookPage DEF Book!Next
<1>7. CASE Reject(r)
  <2>1. /\ route[x].status \in {"pending", "approved"} /\ UNCHANGED <<records, overlapped>>
        /\ route' = [route EXCEPT ![x].status = "rejected"]
    BY <1>7 DEF Reject
  <2>2. BookPlace' = BookPlace /\ BookStatus' = [BookStatus EXCEPT ![x] = "rejected"]
    BY <1>4, <2>1
  <2>3. BookMade' = BookMade /\ BookStatus[x] \in {"pending", "approved"}
    BY <1>1, <2>1 DEF BookMade, BookStatus
  <2>4. Book!Reject(y)
    BY <1>5, <2>1, <2>2, <2>3 DEF Book!Reject, BookStatus, BookPlace, BookMade
  <2> QED BY <2>4, BookPage DEF Book!Next
<1>8. CASE ApplyCommit(r)
  <2>1. /\ todo[r] = <<"insert">> /\ UNCHANGED overlapped
        /\ route' = [route EXCEPT ![x].status = "applied"]
        /\ \/ route[x].dest = Shelf /\ UNCHANGED records
           \/ /\ route[x].dest # Shelf
              /\ records' = records \union
                   {[table |-> route[x].dest, id |-> newId[r], route |-> x]}
    BY <1>8 DEF ApplyCommit
  <2>2. BookPlace' = BookPlace /\ BookStatus' = [BookStatus EXCEPT ![x] = "applied"]
    BY <1>4, <2>1
  <2>3. BookStatus[x] = "approved" /\ BookPlace[x] = route[x].dest
    BY <1>1, <2>1 DEF BookStatus, BookPlace, RouterInv, LockedOK
  <2>4. BookMade' = IF BookPlace[x] = Shelf THEN BookMade
                    ELSE BookMade \union {<<x, BookPlace[x]>>}
    <3>1. CASE route[x].dest = Shelf
      BY <2>1, <2>3, <3>1 DEF BookMade
    <3>2. CASE route[x].dest # Shelf
      <4> DEFINE new == [table |-> route[x].dest, id |-> newId[r], route |-> x]
      <4>1. records' = records \union {new} /\ <<new.route, new.table>> = <<x, route[x].dest>>
        BY <2>1, <3>2
      <4> HIDE DEF new
      <4>2. BookMade' = BookMade \union {<<new.route, new.table>>}
        BY <4>1, Zenon DEF BookMade
      <4> QED BY <2>3, <3>2, <4>1, <4>2
    <3> QED BY <3>1, <3>2
  <2>5. Book!Apply(y)
    BY <1>5, <2>1, <2>2, <2>3, <2>4 DEF Book!Apply, BookStatus, BookPlace, BookMade
  <2> QED BY <2>5, BookPage DEF Book!Next
<1> QED BY <1>3, <1>6, <1>7, <1>8

LEMMA BookStep ==
  ASSUME RouterInv, RouterInv', [Next]_vars
  PROVE  [Book!Next]_(Book!bookVars)
<1>1. CASE UNCHANGED <<route, records>>
  <2>1. overlapped' \/ overlapped' = overlapped
    BY OpenStep DEF SynthesisArchive, ProposeSelect, Overlaps, RouterInv, TypeOK
  <2> QED BY <1>1, <2>1, BookPage DEF Book!Next
<1>2. CASE \E p \in Proposers : ProposeCommit(p)
  BY <1>2, BookProposes, BookPage DEF Book!Next
<1>3. CASE \E r \in Reviewers : Reroute(r) \/ Approve(r) \/ Reject(r) \/ ApplyCommit(r)
  BY <1>3, BookReviews
<1> QED
  BY <1>1, <1>2, <1>3, ElsewhereFacts
  DEF Next, Propose, ReviewStep, Elsewhere, Refused, ApplyCollides, ReviewFails, ApplyLock,
      ReviewRead

\* For any items, runs and requests the router's transactions amount to a book
\* in which one thing happens at a time: a route is asked about once, waits for
\* its approval, and makes its record in the step that applies it.
THEOREM RouterImplementsBook == Spec => ImplementsBook
<1>1. Init => Book!Init
  BY DEF Init, Book!Init, Book!Routes, RouteIds
<1>2. RouterInv /\ RouterInv' /\ [Next]_vars => [Book!Next]_(Book!bookVars)
  BY BookStep
<1> QED BY <1>1, <1>2, RouterInvariant, PTL DEF Spec, ImplementsBook, Book!Spec
=============================================================================
