---------------------------- MODULE ActionRouter ----------------------------
(***************************************************************************)
(* Action routes: governed synthesis keeps a table of items                *)
(* (src/lib/intelligence-synthesis.js), the router proposes a route for    *)
(* each item that has none, and people reroute, approve, reject and apply  *)
(* routes, which creates records in other tables                           *)
(* (src/lib/intelligence-action-router.js).  A review request calls the    *)
(* store several times, one transaction a call                             *)
(* (src/lib/strategy-shared-comms-routes.js).  Transactions are READ       *)
(* COMMITTED; one is a single step where it locks what it reads.           *)
(***************************************************************************)
EXTENDS Integers, Sequences

CONSTANTS
  Items,      \* natural keys of synthesized items
  Variants,   \* what synthesis makes of an item: type, owner, destination
  NoVariant,  \* an item that was never synthesized
  Dest,       \* routeTypeForItem and ROUTE_DESTINATIONS: variant -> destination
  Tables,     \* the destination tables that records are created in
  Proposers,  \* runs that propose routes: the job's and operators' own
  Reviewers,  \* review requests
  NoRoute     \* no route

\* The remaining destination is the item itself: ignore and snooze.
Shelf == "intelligence_synthesized_items"
Destinations == Tables \union {Shelf}

ASSUME RouterAssumption ==
  /\ NoVariant \notin Variants
  /\ Shelf \notin Tables
  /\ Dest \in [Variants -> Destinations]
  /\ NoRoute \notin Items \X Variants

\* The route id is a hash of item, type, destination and owner.
RouteIds == Items \X Variants
ItemOf(x) == x[1]

VARIABLES
  item,        \* intelligence_synthesized_items
  route,       \* intelligence_action_routes
  records,     \* what applied routes have inserted: table, id and route
  selected,    \* the routes a proposer's open transaction will upsert
  archiving,   \* the items synthesis's open transaction has archived
  refresh,     \* the items it will upsert, with their variants
  synthesizing, \* whether it is open
  todo,        \* the store calls a review request has still to make
  at,          \* the route it is about
  pick,        \* the destination its reviewer saw or chose
  newId,       \* the id its open apply transaction has computed
  overlapped,  \* history: two of proposals and synthesis were open at once
  crossed      \* history: routes changed between a reviewer's look and approval

itemVars == <<item, archiving, refresh, synthesizing>>
reviewVars == <<todo, at, pick, newId>>
vars == <<itemVars, route, records, selected, reviewVars, overlapped, crossed>>

Statuses == {"none", "pending", "approved", "rejected", "applied"}
Routings == {"unrouted", "routed", "ignored", "snoozed"}
Plans == {<<"approve", "apply">>, <<"reroute", "approve", "apply">>, <<"reroute">>,
          <<"approve">>, <<"apply">>, <<"reject">>}
Suffixes == {<<>>, <<"insert">>} \union Plans
Refreshes == [Items -> Variants \union {NoVariant}]

TypeOK ==
  /\ item \in [Items -> [variant : Variants \union {NoVariant}, active : BOOLEAN,
                         routing : Routings]]
  /\ route \in [RouteIds -> [status : Statuses, dest : Destinations,
                             payload : Destinations]]
  /\ records \subseteq [table : Tables, id : Nat \ {0}, route : RouteIds]
  /\ selected \in [Proposers -> SUBSET RouteIds]
  /\ archiving \subseteq Items
  /\ refresh \in Refreshes
  /\ synthesizing \in BOOLEAN
  /\ todo \in [Reviewers -> Suffixes]
  /\ at \in [Reviewers -> RouteIds \union {NoRoute}]
  /\ pick \in [Reviewers -> Destinations]
  /\ newId \in [Reviewers -> Nat]
  /\ overlapped \in BOOLEAN
  /\ crossed \subseteq RouteIds

NoRefresh == [i \in Items |-> NoVariant]

Init ==
  /\ item = [i \in Items |-> [variant |-> NoVariant, active |-> FALSE,
                              routing |-> "unrouted"]]
  /\ route = [x \in RouteIds |-> [status |-> "none", dest |-> Shelf, payload |-> Shelf]]
  /\ records = {}
  /\ selected = [p \in Proposers |-> {}]
  /\ archiving = {}
  /\ refresh = NoRefresh
  /\ synthesizing = FALSE
  /\ todo = [r \in Reviewers |-> <<>>]
  /\ at = [r \in Reviewers |-> NoRoute]
  /\ pick = [r \in Reviewers |-> Shelf]
  /\ newId = [r \in Reviewers |-> 0]
  /\ overlapped = FALSE
  /\ crossed = {}

Proposing == \E p \in Proposers : selected[p] # {}
Overlaps == overlapped' = (overlapped \/ synthesizing \/ Proposing)

Guarded == {"pending", "approved", "applied"}
HasRoute(i) == \E x \in RouteIds : ItemOf(x) = i /\ route[x].status \in Guarded

-----------------------------------------------------------------------------
(* Governed synthesis: archive what this run did not find again, then      *)
(* upsert what it found; the routing status is not among the columns.      *)

\* Mutant: a route does not protect its item.
Obsolete_NoExists(i) == item[i].active /\ item[i].routing = "unrouted"
Obsolete(i) == item[i].active /\ item[i].routing = "unrouted" /\ ~HasRoute(i)

\* The statement that archives sees the routes committed by now.  A run that
\* finds none of Items has found others.  Items are clustered ones: the statement
\* before it, for those of before clustering, concerns none that can be proposed.
SynthesisArchive(found) ==
  /\ ~synthesizing
  /\ synthesizing' = TRUE
  /\ refresh' = found
  /\ archiving' = {i \in Items : found[i] = NoVariant /\ Obsolete(i)}
  /\ Overlaps
  /\ UNCHANGED <<item, route, records, selected, reviewVars, crossed>>

SynthesisEnds ==
  /\ synthesizing /\ synthesizing' = FALSE
  /\ archiving' = {} /\ refresh' = NoRefresh

SynthesisCommit ==
  /\ item' = [i \in Items |->
       IF refresh[i] # NoVariant THEN [item[i] EXCEPT !.variant = refresh[i], !.active = TRUE]
       ELSE IF i \in archiving THEN [item[i] EXCEPT !.active = FALSE]
       ELSE item[i]]
  /\ SynthesisEnds
  /\ UNCHANGED <<route, records, selected, reviewVars, overlapped, crossed>>

SynthesisFails ==
  /\ SynthesisEnds
  /\ UNCHANGED <<item, route, records, selected, reviewVars, overlapped, crossed>>

-----------------------------------------------------------------------------
(* proposeActionRoutes                                                     *)

\* Mutant: an item is selected whether or not it has a route.
Selectable_NoExists(i) == item[i].active /\ item[i].routing = "unrouted"
Selectable(i) == item[i].active /\ item[i].routing = "unrouted" /\ ~HasRoute(i)

\* Those within routeLimit, in the review order of synthesis's last run.
ProposeSelect(p) ==
  /\ selected[p] = {}
  /\ \E I \in SUBSET {i \in Items : Selectable(i)} :
       /\ I # {}
       /\ selected' = [selected EXCEPT ![p] = {<<i, item[i].variant>> : i \in I}]
  /\ Overlaps
  /\ UNCHANGED <<itemVars, route, records, reviewVars, crossed>>

Proposed(x) == [status |-> "pending", dest |-> Dest[x[2]], payload |-> Dest[x[2]]]

\* Mutant: a conflicting row starts again as pending.
Upsert_Reopens(x) == Proposed(x)
\* ON CONFLICT (route_id): only a pending row takes the new payload, and type,
\* destination and status stay what they are.  The metadata that every row is
\* given, an answered one too, decides nothing.
Upsert(x) ==
  CASE route[x].status = "none" -> Proposed(x)
    [] route[x].status = "pending" -> [route[x] EXCEPT !.payload = Dest[x[2]]]
    [] OTHER -> route[x]

\* An open apply transaction has its route's row locked.
Locked(x) == \E r \in Reviewers : todo[r] = <<"insert">> /\ at[r] = x
\* Requests that will approve a route they have looked at.
Looking(x) == {r \in Reviewers : at[r] = x /\ \E n \in DOMAIN todo[r] : todo[r][n] = "approve"}

ProposeCommit(p) ==
  /\ selected[p] # {}
  /\ \A x \in selected[p] : ~Locked(x)
  /\ route' = [x \in RouteIds |-> IF x \in selected[p] THEN Upsert(x) ELSE route[x]]
  /\ selected' = [selected EXCEPT ![p] = {}]
  /\ crossed' = crossed \union {x \in selected[p] : Upsert(x) # route[x] /\ Looking(x) # {}}
  /\ UNCHANGED <<itemVars, records, reviewVars, overlapped>>

ProposeFails(p) ==
  /\ selected[p] # {}
  /\ selected' = [selected EXCEPT ![p] = {}]
  /\ UNCHANGED <<itemVars, route, records, reviewVars, overlapped, crossed>>

-----------------------------------------------------------------------------
(* Review requests                                                         *)

\* approve_apply, confirm_decision, promote_to_backlog and the command line
\* tool approve and apply; needs_owner, ignore and snooze reroute first, as
\* does approve_apply for another owner; assign_owner only reroutes.
PlansFor(s) ==
  CASE s = "pending" -> Plans \ {<<"apply">>}
    [] s = "approved" -> {<<"apply">>, <<"reject">>}
    [] OTHER -> {}

\* getActionRoute, before any transaction.  A request that reroutes chooses
\* the destination: the one it has just read, or another.
ReviewRead(r, x) ==
  /\ todo[r] = <<>>
  /\ \E plan \in PlansFor(route[x].status) :
       /\ todo' = [todo EXCEPT ![r] = plan]
       /\ \E d \in IF Head(plan) = "reroute" THEN Destinations ELSE {route[x].dest} :
            pick' = [pick EXCEPT ![r] = d]
  /\ at' = [at EXCEPT ![r] = x]
  /\ UNCHANGED <<itemVars, route, records, selected, newId, overlapped, crossed>>

\* The request is answered, or has thrown, or its process has died.
Answered(r) ==
  /\ todo' = [todo EXCEPT ![r] = <<>>]
  /\ at' = [at EXCEPT ![r] = NoRoute]
  /\ pick' = [pick EXCEPT ![r] = Shelf]
  /\ newId' = [newId EXCEPT ![r] = 0]

Advance(r) ==
  IF Len(todo[r]) = 1 THEN Answered(r)
  ELSE todo' = [todo EXCEPT ![r] = Tail(@)] /\ UNCHANGED <<at, pick, newId>>

\* SELECT ... FOR UPDATE waits for a transaction that has the row.
Calls(r, op) == todo[r] # <<>> /\ Head(todo[r]) = op /\ ~Locked(at[r])

\* A call that finds another status throws, and the request ends.
Refused(r) ==
  /\ \/ Calls(r, "reroute") /\ route[at[r]].status # "pending"
     \/ Calls(r, "approve") /\ route[at[r]].status # "pending"
     \/ Calls(r, "apply") /\ route[at[r]].status # "approved"
     \/ Calls(r, "reject") /\ route[at[r]].status \notin {"pending", "approved"}
  /\ Answered(r)
  /\ UNCHANGED <<itemVars, route, records, selected, overlapped, crossed>>

\* Mutant: the status is not checked.
Reroute_AnyStatus(r) ==
  /\ Calls(r, "reroute")
  /\ route' = [route EXCEPT ![at[r]].dest = pick[r], ![at[r]].payload = pick[r]]
  /\ crossed' = IF Looking(at[r]) \ {r} = {} THEN crossed ELSE crossed \union {at[r]}
  /\ Advance(r)
  /\ UNCHANGED <<itemVars, records, selected, overlapped>>

Reroute(r) ==
  /\ Calls(r, "reroute") /\ route[at[r]].status = "pending"
  /\ route' = [route EXCEPT ![at[r]].dest = pick[r], ![at[r]].payload = pick[r]]
  /\ crossed' = IF Looking(at[r]) \ {r} = {} THEN crossed ELSE crossed \union {at[r]}
  /\ Advance(r)
  /\ UNCHANGED <<itemVars, records, selected, overlapped>>

\* Mutant: the status is not checked.
Approve_AnyStatus(r) ==
  /\ Calls(r, "approve")
  /\ route' = [route EXCEPT ![at[r]].status = "approved"]
  /\ Advance(r)
  /\ UNCHANGED <<itemVars, records, selected, overlapped, crossed>>

Approve(r) ==
  /\ Calls(r, "approve") /\ route[at[r]].status = "pending"
  /\ route' = [route EXCEPT ![at[r]].status = "approved"]
  /\ Advance(r)
  /\ UNCHANGED <<itemVars, records, selected, overlapped, crossed>>

\* The row of an item that synthesis has archived stays locked until it commits.
Routed(i, how) == i \notin archiving /\ item' = [item EXCEPT ![i].routing = how]

Reject(r) ==
  /\ Calls(r, "reject") /\ route[at[r]].status \in {"pending", "approved"}
  /\ route' = [route EXCEPT ![at[r]].status = "rejected"]
  /\ Routed(ItemOf(at[r]), "ignored")
  /\ Answered(r)
  /\ UNCHANGED <<archiving, refresh, synthesizing, records, selected, overlapped, crossed>>

\* getNextPrefixedId: one more than the largest committed id, or 1.
IdsOf(t) == {c.id : c \in {c \in records : c.table = t}}
NextIds(t) == {n \in {1} \union {m + 1 : m \in IdsOf(t)} : \A m \in IdsOf(t) : m < n}

\* Mutant: a second apply is taken for a retry of the first.
ApplyLock_Again(r) ==
  /\ Calls(r, "apply") /\ route[at[r]].status \in {"approved", "applied"}
  /\ todo' = [todo EXCEPT ![r] = <<"insert">>]
  /\ \E n \in IF route[at[r]].dest = Shelf THEN {0} ELSE NextIds(route[at[r]].dest) :
       newId' = [newId EXCEPT ![r] = n]
  /\ UNCHANGED <<itemVars, route, records, selected, at, pick, overlapped, crossed>>

ApplyLock(r) ==
  /\ Calls(r, "apply") /\ route[at[r]].status = "approved"
  /\ todo' = [todo EXCEPT ![r] = <<"insert">>]
  /\ \E n \in IF route[at[r]].dest = Shelf THEN {0} ELSE NextIds(route[at[r]].dest) :
       newId' = [newId EXCEPT ![r] = n]
  /\ UNCHANGED <<itemVars, route, records, selected, at, pick, overlapped, crossed>>

Taken(t, n) == \E c \in records : c.table = t /\ c.id = n

\* The item's routing status comes from the payload, the table from the row.
Outcomes(x) == IF route[x].payload = Shelf THEN {"ignored", "snoozed"} ELSE {"routed"}

ApplyCommit(r) ==
  LET x == at[r]  t == route[x].dest IN
  /\ todo[r] = <<"insert">>
  /\ \/ t = Shelf /\ UNCHANGED records
     \/ /\ t # Shelf /\ ~Taken(t, newId[r])
        /\ records' = records \union {[table |-> t, id |-> newId[r], route |-> x]}
  /\ route' = [route EXCEPT ![x].status = "applied"]
  /\ \E how \in Outcomes(x) : Routed(ItemOf(x), how)
  /\ Answered(r)
  /\ UNCHANGED <<archiving, refresh, synthesizing, selected, overlapped, crossed>>

\* Another route's record took the id: unique violation, all is rolled back.
ApplyCollides(r) ==
  /\ todo[r] = <<"insert">>
  /\ route[at[r]].dest # Shelf /\ Taken(route[at[r]].dest, newId[r])
  /\ Answered(r)
  /\ UNCHANGED <<itemVars, route, records, selected, overlapped, crossed>>

ReviewFails(r) ==
  /\ todo[r] # <<>>
  /\ Answered(r)
  /\ UNCHANGED <<itemVars, route, records, selected, overlapped, crossed>>

-----------------------------------------------------------------------------
Synthesis == (\E found \in Refreshes : SynthesisArchive(found)) \/ SynthesisCommit \/ SynthesisFails
Propose(p) == ProposeSelect(p) \/ ProposeCommit(p) \/ ProposeFails(p)
ReviewStep(r) == Refused(r) \/ Reroute(r) \/ Approve(r) \/ Reject(r) \/ ApplyLock(r)
                   \/ ApplyCommit(r) \/ ApplyCollides(r)

Next ==
  \/ Synthesis
  \/ \E p \in Proposers : Propose(p)
  \/ \E r \in Reviewers : ReviewStep(r) \/ ReviewFails(r) \/ \E x \in RouteIds : ReviewRead(r, x)

Spec == Init /\ [][Next]_vars

-----------------------------------------------------------------------------
(* Properties *)

\* An item is asked about once: as long as no proposal and no refresh ran side
\* by side, it never gets a second route, whatever synthesis makes of it
\* later and however its route was answered.
OneRoutePerItem ==
  ~overlapped =>
    \A x, y \in RouteIds :
      /\ ItemOf(x) = ItemOf(y)
      /\ route[x].status # "none" /\ route[y].status # "none"
      => x = y

\* The verifier's count of guarded routes with active items: a refresh never
\* archives the item of a route that waits or was applied.
RoutedItemsStay ==
  ~overlapped =>
    \A x \in RouteIds : route[x].status \in Guarded => item[ItemOf(x)].active

\* A route creates its record once: ids are not reused, and a route has a
\* record if and only if it was applied to a table, although two requests may
\* apply it, or compute one id for two routes, at the same time.
OneRecordPerRoute ==
  /\ \A c, e \in records : (c.table = e.table /\ c.id = e.id) \/ c.route = e.route => c = e
  /\ \A x \in RouteIds :
       route[x].status = "applied" /\ route[x].dest # Shelf
         <=> \E c \in records : c.route = x /\ c.table = route[x].dest

\* An answer is final: no proposal, however late, reopens a rejected or applied
\* route, moves it or replaces its payload, although its row is still written.
AnswersAreFinal ==
  [][\A x \in RouteIds :
       route[x].status \in {"rejected", "applied"} => route'[x] = route[x]]_vars

\* What a request applies goes where its reviewer saw or chose it to go,
\* unless somebody changed the route between that look and the approval; and
\* its payload was made for that place, unless a second proposal, selected
\* before the first was committed, put the first payload back after a reroute.
AppliedAsReviewed ==
  [][\A r \in Reviewers, x \in RouteIds :
       /\ at[r] = x /\ todo[r] = <<"insert">> /\ x \notin crossed
       /\ route[x].status # "applied" /\ route'[x].status = "applied"
       => route[x].dest = pick[r] /\ (overlapped \/ route[x].payload = pick[r])]_vars

\* With its concurrent proposals, refreshes and requests the router behaves as
\* a book of routes in which one thing happens at a time.
Book == INSTANCE RouteBook WITH
  status <- [x \in RouteIds |-> route[x].status],
  place <- [x \in RouteIds |-> route[x].dest],
  made <- {<<c.route, c.table>> : c \in records},
  raced <- overlapped
ImplementsBook == Book!Spec
=============================================================================
