----------------------------- MODULE RouteBook -----------------------------
(***************************************************************************)
(* What the action router promises the people who review: an item is asked *)
(* about once, a route waits until it is approved or rejected, only an     *)
(* approved route is applied, and applying it makes its record, in the     *)
(* place it had when it was approved, in the same step.  Transactions,     *)
(* requests, payloads and record ids are no part of it.                    *)
(***************************************************************************)
CONSTANTS
  Items,      \* what routes are about
  Variants,   \* what may be proposed for an item
  Tables,     \* where records are made
  Shelf       \* the place of routes that make none

VARIABLES
  status,     \* a route's state
  place,      \* where it will make its record
  made,       \* records: pairs of a route and a table
  raced       \* proposals have overlapped, items may be asked about again

bookVars == <<status, place, made, raced>>

Routes == Items \X Variants
Places == Tables \union {Shelf}

Init ==
  /\ status = [x \in Routes |-> "none"]
  /\ place = [x \in Routes |-> Shelf]
  /\ made = {}
  /\ raced = FALSE

\* New routes, one for each item, of items that have none.
Propose(S) ==
  /\ \A x \in S : status[x] = "none"
  /\ \/ raced
     \/ \A x \in S, y \in Routes : x[1] = y[1] /\ (y \in S \/ status[y] # "none") => x = y
  /\ status' = [x \in Routes |-> IF x \in S THEN "pending" ELSE status[x]]
  /\ place' \in [Routes -> Places] /\ \A x \in Routes \ S : place'[x] = place[x]
  /\ UNCHANGED <<made, raced>>

Redirect(x, d) ==
  /\ status[x] = "pending"
  /\ place' = [place EXCEPT ![x] = d]
  /\ UNCHANGED <<status, made, raced>>

Approve(x) ==
  /\ status[x] = "pending"
  /\ status' = [status EXCEPT ![x] = "approved"]
  /\ UNCHANGED <<place, made, raced>>

Reject(x) ==
  /\ status[x] \in {"pending", "approved"}
  /\ status' = [status EXCEPT ![x] = "rejected"]
  /\ UNCHANGED <<place, made, raced>>

Apply(x) ==
  /\ status[x] = "approved"
  /\ status' = [status EXCEPT ![x] = "applied"]
  /\ made' = IF place[x] = Shelf THEN made ELSE made \union {<<x, place[x]>>}
  /\ UNCHANGED <<place, raced>>

Race == raced' /\ UNCHANGED <<status, place, made>>

Next ==
  \/ \E S \in SUBSET Routes : Propose(S)
  \/ \E x \in Routes, d \in Places : Redirect(x, d)
  \/ \E x \in Routes : Approve(x) \/ Reject(x) \/ Apply(x)
  \/ Race

Spec == Init /\ [][Next]_bookVars
=============================================================================
