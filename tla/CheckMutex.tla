----------------------------- MODULE CheckMutex -----------------------------
(***************************************************************************)
(* What the lock of the heavy Foundation checks promises, without          *)
(* directories, owner files, clocks or pids: one check at a time, besides  *)
(* the guests its own operation has spawned, and nobody enters before the  *)
(* last of them has left.  The promise is void once it has been broken by  *)
(* what the lock does not withstand.                                       *)
(***************************************************************************)
CONSTANT Checks

VARIABLES
  owners,   \* the checks that have entered by themselves
  guests,   \* pairs of a check and the owner that has let it in
  broken    \* the promise does not hold any longer

mutexVars == <<owners, guests, broken>>

Init ==
  /\ owners = {}
  /\ guests = {}
  /\ broken = FALSE

Enter(p) ==
  /\ owners = {} /\ guests = {}
  /\ owners' = {p}
  /\ UNCHANGED <<guests, broken>>

Admit(c, p) ==
  /\ p \in owners /\ c # p
  /\ guests' = guests \union {<<c, p>>}
  /\ UNCHANGED <<owners, broken>>

Leave(c, p) ==
  /\ <<c, p>> \in guests
  /\ guests' = guests \ {<<c, p>>}
  /\ UNCHANGED <<owners, broken>>

\* The owner leaves after its guests.
Exit(p) ==
  /\ p \in owners /\ guests = {}
  /\ owners' = owners \ {p}
  /\ UNCHANGED <<guests, broken>>

Break ==
  /\ broken'
  /\ owners' \subseteq Checks
  /\ guests' \subseteq Checks \X Checks

Next ==
  \/ \E p \in Checks : Enter(p) \/ Exit(p)
  \/ \E c, p \in Checks : Admit(c, p) \/ Leave(c, p)
  \/ Break

Spec == Init /\ [][Next]_mutexVars
=============================================================================
