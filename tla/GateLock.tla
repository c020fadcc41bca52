------------------------------ MODULE GateLock ------------------------------
(***************************************************************************)
(* The local lock that serializes the database-heavy Foundation checks,    *)
(* src/lib/foundation-gate-check-serialization.js: a directory made with   *)
(* mkdir, an owner file written into it by a second call, re-entry with a  *)
(* token inherited through the environment, and removal of a lock that     *)
(* looks stale.  A check is one process; each await is one step.  Any      *)
(* check may be killed between two steps, and a check the owner spawned    *)
(* may outlive it.                                                         *)
(***************************************************************************)
EXTENDS Integers, FiniteSets

CONSTANTS
  Checks,    \* the processes of the four heavy checks
  NoCheck,   \* no process: no parent, no inherited token
  Parent,    \* the check whose operation spawns this one, or NoCheck
  Timeout,   \* timeoutMs, in ticks
  Stale,     \* staleMs, in ticks
  LastTick   \* bound: the clock stops there

ASSUME GateAssumption ==
  /\ NoCheck \notin Checks
  /\ Parent \in [Checks -> Checks \union {NoCheck}]
  /\ Timeout \in Nat /\ Stale \in Nat /\ LastTick \in Nat

VARIABLES
  pc,         \* each check's next step
  lock,       \* the directory: who made it and what its owner file says
  since,      \* when a check began to wait; from its mkdir on, acquiredAt
  inherited,  \* the owner token in a check's environment at its start
  pids,       \* checks whose pid answers signal 0
  now,        \* the clock
  provoked    \* history: what happened that the lock does not withstand

vars == <<pc, lock, since, inherited, pids, now, provoked>>

Ticks == 0 .. LastTick

\* A token is a random UUID drawn by the check that made the directory, so it
\* is named by that check, and so is the pid in the owner file.
Owners == [check : Checks, at : Ticks]
NoOwner == [check |-> NoCheck, at |-> 0]
Absent == [maker |-> NoCheck, owner |-> NoOwner]
Locks == {Absent} \union [maker : Checks, owner : Owners \union {NoOwner}]

Contending == {"trying", "found", "judging", "removing", "sleeping"}
Holding == {"made", "holding"}
Live == Contending \union Holding \union {"reentered"}

TypeOK ==
  /\ pc \in [Checks -> Live \union {"idle", "done", "failed", "dead"}]
  /\ lock \in Locks
  /\ since \in [Checks -> Ticks]
  /\ inherited \in [Checks -> Checks \union {NoCheck}]
  /\ pids \subseteq Checks
  /\ now \in Ticks
  /\ provoked \subseteq {"gap", "dead", "old", "orphan"}

Init ==
  /\ pc = [p \in Checks |-> "idle"]
  /\ lock = Absent
  /\ since = [p \in Checks |-> 0]
  /\ inherited = [p \in Checks |-> NoCheck]
  /\ pids = Checks
  /\ now = 0
  /\ provoked = {}

Goto(p, here, there) == pc[p] = here /\ pc' = [pc EXCEPT ![p] = there]

\* The token a check's operation passes to what it spawns: lock.ownerToken.
Token(p) == IF pc[p] = "reentered" THEN inherited[p] ELSE p

-----------------------------------------------------------------------------
(* A check starts: from a shell or the ship gate, or spawned by the        *)
(* operation of a running check (foundation:verify spawns backlog:hygiene). *)

Start(p) ==
  /\ now + Timeout < LastTick
  /\ Goto(p, "idle", "trying")
  /\ since' = [since EXCEPT ![p] = now]
  /\ \/ Parent[p] = NoCheck /\ UNCHANGED inherited
     \/ /\ Parent[p] # NoCheck
        /\ pc[Parent[p]] \in {"holding", "reentered"}
        /\ inherited' = [inherited EXCEPT ![p] = Token(Parent[p])]
  /\ UNCHANGED <<lock, pids, now, provoked>>

-----------------------------------------------------------------------------
(* acquireFoundationHeavyGateCheckLock                                     *)

Expired(p) == now - since[p] > Timeout

GiveUp(p) ==
  /\ Expired(p)
  /\ Goto(p, "trying", "failed")
  /\ UNCHANGED <<lock, since, inherited, pids, now, provoked>>

\* Mutant: mkdir is recursive and takes a directory that is there.
Mkdir_Recursive(p) ==
  /\ ~ Expired(p)
  /\ Goto(p, "trying", "made")
  /\ lock' = [lock EXCEPT !.maker = p]
  /\ since' = [since EXCEPT ![p] = now]
  /\ UNCHANGED <<inherited, pids, now, provoked>>

Mkdir(p) ==
  /\ ~ Expired(p)
  /\ IF lock = Absent
     THEN /\ Goto(p, "trying", "made")
          /\ lock' = [lock EXCEPT !.maker = p]
          /\ since' = [since EXCEPT ![p] = now]
     ELSE Goto(p, "trying", "found") /\ UNCHANGED <<lock, since>>
  /\ UNCHANGED <<inherited, pids, now, provoked>>

\* The owner file overwrites whatever is there; without the directory the
\* call throws ENOENT, which is not EEXIST, and the check fails.
WriteOwner(p) ==
  /\ IF lock = Absent
     THEN Goto(p, "made", "failed") /\ UNCHANGED lock
     ELSE /\ Goto(p, "made", "holding")
          /\ lock' = [lock EXCEPT !.owner = [check |-> p, at |-> since[p]]]
  /\ UNCHANGED <<since, inherited, pids, now, provoked>>

Owned == lock.owner # NoOwner

\* Mutant: any inherited token will do.
CanReenter_AnyToken(p) == Owned /\ inherited[p] # NoCheck
\* Mutant: an inherited token does not let a child in.
CanReenter_Never(p) == FALSE

CanReenter(p) == Owned /\ inherited[p] = lock.owner.check

ReadOwner(p) ==
  /\ Goto(p, "found", IF CanReenter(p) THEN "reentered" ELSE "judging")
  /\ UNCHANGED <<lock, since, inherited, pids, now, provoked>>

-----------------------------------------------------------------------------
(* removeLockDirIfStale: the owner file is read a second time; the removal *)
(* is a later call and does not look again.                                *)

OwnerAlive == Owned /\ lock.owner.check \in pids
Old == Owned /\ now - lock.owner.at > Stale

\* Mutant: only the age decides.
LooksStale_ByAge == ~ Owned \/ Old
LooksStale == ~ OwnerAlive \/ Old

Judge(p) ==
  /\ Goto(p, "judging", IF LooksStale THEN "removing" ELSE "sleeping")
  /\ provoked' = provoked \union (IF Owned THEN {} ELSE {"gap"})
                          \union (IF Old THEN {"old"} ELSE {})
  /\ UNCHANGED <<lock, since, inherited, pids, now>>

Remove(p) ==
  /\ Goto(p, "removing", "trying")
  /\ lock' = Absent
  /\ UNCHANGED <<since, inherited, pids, now, provoked>>

\* Mutant: each turn of the loop starts the wait anew.
Wake_Restarts(p) ==
  /\ Goto(p, "sleeping", "trying")
  /\ since' = [since EXCEPT ![p] = now]
  /\ UNCHANGED <<lock, inherited, pids, now, provoked>>

Wake(p) ==
  /\ Goto(p, "sleeping", "trying")
  /\ UNCHANGED <<lock, since, inherited, pids, now, provoked>>

-----------------------------------------------------------------------------
(* The finally block of runSerializedFoundationGateCheck, whether the      *)
(* operation returned or threw.  foundation:verify does not wait for the   *)
(* check it spawned when another of its health scripts has failed.         *)

Release(p) ==
  /\ Goto(p, "holding", "done")
  /\ lock' = Absent
  /\ pids' = pids \ {p}
  /\ provoked' = provoked \union
       IF \E c \in Checks : pc[c] = "reentered" /\ inherited[c] = p
       THEN {"orphan"} ELSE {}
  /\ UNCHANGED <<since, inherited, now>>

Leave(p) ==
  /\ Goto(p, "reentered", "done")
  /\ pids' = pids \ {p}
  /\ UNCHANGED <<lock, since, inherited, now, provoked>>

-----------------------------------------------------------------------------
(* A killed check leaves its directory; its pid may be given at once to a  *)
(* process that outlives everything here.                                  *)

Die(p) ==
  /\ pc[p] \in Live
  /\ pc' = [pc EXCEPT ![p] = "dead"]
  /\ \/ pids' = pids \ {p}
     \/ UNCHANGED pids
  /\ provoked' = provoked \union {"dead"}
  /\ UNCHANGED <<lock, since, inherited, now>>

Tick ==
  /\ now < LastTick
  /\ now' = now + 1
  /\ UNCHANGED <<pc, lock, since, inherited, pids, provoked>>

-----------------------------------------------------------------------------
Acquire(p) == GiveUp(p) \/ Mkdir(p) \/ WriteOwner(p) \/ ReadOwner(p)
                \/ Judge(p) \/ Remove(p) \/ Wake(p)
Step(p) == Acquire(p) \/ Release(p) \/ Leave(p)

Next == (\E p \in Checks : Start(p) \/ Step(p) \/ Die(p)) \/ Tick

Spec == Init /\ [][Next]_vars
\* A process that is not killed is scheduled, an operation ends, time passes.
FairSpec == Spec /\ WF_vars(Tick) /\ \A p \in Checks : WF_vars(Step(p))

-----------------------------------------------------------------------------
Running == {p \in Checks : pc[p] \in {"holding", "reentered"}}
Exclusive == \A p, q \in Running : Token(p) = Token(q)

\* Two heavy checks that do not share an owner run at the same time only
\* after one of four things: a contender found the directory without its
\* owner file (it was being made, or just released), a check was killed, a
\* lock grew older than staleMs, or an owner released while a check it had
\* let in was still running.
OverlapIsProvoked == provoked = {} => Exclusive

\* A check spawned by the running owner never waits for its own parent:
\* until one of those four things has happened it does not even sleep.
ChildPassesItsParent ==
  \A c \in Checks :
    /\ inherited[c] # NoCheck
    /\ pc[inherited[c]] = "holding"
    /\ provoked = {}
    => pc[c] \notin {"judging", "removing", "sleeping"}

\* A contender that finds the lock of a dead process gets it out of the way,
\* or enters as that process's child, or is killed: it never gives up on it,
\* however young the lock is.
DeadLock(q) == lock.owner.check = q /\ pc[q] = "dead" /\ q \notin pids
DeadLockIsCleared ==
  \A p, q \in Checks :
    pc[p] = "found" /\ DeadLock(q)
      ~> ~ DeadLock(q) \/ pc[p] \in {"reentered", "dead"}

\* Every contender runs, gives up or dies: the removal loop, which does not
\* sleep, cannot keep one busy for ever.
ContenderSettles ==
  \A p \in Checks : pc[p] = "trying" ~> pc[p] \notin Contending

\* Until it is provoked the directory with its owner file is a mutual
\* exclusion with guests: a check enters an empty lock, its children enter by
\* its token, and it leaves after them.
Mutex == INSTANCE CheckMutex WITH
  owners <- {p \in Checks : pc[p] = "holding"},
  guests <- {<<c, inherited[c]>> : c \in {c \in Checks : pc[c] = "reentered"}},
  broken <- provoked # {}
ImplementsMutex == Mutex!Spec

\* The plan's claim: "Concurrent heavy proof attempts serialize locally and
\* do not overlap."  Checked on two checks that nobody kills and that release
\* before their lock is old.
ChecksDoNotOverlap ==
  provoked \intersect {"dead", "old", "orphan"} = {} => Exclusive
=============================================================================
