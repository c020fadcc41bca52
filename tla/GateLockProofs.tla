--------------------------- MODULE GateLockProofs ---------------------------
(***************************************************************************)
(* What the lock directory of the heavy checks guarantees for any number   *)
(* of checks, any tree of spawned checks and any timeouts.                 *)
(***************************************************************************)
EXTENDS GateLock, TLAPS

USE GateAssumption

\* Only a check that has come to its end may have lost its pid, and who was
\* let in has a token.
ProcessOK ==
  /\ \A p \in Checks : pc[p] \in Live \union {"idle"} => p \in pids
  /\ \A p \in Checks : pc[p] = "reentered" => inherited[p] \in Checks

\* A token that was passed on is that of a check that had written its owner
\* file by then.
TokenOK ==
  \A p \in Checks :
    inherited[p] # NoCheck => pc[inherited[p]] \in {"holding", "done", "dead"}

\* As long as nothing has provoked an overlap the directory tells the truth:
\* whoever has made it and not left is its maker, its owner file names
\* nobody but a check that holds it, and nobody is about to remove it.
LockOK ==
  provoked = {} =>
    /\ \A p \in Checks : pc[p] \in Holding => lock.maker = p
    /\ \A p \in Checks : pc[p] = "made" => lock.owner = NoOwner
    /\ \A p \in Checks : pc[p] = "holding" <=> lock.owner.check = p
    /\ \A p \in Checks : pc[p] = "reentered" => pc[inherited[p]] = "holding"
    /\ \A p \in Checks : pc[p] # "removing"

GateInv == TypeOK /\ ProcessOK /\ TokenOK /\ LockOK /\ ChildPassesItsParent

-----------------------------------------------------------------------------

LEMMA LockParts ==
  ASSUME lock \in Locks
  PROVE  /\ lock.maker \in Checks \union {NoCheck}
         /\ lock.owner \in Owners \union {NoOwner}
         /\ lock.owner.check \in Checks \union {NoCheck}
         /\ Owned <=> lock.owner.check \in Checks
         /\ Owned => lock.owner.at \in Ticks
         /\ lock.maker = NoCheck <=> lock = Absent
BY DEF Locks, Absent, Owners, NoOwner, Owned

\* Every variable keeps its type.
LEMMA TypeStep ==
  ASSUME TypeOK, [Next]_vars
  PROVE  TypeOK'
<1> USE DEF TypeOK, Goto, Live, Contending, Holding
<1>1. ASSUME NEW p \in Checks, Start(p) PROVE TypeOK'
  BY <1>1 DEF Start, Token
<1>2. ASSUME NEW p \in Checks, GiveUp(p) PROVE TypeOK'
  BY <1>2 DEF GiveUp
<1>3. ASSUME NEW p \in Checks, Mkdir(p) PROVE TypeOK'
  <2>1. CASE lock = Absent
    <3>1. lock' \in Locks
      BY <1>3, <2>1 DEF Mkdir, Locks, Absent
    <3> QED BY <1>3, <2>1, <3>1 DEF Mkdir
  <2>2. CASE lock # Absent
    BY <1>3, <2>2 DEF Mkdir
  <2> QED BY <2>1, <2>2
<1>4. ASSUME NEW p \in Checks, WriteOwner(p) PROVE TypeOK'
  <2>1. CASE lock = Absent
    BY <1>4, <2>1 DEF WriteOwner
  <2>2. CASE lock # Absent
    <3>1. lock' \in Locks
      BY <1>4, <2>2 DEF WriteOwner, Locks, Owners
    <3> QED BY <1>4, <2>2, <3>1 DEF WriteOwner
  <2> QED BY <2>1, <2>2
<1>5. ASSUME NEW p \in Checks, ReadOwner(p) PROVE TypeOK'
  BY <1>5 DEF ReadOwner
<1>6. ASSUME NEW p \in Checks, Judge(p) PROVE TypeOK'
  BY <1>6 DEF Judge
<1>7. ASSUME NEW p \in Checks, Remove(p) \/ Release(p) PROVE TypeOK'
  <2>1. lock' \in Locks
    BY <1>7 DEF Remove, Release, Locks
  <2> QED BY <1>7, <2>1 DEF Remove, Release
<1>8. ASSUME NEW p \in Checks, Wake(p) \/ Leave(p) \/ Die(p) PROVE TypeOK'
  BY <1>8 DEF Wake, Leave, Die
<1>9. CASE Tick
  BY <1>9 DEF Tick, Ticks
<1>10. CASE UNCHANGED vars
  BY <1>10 DEF vars
<1> QED
  BY <1>1, <1>2, <1>3, <1>4, <1>5, <1>6, <1>7, <1>8, <1>9, <1>10
  DEF Next, Step, Acquire

LEMMA InitGateInv == Init => GateInv
BY DEF Init, GateInv, TypeOK, ProcessOK, TokenOK, LockOK, ChildPassesItsParent,
       Locks, Absent, NoOwner, Ticks, Live, Contending, Holding

\* The processes' facts do not depend on what has been provoked.
LEMMA ProcessStep ==
  ASSUME TypeOK, ProcessOK, TokenOK, LockOK, [Next]_vars
  PROVE  ProcessOK' /\ TokenOK'
<1> USE DEF TypeOK, ProcessOK, TokenOK, Goto, Live, Contending, Holding
<1>1. ASSUME NEW p \in Checks, Start(p) PROVE ProcessOK' /\ TokenOK'
  <2>1. inherited' = inherited \/ inherited' = [inherited EXCEPT ![p] = Token(Parent[p])]
    BY <1>1 DEF Start
  <2>2. inherited'[p] = inherited[p] \/ pc[inherited'[p]] \in {"holding", "done", "dead"}
    BY <1>1 DEF Start, Token
  <2> QED BY <1>1, <2>1, <2>2 DEF Start
<1>2. ASSUME NEW p \in Checks, GiveUp(p) \/ Mkdir(p) \/ WriteOwner(p) \/ Judge(p) \/ Remove(p)
                                 \/ Wake(p)
      PROVE ProcessOK' /\ TokenOK'
  BY <1>2 DEF GiveUp, Mkdir, WriteOwner, Judge, Remove, Wake
<1>3. ASSUME NEW p \in Checks, ReadOwner(p) PROVE ProcessOK' /\ TokenOK'
  <2>1. CanReenter(p) => inherited[p] \in Checks
    BY LockParts DEF CanReenter
  <2> QED BY <1>3, <2>1 DEF ReadOwner
<1>4. ASSUME NEW p \in Checks, Release(p) \/ Leave(p) \/ Die(p) PROVE ProcessOK' /\ TokenOK'
  BY <1>4 DEF Release, Leave, Die
<1>5. CASE Tick \/ UNCHANGED vars
  BY <1>5 DEF Tick, vars
<1> QED
  BY <1>1, <1>2, <1>3, <1>4, <1>5 DEF Next, Step, Acquire

\* The owner of an unprovoked lock is alive and its lock is young, so nobody
\* judges it stale.
LEMMA UnprovokedJudge ==
  ASSUME TypeOK, ProcessOK, LockOK, NEW p \in Checks, Judge(p), provoked' = {}
  PROVE  pc' = [pc EXCEPT ![p] = "sleeping"]
<1>1. provoked = {} /\ Owned /\ ~ Old
  BY DEF Judge
<1>2. lock.owner.check \in Checks
  BY <1>1, LockParts DEF TypeOK
<1>3. lock.owner.check \in pids
  BY <1>1, <1>2 DEF LockOK, ProcessOK, Live, Holding
<1> QED BY <1>1, <1>3 DEF Judge, Goto, LooksStale, OwnerAlive

LEMMA LockStep ==
  ASSUME TypeOK, ProcessOK, TokenOK, LockOK, [Next]_vars
  PROVE  LockOK'
<1> SUFFICES ASSUME provoked' = {}
             PROVE  LockOK'
  BY DEF LockOK
<1>0. /\ provoked = {}
      /\ \A p \in Checks : pc[p] \in Holding => lock.maker = p
      /\ \A p \in Checks : pc[p] = "made" => lock.owner = NoOwner
      /\ \A p \in Checks : pc[p] = "holding" <=> lock.owner.check = p
      /\ \A p \in Checks : pc[p] = "reentered" => pc[inherited[p]] = "holding"
      /\ \A p \in Checks : pc[p] # "removing"
  <2>1. provoked \subseteq provoked'
    BY DEF Next, Step, Acquire, Start, GiveUp, Mkdir, WriteOwner, ReadOwner, Judge, Remove,
           Wake, Release, Leave, Die, Tick, vars
  <2> QED BY <2>1 DEF LockOK
<1> USE DEF TypeOK, Goto, Holding, LockOK
<1>1. ASSUME NEW p \in Checks, Start(p) PROVE LockOK'
  <2>1. \A q \in Checks \ {p} : pc'[q] = pc[q] /\ inherited'[q] = inherited[q]
    BY <1>1 DEF Start
  <2>2. pc[p] = "idle" /\ pc'[p] = "trying" /\ lock' = lock
    BY <1>1 DEF Start
  <2>3. \A q \in Checks : pc[q] = "reentered" => inherited[q] \in Checks /\ inherited[q] # p
    BY <1>0, <2>2 DEF ProcessOK
  <2> QED BY <1>0, <2>1, <2>2, <2>3
<1>2. ASSUME NEW p \in Checks, GiveUp(p) \/ Wake(p) PROVE LockOK'
  <2>1. /\ \A q \in Checks \ {p} : pc'[q] = pc[q]
        /\ pc[p] \in Contending /\ pc'[p] \in {"failed", "trying"}
        /\ UNCHANGED <<lock, inherited>>
    BY <1>2 DEF GiveUp, Wake, Contending
  <2> QED BY <1>0, <2>1 DEF ProcessOK, Contending
<1>3. ASSUME NEW p \in Checks, Mkdir(p) PROVE LockOK'
  <2>1. CASE lock = Absent
    <3>1. \A q \in Checks : pc[q] \notin Holding
      BY <1>0, <2>1 DEF Absent
    <3>2. /\ pc' = [pc EXCEPT ![p] = "made"] /\ pc[p] = "trying"
          /\ lock'.maker = p /\ lock'.owner = NoOwner
          /\ UNCHANGED inherited
      BY <1>3, <2>1 DEF Mkdir, Absent
    <3>3. lock'.owner.check = NoCheck
      BY <3>2 DEF NoOwner
    <3> QED BY <1>0, <3>1, <3>2, <3>3 DEF ProcessOK
  <2>2. CASE lock # Absent
    <3>1. pc' = [pc EXCEPT ![p] = "found"] /\ pc[p] = "trying" /\ UNCHANGED <<lock, inherited>>
      BY <1>3, <2>2 DEF Mkdir
    <3> QED BY <1>0, <3>1 DEF ProcessOK
  <2> QED BY <2>1, <2>2
<1>4. ASSUME NEW p \in Checks, WriteOwner(p) PROVE LockOK'
  <2>1. pc[p] = "made" /\ lock.maker = p /\ lock # Absent
    BY <1>0, <1>4, LockParts DEF WriteOwner
  <2>2. /\ pc' = [pc EXCEPT ![p] = "holding"] /\ UNCHANGED inherited
        /\ lock'.maker = p /\ lock'.owner.check = p
    BY <1>4, <2>1 DEF WriteOwner, Locks, Absent
  <2>3. \A q \in Checks \ {p} : pc[q] \notin Holding
    BY <1>0, <2>1
  <2> QED BY <1>0, <2>1, <2>2, <2>3 DEF ProcessOK
<1>5. ASSUME NEW p \in Checks, ReadOwner(p) PROVE LockOK'
  <2>1. pc[p] = "found" /\ UNCHANGED <<lock, inherited>>
    BY <1>5 DEF ReadOwner
  <2>2. CASE CanReenter(p)
    <3>1. pc' = [pc EXCEPT ![p] = "reentered"]
      BY <1>5, <2>2 DEF ReadOwner
    <3>2. inherited[p] \in Checks /\ pc[inherited[p]] = "holding"
      BY <1>0, <2>2, LockParts DEF CanReenter
    <3> QED BY <1>0, <2>1, <3>1, <3>2 DEF ProcessOK
  <2>3. CASE ~ CanReenter(p)
    <3>1. pc' = [pc EXCEPT ![p] = "judging"]
      BY <1>5, <2>3 DEF ReadOwner
    <3> QED BY <1>0, <2>1, <3>1 DEF ProcessOK
  <2> QED BY <2>2, <2>3
<1>6. ASSUME NEW p \in Checks, Judge(p) PROVE LockOK'
  <2>1. pc' = [pc EXCEPT ![p] = "sleeping"] /\ pc[p] = "judging" /\ UNCHANGED <<lock, inherited>>
    BY <1>6, UnprovokedJudge DEF Judge
  <2> QED BY <1>0, <2>1 DEF ProcessOK
<1>7. ASSUME NEW p \in Checks, Remove(p) PROVE LockOK'
  BY <1>0, <1>7 DEF Remove
<1>8. ASSUME NEW p \in Checks, Release(p) PROVE LockOK'
  <2>1. /\ pc[p] = "holding" /\ pc' = [pc EXCEPT ![p] = "done"]
        /\ lock' = Absent /\ UNCHANGED inherited
        /\ \A c \in Checks : pc[c] = "reentered" => inherited[c] # p
    BY <1>8 DEF Release
  <2>2. \A q \in Checks \ {p} : pc[q] \notin Holding
    BY <1>0, <2>1
  <2>3. \A c \in Checks : pc[c] # "reentered"
    BY <1>0, <2>1, <2>2 DEF ProcessOK
  <2> QED BY <1>0, <2>1, <2>2, <2>3 DEF Absent, NoOwner
<1>9. ASSUME NEW p \in Checks, Leave(p) PROVE LockOK'
  <2>1. /\ pc[p] = "reentered" /\ pc' = [pc EXCEPT ![p] = "done"]
        /\ UNCHANGED <<lock, inherited>>
    BY <1>9 DEF Leave
  <2> QED BY <1>0, <2>1 DEF ProcessOK
<1>10. ASSUME NEW p \in Checks, Die(p) PROVE LockOK'
  BY <1>10 DEF Die
<1>11. CASE Tick \/ UNCHANGED vars
  BY <1>0, <1>11 DEF Tick, vars
<1> QED
  BY <1>1, <1>2, <1>3, <1>4, <1>5, <1>6, <1>7, <1>8, <1>9, <1>10, <1>11
  DEF Next, Step, Acquire

\* While its parent holds the lock, and nothing was provoked, the owner file
\* names the parent, and the child goes from "found" straight in.
LEMMA ChildStep ==
  ASSUME TypeOK, ProcessOK, TokenOK, LockOK, ChildPassesItsParent, [Next]_vars
  PROVE  ChildPassesItsParent'
<1> SUFFICES ASSUME NEW c \in Checks, inherited'[c] # NoCheck,
                    pc'[inherited'[c]] = "holding", provoked' = {}
             PROVE  pc'[c] \notin {"judging", "removing", "sleeping"}
  BY DEF ChildPassesItsParent
<1>0. provoked = {}
  BY DEF Next, Step, Acquire, Start, GiveUp, Mkdir, WriteOwner, ReadOwner, Judge, Remove,
         Wake, Release, Leave, Die, Tick, vars
<1> DEFINE q == inherited[c]
<1>1. CASE pc'[c] = pc[c]
  <2>1. CASE inherited'[c] # inherited[c]
    BY <2>1 DEF Next, Step, Acquire, Start, GiveUp, Mkdir, WriteOwner, ReadOwner, Judge, Remove,
                Wake, Release, Leave, Die, Tick, vars, Goto, TypeOK
  <2>2. CASE inherited'[c] = q
    <3>1. q \in Checks /\ pc[q] \in {"holding", "done", "dead"}
      BY <2>2 DEF TokenOK, TypeOK
    <3>2. pc[q] = "holding"
      BY <2>2, <3>1 DEF Next, Step, Acquire, Start, GiveUp, Mkdir, WriteOwner, ReadOwner, Judge,
                Remove, Wake, Release, Leave, Die, Tick, vars, Goto, TypeOK
    <3> QED BY <1>0, <1>1, <2>2, <3>1, <3>2 DEF ChildPassesItsParent
  <2> QED BY <2>1, <2>2
<1>2. CASE pc'[c] # pc[c]
  <2>1. CASE ReadOwner(c)
    <3>1. inherited'[c] = q /\ q \in Checks
      BY <2>1 DEF ReadOwner, TypeOK
    <3>2. pc[q] = "holding"
      BY <2>1, <3>1 DEF ReadOwner, Goto, TypeOK
    <3>3. CanReenter(c)
      BY <1>0, <3>1, <3>2, LockParts DEF LockOK, CanReenter, TypeOK
    <3> QED BY <2>1, <3>3 DEF ReadOwner, Goto, TypeOK
  <2>2. CASE Judge(c)
    <3>1. pc[c] = "judging" /\ inherited'[c] = q /\ q \in Checks
      BY <2>2 DEF Judge, Goto, TypeOK
    <3>2. pc[q] = "holding"
      BY <2>2, <3>1 DEF Judge, Goto, TypeOK
    <3> QED BY <1>0, <3>1, <3>2 DEF ChildPassesItsParent
  <2>3. CASE ~ ReadOwner(c) /\ ~ Judge(c)
    BY <1>2, <2>3 DEF Next, Step, Acquire, Start, GiveUp, Mkdir, WriteOwner, ReadOwner, Judge,
                Remove, Wake, Release, Leave, Die, Tick, vars, Goto, TypeOK
  <2> QED BY <2>1, <2>2, <2>3
<1> QED BY <1>1, <1>2

-----------------------------------------------------------------------------
\* Every behaviour of the lock keeps the invariant.
THEOREM GateInvariant == Spec => []GateInv
<1>1. GateInv /\ [Next]_vars => GateInv'
  BY TypeStep, ProcessStep, LockStep, ChildStep DEF GateInv
<1> QED BY InitGateInv, <1>1, PTL DEF Spec

\* Every variable keeps its type, for any checks, timeouts and bounds.
THEOREM GateTypeCorrect == Spec => []TypeOK
<1>1. GateInv => TypeOK
  BY DEF GateInv
<1> QED BY GateInvariant, <1>1, PTL

\* Two heavy checks that do not share an owner run at the same time only
\* after a gap, a kill, an old lock or an orphan: with none of them every
\* running check holds the token in the owner file.
THEOREM OverlapProvoked == Spec => []OverlapIsProvoked
<1>1. GateInv => OverlapIsProvoked
  <2> SUFFICES ASSUME GateInv, provoked = {}, NEW p \in Running
               PROVE  Token(p) = lock.owner.check
    BY DEF OverlapIsProvoked, Exclusive
  <2> QED BY DEF GateInv, LockOK, ProcessOK, Running, Token
<1> QED BY GateInvariant, <1>1, PTL

\* A check spawned by the running owner never waits for its own parent.
THEOREM ChildPasses == Spec => []ChildPassesItsParent
<1>1. GateInv => ChildPassesItsParent
  BY DEF GateInv
<1> QED BY GateInvariant, <1>1, PTL

-----------------------------------------------------------------------------
(* The mutual exclusion that the directory implements.                     *)

Inside == {p \in Checks : pc[p] = "holding"}
LetIn == {<<c, inherited[c]>> : c \in {c \in Checks : pc[c] = "reentered"}}

\* A step that lets nobody in or out is a stutter of the mutual exclusion.
LEMMA MutexStutters ==
  ASSUME TypeOK, provoked = {}, provoked' = {}, NEW p \in Checks,
         \A q \in Checks \ {p} : pc'[q] = pc[q] /\ inherited'[q] = inherited[q],
         pc[p] \notin {"holding", "reentered"}, pc'[p] \notin {"holding", "reentered"}
  PROVE  UNCHANGED Mutex!mutexVars
<1>1. Inside' = Inside
  BY DEF Inside
<1>2. LetIn' = LetIn
  BY DEF LetIn
<1> QED BY <1>1, <1>2 DEF Mutex!mutexVars, Inside, LetIn

LEMMA MutexStep ==
  ASSUME GateInv, GateInv', [Next]_vars
  PROVE  [Mutex!Next]_(Mutex!mutexVars)
<1> USE DEF Goto
<1>1. CASE provoked' # {}
  <2>1. Inside' \subseteq Checks /\ LetIn' \subseteq Checks \X Checks
    BY DEF Inside, LetIn, GateInv, ProcessOK
  <2> QED BY <1>1, <2>1 DEF Mutex!Next, Mutex!Break, Inside, LetIn
<1>2. CASE provoked' = {}
  <2>0. /\ TypeOK /\ TypeOK' /\ provoked = {} /\ ProcessOK
        /\ \A p \in Checks : pc[p] \in Holding => lock.maker = p
        /\ \A p \in Checks : pc[p] = "reentered" => pc[inherited[p]] = "holding"
    <3>1. provoked \subseteq provoked'
      BY DEF Next, Step, Acquire, Start, GiveUp, Mkdir, WriteOwner, ReadOwner, Judge, Remove,
             Wake, Release, Leave, Die, Tick, vars
    <3> QED BY <1>2, <3>1 DEF GateInv, LockOK
  <2>1. ASSUME NEW p \in Checks, WriteOwner(p) PROVE Mutex!Next
    <3>1. /\ pc[p] = "made" /\ lock.maker = p /\ pc' = [pc EXCEPT ![p] = "holding"]
          /\ UNCHANGED inherited
      <4>1. lock # Absent
        BY <2>0, <2>1, LockParts DEF WriteOwner, Holding, TypeOK
      <4> QED BY <2>0, <2>1, <4>1 DEF WriteOwner, Holding
    <3>2. Inside = {} /\ Inside' = {p}
      BY <2>0, <3>1 DEF Inside, Holding, TypeOK
    <3>3. LetIn = {} /\ LetIn' = {}
      BY <2>0, <3>1, <3>2 DEF LetIn, Inside, ProcessOK, TypeOK
    <3>4. Mutex!Enter(p)
      BY <1>2, <2>0, <3>2, <3>3 DEF Mutex!Enter, Inside, LetIn
    <3> QED BY <3>4 DEF Mutex!Next
  <2>2. ASSUME NEW p \in Checks, ReadOwner(p), CanReenter(p) PROVE Mutex!Next
    <3>1. /\ pc[p] = "found" /\ pc' = [pc EXCEPT ![p] = "reentered"] /\ UNCHANGED inherited
      BY <2>2 DEF ReadOwner
    <3>2. inherited[p] \in Checks /\ pc[inherited[p]] = "holding"
      BY <2>0, <2>2, <3>1, LockParts DEF CanReenter, TypeOK, GateInv, LockOK
    <3>3. Inside' = Inside /\ inherited[p] \in Inside /\ p # inherited[p]
      BY <2>0, <3>1, <3>2 DEF Inside, TypeOK
    <3>4. LetIn' = LetIn \union {<<p, inherited[p]>>}
      BY <2>0, <3>1 DEF LetIn, TypeOK
    <3>5. PICK q \in Checks : q = inherited[p]
      BY <3>2
    <3>6. Mutex!Admit(p, q)
      BY <1>2, <2>0, <3>3, <3>4, <3>5 DEF Mutex!Admit, Inside, LetIn
    <3> QED BY <3>6 DEF Mutex!Next
  <2>3. ASSUME NEW p \in Checks, Release(p) PROVE Mutex!Next
    <3>1. /\ pc[p] = "holding" /\ pc' = [pc EXCEPT ![p] = "done"] /\ UNCHANGED inherited
          /\ \A c \in Checks : pc[c] = "reentered" => inherited[c] # p
      BY <1>2, <2>3 DEF Release
    <3>2. Inside = {p} /\ Inside' = {}
      BY <2>0, <3>1 DEF Inside, Holding, TypeOK
    <3>3. LetIn = {} /\ LetIn' = {}
      BY <2>0, <3>1, <3>2 DEF LetIn, Inside, ProcessOK, TypeOK
    <3>4. Mutex!Exit(p)
      BY <1>2, <2>0, <3>2, <3>3 DEF Mutex!Exit, Inside, LetIn
    <3> QED BY <3>4 DEF Mutex!Next
  <2>4. ASSUME NEW p \in Checks, Leave(p) PROVE Mutex!Next
    <3>1. pc[p] = "reentered" /\ pc' = [pc EXCEPT ![p] = "done"] /\ UNCHANGED inherited
      BY <2>4 DEF Leave
    <3>2. Inside' = Inside /\ inherited[p] \in Checks
      BY <2>0, <3>1 DEF Inside, ProcessOK, TypeOK
    <3>3. <<p, inherited[p]>> \in LetIn /\ LetIn' = LetIn \ {<<p, inherited[p]>>}
      BY <2>0, <3>1 DEF LetIn, TypeOK
    <3>4. PICK q \in Checks : q = inherited[p]
      BY <3>2
    <3>5. Mutex!Leave(p, q)
      BY <1>2, <2>0, <3>2, <3>3, <3>4 DEF Mutex!Leave, Inside, LetIn
    <3> QED BY <3>5 DEF Mutex!Next
  <2>5. ASSUME NEW p \in Checks,
               Start(p) \/ GiveUp(p) \/ Mkdir(p) \/ (ReadOwner(p) /\ ~ CanReenter(p))
                 \/ Judge(p) \/ Remove(p) \/ Wake(p)
        PROVE  UNCHANGED Mutex!mutexVars
    <3>1. \E s \in Contending \union {"idle"}, t \in Contending \union {"failed", "made"} :
            pc[p] = s /\ pc' = [pc EXCEPT ![p] = t]
      BY <2>5 DEF Start, GiveUp, Mkdir, ReadOwner, Judge, Remove, Wake, Contending
    <3>2. \A q \in Checks \ {p} : inherited'[q] = inherited[q]
      BY <2>0, <2>5 DEF Start, GiveUp, Mkdir, ReadOwner, Judge, Remove, Wake, TypeOK
    <3>3. /\ pc[p] \notin {"holding", "reentered"} /\ pc'[p] \notin {"holding", "reentered"}
          /\ \A q \in Checks \ {p} : pc'[q] = pc[q]
      BY <2>0, <3>1 DEF Contending, TypeOK
    <3> QED BY <1>2, <2>0, <3>2, <3>3, MutexStutters
  <2>6. ASSUME NEW p \in Checks, Die(p) PROVE FALSE
    BY <1>2, <2>6 DEF Die
  <2>7. CASE Tick \/ UNCHANGED vars
    BY <1>2, <2>0, <2>7 DEF Tick, vars, Mutex!mutexVars
  <2> QED
    BY <2>1, <2>2, <2>3, <2>4, <2>5, <2>6, <2>7 DEF Next, Step, Acquire
<1> QED BY <1>1, <1>2

\* The lock directory implements the mutual exclusion with guests: for any
\* checks, any tree of spawned checks and any timeouts, a check enters only an
\* empty lock, a spawned check is let in only by the owner, and the owner
\* leaves after its guests, until something has provoked an overlap.
THEOREM GateImplementsMutex == Spec => ImplementsMutex
<1>1. Init => Mutex!Init
  BY DEF Init, Mutex!Init
<1>2. GateInv /\ GateInv' /\ [Next]_vars => [Mutex!Next]_(Mutex!mutexVars)
  BY MutexStep
<1> QED BY <1>1, <1>2, GateInvariant, PTL DEF Spec, ImplementsMutex, Mutex!Spec

-----------------------------------------------------------------------------
(* What the end of the waiting rests on                                    *)

\* How many calls a contender is away from the test of its timeout.
Calls == [trying |-> 0, removing |-> 1, sleeping |-> 1, judging |-> 2, found |-> 3]

\* A contender's time is not given back, and one whose time is over comes
\* nearer to giving up with every call: the loop has no way round the test.
ExpiredGoesOut ==
  [][\A p \in Checks :
       pc[p] \in Contending /\ pc'[p] \in Contending =>
         /\ since'[p] = since[p] /\ (Expired(p) => Expired(p)')
         /\ Expired(p) /\ pc'[p] # pc[p] => Calls[pc'[p]] < Calls[pc[p]]]_vars

\* What a step does to a contender that goes on contending.
LEMMA ContenderStep ==
  ASSUME TypeOK, [Next]_vars, NEW p \in Checks, pc[p] \in Contending, pc'[p] \in Contending
  PROVE  /\ since'[p] = since[p] /\ now' \in {now, now + 1}
         /\ \/ pc'[p] = pc[p]
            \/ pc[p] = "trying" /\ pc'[p] = "found" /\ ~ Expired(p)
            \/ pc[p] = "found" /\ pc'[p] = "judging"
            \/ pc[p] = "judging" /\ pc'[p] \in {"removing", "sleeping"}
            \/ pc[p] \in {"removing", "sleeping"} /\ pc'[p] = "trying"
<1> USE DEF TypeOK, Goto, Contending
<1>1. ASSUME NEW q \in Checks, Start(q) \/ GiveUp(q) \/ WriteOwner(q) \/ Release(q) \/ Leave(q) \/ Die(q)
      PROVE  pc'[p] = pc[p] /\ since'[p] = since[p] /\ now' = now
  BY <1>1 DEF Start, GiveUp, WriteOwner, Release, Leave, Die
<1>2. ASSUME NEW q \in Checks, q # p,
             Mkdir(q) \/ ReadOwner(q) \/ Judge(q) \/ Remove(q) \/ Wake(q)
      PROVE  pc'[p] = pc[p] /\ since'[p] = since[p] /\ now' = now
  BY <1>2 DEF Mkdir, ReadOwner, Judge, Remove, Wake
<1>3. CASE Mkdir(p)
  BY <1>3 DEF Mkdir
<1>4. CASE ReadOwner(p) \/ Judge(p) \/ Remove(p) \/ Wake(p)
  BY <1>4 DEF ReadOwner, Judge, Remove, Wake
<1>5. CASE Tick \/ UNCHANGED vars
  BY <1>5 DEF Tick, vars
<1> QED BY <1>1, <1>2, <1>3, <1>4, <1>5 DEF Next, Step, Acquire

\* For any checks and time limits, whatever happens to the lock, a contender
\* whose time is over is at most four calls from the end of its waiting.
THEOREM ExpiredGoOut == Spec => ExpiredGoesOut
<1>1. ASSUME TypeOK, [Next]_vars, NEW p \in Checks, pc[p] \in Contending, pc'[p] \in Contending
      PROVE  /\ since'[p] = since[p] /\ (Expired(p) => Expired(p)')
             /\ Expired(p) /\ pc'[p] # pc[p] => Calls[pc'[p]] < Calls[pc[p]]
  <2>1. now \in Nat /\ since[p] \in Nat /\ Timeout \in Nat
    BY <1>1, GateAssumption DEF TypeOK, Ticks
  <2>2. since'[p] = since[p] /\ (Expired(p) => Expired(p)')
    BY <1>1, <2>1, ContenderStep DEF Expired
  <2>3. /\ Calls["trying"] = 0 /\ Calls["removing"] = 1 /\ Calls["sleeping"] = 1
        /\ Calls["judging"] = 2 /\ Calls["found"] = 3
    BY DEF Calls
  <2>4. Expired(p) /\ pc'[p] # pc[p] => Calls[pc'[p]] < Calls[pc[p]]
    BY <1>1, <2>3, ContenderStep
  <2> QED BY <2>2, <2>4
<1>2. TypeOK /\ [Next]_vars =>
        [\A p \in Checks :
           pc[p] \in Contending /\ pc'[p] \in Contending =>
             /\ since'[p] = since[p] /\ (Expired(p) => Expired(p)')
             /\ Expired(p) /\ pc'[p] # pc[p] => Calls[pc'[p]] < Calls[pc[p]]]_vars
  BY <1>1
<1> QED BY <1>2, GateTypeCorrect, PTL DEF Spec, ExpiredGoesOut
=============================================================================
