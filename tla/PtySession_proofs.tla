------------------------- MODULE PtySession_proofs -------------------------
(***************************************************************************)
(* What holds of the shell of a session for any number of users, children  *)
(* and descriptors: the types, that there are never two running shells nor *)
(* one after stop(), and that what is typed for a shell and the close of a *)
(* killed one never reach a file of somebody else.                         *)
(*                                                                         *)
(* The argument is about hands.  self.lock is held from the look at        *)
(* self.pty to the publication of a new shell, and from its detachment to  *)
(* its close; meanwhile self.pty is empty.  So a running shell is either   *)
(* self.pty or in the hands of the thread that holds the lock, and while   *)
(* it is there its descriptor is its own: only a close by the same hands   *)
(* gives the number away.  The probe holds no lock; it may close a number  *)
(* twice, and nothing is claimed once it closed somebody else's file.      *)
(***************************************************************************)
EXTENDS PtySession, FiniteSetTheorems, WellFoundedInduction, TLAPS

Opening == {"spawn", "bind", "publish"}
Killing == {"signal", "close", "mark"}

\* Where a thread other than the prober holds the lock, and may hold it.
Locked  == Opening \union Killing \union {"write"}
MayLock == Locked \union {"enter"}

Steps == MayLock \union
  {"idle", "resize", "send", "answer", "check", "read", "reading", "out", "reap", "callback", "done"}

Types ==
  /\ running \in BOOLEAN /\ installed \in BOOLEAN /\ failed \in BOOLEAN
  /\ spawned \in 0 .. MaxSpawns
  /\ pty \in 0 .. spawned /\ lock \in Threads \union {Nobody}
  /\ pc \in [Threads -> Steps] /\ on \in [Threads -> 0 .. spawned]
  /\ proc \in [Children -> {"none", "alive", "signalled", "dead", "reaped"}]
  /\ master \in [Children -> Nat] /\ file \in [Fds -> {Nobody, Stranger} \union Children]
  /\ held \in SUBSET (1 .. spawned) /\ exited \in SUBSET (1 .. spawned)
  /\ bound \in SUBSET (1 .. spawned) /\ probes \in SUBSET (1 .. spawned)

\* A child has no thread and no process before it is spawned, and is reaped
\* before its reader goes to the callback.
LifeOfAChild ==
  \A c \in Children :
     /\ c > spawned => pc[c] = "idle"
     /\ proc[c] = "none" <=> c > spawned
     /\ pc[c] \in {"callback", "done"} => proc[c] = "reaped"

LockDiscipline ==
  /\ \A t \in Threads \ {Prober} : pc[t] \in Locked => lock = t
  /\ lock # Nobody => lock # Prober /\ pc[lock] \in MayLock

Holding(S) == lock # Nobody /\ pc[lock] \in S

\* Who holds the lock has the only shell, and a stopped session has none.
OneHand ==
  /\ Holding(Opening \union Killing) => pty = Nobody
  /\ Holding(Opening) => running
  /\ Holding({"bind", "publish"} \union Killing) => on[lock] # Nobody
  /\ Holding({"write"}) => on[lock] = pty /\ pty # Nobody
  /\ ~ running => pty = Nobody

ProberAlone ==
  /\ pc[Prober] \in {"idle", "spawn", "send", "answer"} \union Killing
  /\ pc[Prober] \in {"send", "answer"} \union Killing => on[Prober] \in probes

InHands(c) == c = pty \/ (Holding({"bind", "publish", "signal", "close"}) /\ c = on[lock])

ShellsInHands == \A c \in SessionShells : InHands(c)

Strayed == <<"close", Prober>> \in strays

\* A shell is killed before its descriptor is closed.
SignalledFirst == Holding({"close", "mark"}) => proc[on[lock]] # "alive"

\* The descriptor of a shell in somebody's hands is its own.
OwnDescriptor ==
  Strayed \/ \A c \in 1 .. spawned : InHands(c) =>
                c \notin probes /\ master[c] \in Fds /\ file[master[c]] = c

IInv ==
  /\ Types /\ LifeOfAChild /\ LockDiscipline /\ OneHand /\ ProberAlone
  /\ ShellsInHands /\ SignalledFirst /\ OwnDescriptor /\ SessionCallsReachItsShell

-----------------------------------------------------------------------------
(* The operators of the model.                                             *)

\* A non-empty set of numbers has a lowest one.
LEMMA LowestIn ==
  ASSUME NEW S \in SUBSET Nat, S # {}
  PROVE  Lowest(S) \in S
  <1> DEFINE R == OpToRel(<, Nat)
  <1>1. IsWellFoundedOn(R, Nat)
    BY NatLessThanWellFounded
  <1> HIDE DEF R
  <1>2. PICK x \in S : \A y \in S : ~ (<<y, x>> \in R)
    BY <1>1, WFMin
  <1>3. \A y \in S : <<y, x>> \in R <=> y < x
    BY DEF R, OpToRel
  <1>4. ASSUME NEW m \in S PROVE x <= m
    <2>1. ~ (m < x) /\ m \in Nat /\ x \in Nat
      BY <1>2, <1>3
    <2> QED
      BY <2>1
  <1> QED
    BY <1>4 DEF Lowest

LEMMA Roles ==
  /\ Users \subseteq Threads /\ Children \subseteq Threads /\ Children \subseteq Nat
  /\ Worker \in Threads /\ Prober \in Threads /\ Nobody \notin Threads
  /\ Worker # Prober /\ Prober \notin Users /\ Prober \notin Children
  /\ MaxSpawns \in Nat /\ Descriptors \in Nat
  BY ThreadsAssumption, BoundsAssumption DEF Threads, Children, Nobody

\* The number of a new descriptor was free.
LEMMA NewDescriptor ==
  ASSUME Types, FreeFds # {}
  PROVE  Lowest(FreeFds) \in Fds /\ file[Lowest(FreeFds)] = Nobody
  <1>1. FreeFds \in SUBSET Nat
    BY Roles DEF FreeFds, Fds
  <1>2. Lowest(FreeFds) \in FreeFds
    BY <1>1, LowestIn
  <1> QED
    BY <1>2 DEF FreeFds

LEMMA InitInv == Init => IInv
  <1> SUFFICES ASSUME Init PROVE IInv
    OBVIOUS
  <1>1. Types
    <2>1. spawned = 0 /\ 0 \in 0 .. MaxSpawns /\ 0 \in 0 .. spawned
      BY Roles DEF Init
    <2>2. pc \in [Threads -> Steps] /\ on \in [Threads -> 0 .. spawned]
      BY <2>1 DEF Init, Steps, Nobody
    <2>3. /\ proc \in [Children -> {"none", "alive", "signalled", "dead", "reaped"}]
          /\ master \in [Children -> Nat] /\ file \in [Fds -> {Nobody, Stranger} \union Children]
      BY DEF Init
    <2> QED
      BY <2>1, <2>2, <2>3 DEF Init, Types, Nobody
  <1>2. LifeOfAChild /\ LockDiscipline
    BY Roles DEF Init, LifeOfAChild, LockDiscipline, Locked, Opening, Killing, Children
  <1>3. /\ OneHand /\ ProberAlone /\ ShellsInHands /\ SignalledFirst /\ OwnDescriptor
        /\ SessionCallsReachItsShell
    BY Roles DEF Init, OneHand, Holding, ProberAlone, Killing, ShellsInHands, SessionShells,
                 SignalledFirst, OwnDescriptor, InHands, Strayed, SessionCallsReachItsShell, Nobody
  <1> QED
    BY <1>1, <1>2, <1>3 DEF IInv

-----------------------------------------------------------------------------
(* Two kinds of steps: of a thread that does not hold the lock, and of one *)
(* that holds it or takes it.                                              *)

\* A thread that neither holds the lock nor takes it leaves shells in the hands
\* they are in, if the descriptors that are somebody's own stay so.
LEMMA Elsewhere ==
  ASSUME IInv, Types', LifeOfAChild', ProberAlone', SessionCallsReachItsShell',
         NEW t \in Threads, t # lock, t = Prober \/ pc'[t] \notin Locked,
         \A u \in Threads \ {t} : pc'[u] = pc[u] /\ on'[u] = on[u],
         UNCHANGED <<running, pty, lock, spawned, probes, master>>,
         \A c \in Children : proc'[c] = "alive" => proc[c] = "alive",
         strays \subseteq strays',
         Strayed' \/ \A c \in (1 .. spawned) \ probes :
                       master[c] \in Fds /\ file[master[c]] = c => file'[master[c]] = c
  PROVE  IInv'
  <1> USE DEF IInv
  <1>1. lock # Nobody => lock \in Threads \ {t}
    BY DEF Types
  <1>2. \A S : Holding(S)' <=> Holding(S)
    BY <1>1 DEF Holding
  <1>3. LockDiscipline'
    BY <1>1 DEF LockDiscipline
  <1>4. OneHand'
    BY <1>1, <1>2 DEF OneHand, Holding
  <1>5. \A c : InHands(c)' <=> InHands(c)
    BY <1>1 DEF InHands, Holding
  <1>6. ShellsInHands'
    <2>1. 1 .. spawned \subseteq Children
      BY Roles DEF Types, Children
    <2>2. SessionShells' \subseteq SessionShells
      BY <2>1 DEF SessionShells
    <2> QED
      BY <1>5, <2>2 DEF ShellsInHands
  <1>7. SignalledFirst'
    <2>1. Holding({"close", "mark"}) => on[lock] \in Children
      <3>1. 1 .. spawned \subseteq Children
        BY Roles DEF Types, Children
      <3>2. Holding({"close", "mark"}) => on[lock] \in 1 .. spawned
        BY DEF Holding, OneHand, Killing, Types, Nobody
      <3> QED
        BY <3>1, <3>2
    <2> QED
      BY <1>1, <1>2, <2>1 DEF SignalledFirst, Holding
  <1>8. OwnDescriptor'
    BY <1>5 DEF OwnDescriptor, Strayed
  <1> QED
    BY <1>3, <1>4, <1>6, <1>7, <1>8

\* Where a thread holds the lock or takes it, no other one is at a step that
\* needs it.
LEMMA Holder ==
  ASSUME IInv, NEW t \in Threads \ {Prober}, Free(t),
         \A u \in Threads \ {t} : pc'[u] = pc[u], lock' \in {Nobody, t},
         pc'[t] \in Locked => lock' = t, lock' = t => pc'[t] \in MayLock
  PROVE  LockDiscipline'
  BY Roles DEF IInv, LockDiscipline, Free

\* What a step of the session's threads leaves to the prober.
LEMMA ProberRests ==
  ASSUME IInv, NEW t \in Threads \ {Prober}, pc'[Prober] = pc[Prober], on'[Prober] = on[Prober],
         UNCHANGED probes
  PROVE  ProberAlone'
  BY DEF IInv, ProberAlone

\* Calls that are not a session's own, or not its write or its close, do not
\* count for what it may reach.
LEMMA Harmless ==
  ASSUME SessionCallsReachItsShell, NEW call, NEW t,
         call \notin {"write", "close"} \/ t \notin Users \union {Worker},
         strays \subseteq strays', strays' \subseteq strays \union {<<call, t>>}
  PROVE  SessionCallsReachItsShell'
  BY DEF SessionCallsReachItsShell

-----------------------------------------------------------------------------
(* The steps.                                                              *)

\* A reader on its way, except where it clears self.pty.
LEMMA ReaderMoves ==
  ASSUME IInv, NEW c \in Children,
         NEW from \in {"check", "read", "reading", "out", "reap", "callback"},
         NEW to \in {"check", "read", "reading", "out", "reap", "callback", "done"},
         pc[c] = from, pc' = [pc EXCEPT ![c] = to],
         UNCHANGED <<session, lock, on, spawned, probes, bound, failed, master, file, held>>,
         proc' \in [Children -> {"none", "alive", "signalled", "dead", "reaped"}],
         exited' \in SUBSET (exited \union {c}),
         \A d \in Children : /\ proc'[d] = "none" <=> proc[d] = "none"
                             /\ proc'[d] = "alive" => proc[d] = "alive"
                             /\ proc[d] = "reaped" => proc'[d] = "reaped",
         to \in {"callback", "done"} => proc'[c] = "reaped",
         strays \subseteq strays', strays' \subseteq strays \union {<<"read", c>>}
  PROVE  IInv'
  <1> USE DEF IInv
  <1>1. c \in 1 .. spawned
    BY Roles DEF LifeOfAChild, Types, Children
  <1>2. pc' \in [Threads -> Steps]
    BY Roles DEF Types, Steps
  <1>3. Types'
    BY <1>1, <1>2 DEF Types, session
  <1>4. pc'[c] = to /\ \A u \in Threads \ {c} : pc'[u] = pc[u]
    BY Roles DEF Types
  <1>5. LifeOfAChild'
    <2> SUFFICES ASSUME NEW d \in Children
                 PROVE  /\ d > spawned => pc'[d] = "idle"
                        /\ proc'[d] = "none" <=> d > spawned
                        /\ pc'[d] \in {"callback", "done"} => proc'[d] = "reaped"
      BY DEF LifeOfAChild
    <2>1. CASE d = c
      BY <1>1, <1>4, <2>1 DEF LifeOfAChild, Types
    <2>2. CASE d # c
      BY <1>4, <2>2, Roles DEF LifeOfAChild
    <2> QED
      BY <2>1, <2>2
  <1>6. ProberAlone'
    BY <1>4, Roles, ProberRests
  <1>7. SessionCallsReachItsShell'
    BY Harmless
  <1>8. c # lock
    BY Roles DEF LockDiscipline, MayLock, Locked, Opening, Killing
  <1>9. pc'[c] \notin Locked
    BY <1>4 DEF Locked, Opening, Killing
  <1> QED
    BY <1>3, <1>4, <1>5, <1>6, <1>7, <1>8, <1>9, Roles, Elsewhere DEF session

LEMMA ReaderSteps ==
  ASSUME IInv, NEW c \in Children, Reader(c), ~ ExitCurrent(c)
  PROVE  IInv'
  <1> USE DEF IInv, Goto, system, objects
  <1>1. CASE ReadCheck(c)
    <2> DEFINE to == IF c \in exited THEN "out" ELSE "read"
    <2>1. to \in {"out", "read"} /\ pc' = [pc EXCEPT ![c] = to]
      BY <1>1 DEF ReadCheck
    <2> HIDE DEF to
    <2> QED
      BY <1>1, <2>1, ReaderMoves DEF ReadCheck, Types
  <1>2. CASE ReadCall(c)
    <2> DEFINE to == IF file[master[c]] = Nobody THEN "out" ELSE "reading"
    <2>1. to \in {"out", "reading"} /\ pc[c] = "read" /\ pc' = [pc EXCEPT ![c] = to]
      BY <1>2 DEF ReadCall
    <2>2. strays \subseteq strays' /\ strays' \subseteq strays \union {<<"read", c>>}
      BY <1>2 DEF ReadCall, Strays
    <2> HIDE DEF to
    <2> QED
      BY <1>2, <2>1, <2>2, ReaderMoves DEF ReadCall, Types
  <1>3. CASE ReadData(c)
    BY <1>3, ReaderMoves DEF ReadData, Types
  <1>4. CASE ReadEnd(c)
    BY <1>4, ReaderMoves DEF ReadEnd, Types
  <1>5. CASE ReadOut(c)
    BY <1>5, ReaderMoves DEF ReadOut, Types
  <1>6. CASE ReapKill(c)
    <2>1. pc' = [pc EXCEPT ![c] = "reap"]
      BY <1>6, Roles DEF ReapKill, Types
    <2>2. /\ proc' = [proc EXCEPT ![c] = "signalled"] /\ proc[c] = "alive"
          /\ proc' \in [Children -> {"none", "alive", "signalled", "dead", "reaped"}]
      BY <1>6 DEF ReapKill, Signalled, Types
    <2> QED
      BY <1>6, <2>1, <2>2, ReaderMoves DEF ReapKill, Types
  <1>7. CASE Reap(c)
    BY <1>7, ReaderMoves DEF Reap, Types
  <1>8. CASE ExitLost(c) \/ ExitStale(c)
    <2>1. proc[c] = "reaped"
      BY <1>8 DEF ExitLost, ExitStale, LifeOfAChild
    <2> QED
      BY <1>8, <2>1, ReaderMoves DEF ExitLost, ExitStale, Types
  <1> QED
    BY <1>1, <1>2, <1>3, <1>4, <1>5, <1>6, <1>7, <1>8 DEF Reader

\* Processes, descendants and the rest of the program.
LEMMA OutsideSteps ==
  ASSUME IInv, OpenFile \/ \E c \in Children : Die(c) \/ LetGo(c)
  PROVE  IInv'
  <1> USE DEF IInv
  <1>1. /\ UNCHANGED <<session, lock, pc, on, spawned, probes, master, exited, bound, failed, strays>>
        /\ held' \in SUBSET (1 .. spawned)
        /\ proc' \in [Children -> {"none", "alive", "signalled", "dead", "reaped"}]
        /\ \A d \in Children : /\ proc'[d] = "none" <=> proc[d] = "none"
                               /\ proc'[d] = "alive" => proc[d] = "alive"
                               /\ proc[d] = "reaped" => proc'[d] = "reaped"
    <2>1. CASE OpenFile
      BY <2>1 DEF OpenFile, objects, Types
    <2>2. ASSUME NEW c \in Children, Die(c) PROVE <1>1!2 /\ <1>1!3 /\ <1>1!1 /\ <1>1!4
      <3>1. c \in 1 .. spawned
        BY <2>2 DEF Die, LifeOfAChild, Types, Children
      <3> QED
        BY <2>2, <3>1 DEF Die, objects, Types
    <2>3. ASSUME NEW c \in Children, LetGo(c) PROVE <1>1!2 /\ <1>1!3 /\ <1>1!1 /\ <1>1!4
      BY <2>3 DEF LetGo, objects, Types
    <2> QED
      BY <2>1, <2>2, <2>3
  <1>2. /\ file' \in [Fds -> {Nobody, Stranger} \union Children]
        /\ \A n \in Fds : file'[n] = file[n] \/ file[n] = Nobody
    <2>1. CASE OpenFile
      BY <2>1, NewDescriptor DEF OpenFile, Types
    <2>2. ASSUME NEW c \in Children, Die(c) \/ LetGo(c) PROVE file' = file
      BY <2>2 DEF Die, LetGo
    <2> QED
      BY <2>1, <2>2 DEF Types
  <1>3. Types' /\ LifeOfAChild' /\ ProberAlone' /\ SessionCallsReachItsShell'
    BY <1>1, <1>2, Roles DEF Types, LifeOfAChild, ProberAlone, SessionCallsReachItsShell, session
  <1>4. Prober # lock
    BY Roles DEF LockDiscipline
  <1>5. \A c \in (1 .. spawned) \ probes :
           master[c] \in Fds /\ file[master[c]] = c => file'[master[c]] = c
    BY <1>2 DEF Nobody
  <1> QED
    BY <1>1, <1>3, <1>4, <1>5, Roles, Elsewhere DEF session

\* A fork gives the new child to its opener, with a descriptor that was free.
LEMMA Forks ==
  ASSUME IInv, NEW t \in Threads, NEW to, Fork(t, to), UNCHANGED <<session, lock>>,
         IF t = Prober THEN to = "send" ELSE to = "bind"
  PROVE  IInv'
  <1> USE DEF IInv
  <1>a. PICK c \in Children : c = spawned + 1
    BY Roles DEF Fork, Types, Children
  <1>b. PICK n \in Fds : n = Lowest(FreeFds) /\ file[n] = Nobody
    <2>1. FreeFds # {}
      <3>1. CASE FreeFds = {}
        BY <3>1, FS_EmptySet DEF Fork
      <3> QED
        BY <3>1
    <2> QED
      BY <2>1, NewDescriptor
  <1>1. spawned \in Nat /\ pc[c] = "idle" /\ c # t /\ c # lock /\ c # Prober /\ c \notin probes
    BY <1>a, Roles DEF Fork, Types, Children, LifeOfAChild, LockDiscipline, MayLock, Locked,
                       Opening, Killing
  <1>3. /\ pc[t] = "spawn" /\ pc'[t] = to /\ pc'[c] = "check"
        /\ \A u \in Threads \ {t, c} : pc'[u] = pc[u]
        /\ on'[t] = c /\ \A u \in Threads \ {t} : on'[u] = on[u]
        /\ proc'[c] = "alive" /\ \A d \in Children \ {c} : proc'[d] = proc[d]
        /\ file'[n] = c /\ \A m \in Fds \ {n} : file'[m] = file[m]
        /\ master'[c] = n /\ \A d \in Children \ {c} : master'[d] = master[d]
        /\ spawned' = c /\ probes' = (IF t = Prober THEN probes \union {c} ELSE probes)
        /\ UNCHANGED <<running, pty, lock, strays>>
    BY <1>a, <1>b, <1>1, Roles DEF Fork, Types, session
  <1>4. 1 .. spawned' = (1 .. spawned) \union {c} /\ 0 .. spawned' = (0 .. spawned) \union {c}
    BY <1>a, <1>1, <1>3
  <1>5. Types'
    <2>1. spawned' \in 0 .. MaxSpawns
      BY <1>1, <1>3, Roles DEF Children
    <2>2. pc' \in [Threads -> Steps]
      BY DEF Fork, Types, Steps, MayLock, Locked, Opening
    <2>3. on' \in [Threads -> 0 .. spawned'] /\ pty' \in 0 .. spawned'
      BY <1>a, <1>3, <1>4 DEF Fork, Types
    <2>4. /\ proc' \in [Children -> {"none", "alive", "signalled", "dead", "reaped"}]
          /\ file' \in [Fds -> {Nobody, Stranger} \union Children]
          /\ master' \in [Children -> Nat]
      BY <1>a, <1>b, Roles DEF Fork, Types, Fds
    <2>5. held' \in SUBSET (1 .. spawned') /\ exited' \in SUBSET (1 .. spawned')
          /\ bound' \in SUBSET (1 .. spawned') /\ probes' \in SUBSET (1 .. spawned')
      BY <1>3, <1>4 DEF Fork, Types
    <2>6. /\ running' \in BOOLEAN /\ installed' \in BOOLEAN /\ failed' \in BOOLEAN
          /\ lock' \in Threads \union {Nobody}
      BY DEF Fork, Types, session
    <2> QED
      BY <2>1, <2>2, <2>3, <2>4, <2>5, <2>6 DEF Types
  <1>6. LifeOfAChild'
    <2> SUFFICES ASSUME NEW d \in Children
                 PROVE  /\ d > spawned' => pc'[d] = "idle"
                        /\ proc'[d] = "none" <=> d > spawned'
                        /\ pc'[d] \in {"callback", "done"} => proc'[d] = "reaped"
      BY DEF LifeOfAChild
    <2>1. CASE d = c
      BY <1>3, <2>1, Roles
    <2>2. CASE d # c
      <3>1. d > spawned' <=> d > spawned
        BY <1>a, <1>1, <1>3, <2>2, Roles
      <3>2. d # t => pc'[d] = pc[d]
        BY <1>3, <2>2, Roles
      <3>3. d = t => ~ (d > spawned)
        BY <1>3 DEF LifeOfAChild
      <3> QED
        BY <1>3, <2>2, <3>1, <3>2, <3>3 DEF LifeOfAChild
    <2> QED
      BY <2>1, <2>2
  <1>7. LockDiscipline'
    BY <1>1, <1>3, Roles DEF LockDiscipline, Locked, MayLock, Opening, Killing, Types
  <1>8. SessionCallsReachItsShell'
    BY <1>3 DEF SessionCallsReachItsShell
  <1>9. CASE t = Prober
    <2>1. lock # t
      BY <1>9, Roles DEF LockDiscipline
    <2>2. lock # Nobody => lock \in Threads \ {t, c}
      BY <1>1, <2>1 DEF Types
    <2>3. OneHand'
      BY <1>3, <2>2 DEF OneHand, Holding
    <2>4. ProberAlone'
      BY <1>3, <1>9 DEF ProberAlone
    <2>5. \A d : InHands(d)' <=> InHands(d)
      BY <1>3, <2>2 DEF InHands, Holding
    <2>6. ~ InHands(c)
      BY <1>a, <1>1, <2>2 DEF InHands, Holding, Types
    <2>7. SessionShells' = SessionShells
      BY <1>a, <1>1, <1>3, <1>4, <1>9, Roles DEF SessionShells, Types, Children
    <2>8. ShellsInHands'
      BY <2>5, <2>7 DEF ShellsInHands
    <2>9. SignalledFirst'
      <3>1. Holding({"close", "mark"}) => on[lock] \in (0 .. spawned) \ {0}
        BY DEF Holding, OneHand, Killing, Types, Nobody
      <3>2. (0 .. spawned) \ {0} \subseteq Children \ {c}
        BY <1>a, <1>1, Roles DEF Types, Children
      <3> QED
        BY <1>3, <2>2, <3>1, <3>2 DEF SignalledFirst, Holding
    <2>10. OwnDescriptor'
      <3> SUFFICES ASSUME ~ Strayed, NEW d \in 1 .. spawned', InHands(d)'
                   PROVE  d \notin probes' /\ master'[d] \in Fds /\ file'[master'[d]] = d
        BY <1>3 DEF OwnDescriptor, Strayed
      <3>1. d # c /\ d \in 1 .. spawned /\ d \in Children
        <4>1. d # c
          BY <2>5, <2>6
        <4>2. 1 .. spawned \subseteq Children
          BY Roles DEF Types, Children
        <4> QED
          BY <1>4, <4>1, <4>2
      <3>2. d \notin probes /\ master[d] \in Fds /\ file[master[d]] = d
        BY <2>5, <3>1 DEF OwnDescriptor
      <3>3. master[d] # n
        BY <1>b, <3>1, <3>2 DEF Nobody
      <3> QED
        BY <1>3, <1>9, <3>1, <3>2, <3>3
    <2> QED
      BY <1>5, <1>6, <1>7, <1>8, <2>3, <2>4, <2>8, <2>9, <2>10
  <1>10. CASE t # Prober
    <2>1. lock = t /\ t # Nobody
      BY <1>3, <1>10, Roles DEF LockDiscipline, Locked, Opening
    <2>2. pty = Nobody /\ running
      BY <1>3, <2>1 DEF OneHand, Holding, Opening
    <2>3. OneHand'
      BY <1>1, <1>3, <1>10, <2>1, <2>2 DEF OneHand, Holding, Opening, Killing, Children, Nobody
    <2>4. ProberAlone'
      BY <1>1, <1>3, <1>10, Roles DEF ProberAlone
    <2>5. \A d \in 1 .. spawned : ~ InHands(d)
      BY <1>3, <2>1, <2>2 DEF InHands, Holding, Nobody
    <2>6. InHands(c)'
      BY <1>3, <1>10, <2>1 DEF InHands, Holding
    <2>7. \A d \in 1 .. spawned : ~ InHands(d)'
      BY <1>a, <1>1, <1>3, <2>1, <2>2 DEF InHands, Holding, Nobody, Types
    <2>8. SessionShells' \subseteq SessionShells \union {c}
      BY <1>3, <1>4, <1>10, Roles DEF SessionShells, Types, Children
    <2>9. ShellsInHands'
      BY <2>5, <2>6, <2>8 DEF ShellsInHands, SessionShells
    <2>10. OwnDescriptor'
      BY <1>1, <1>b, <1>3, <1>4, <1>10, <2>7 DEF OwnDescriptor
    <2>11. SignalledFirst'
      BY <1>3, <1>10, <2>1 DEF SignalledFirst, Holding
    <2> QED
      BY <1>5, <1>6, <1>7, <1>8, <2>3, <2>4, <2>9, <2>10, <2>11
  <1> QED
    BY <1>9, <1>10

\* A prober on its way; it does not hold the lock.
LEMMA ProberMoves ==
  ASSUME IInv, NEW to \in {"idle", "spawn", "send", "answer"} \union Killing,
         pc' = [pc EXCEPT ![Prober] = to],
         \A u \in Threads \ {Prober} : on'[u] = on[u], on' \in [Threads -> 0 .. spawned],
         to \in {"send", "answer"} \union Killing => on'[Prober] \in probes,
         UNCHANGED <<session, lock, spawned, probes, bound, master, held>>,
         failed' \in BOOLEAN, exited' \in SUBSET (1 .. spawned),
         proc' = proc \/ proc' = Signalled(on[Prober]),
         file' \in [Fds -> {Nobody, Stranger} \union Children],
         strays \subseteq strays', SessionCallsReachItsShell',
         Strayed' \/ \A c \in (1 .. spawned) \ probes :
                       master[c] \in Fds /\ file[master[c]] = c => file'[master[c]] = c
  PROVE  IInv'
  <1> USE DEF IInv
  <1>1. pc' \in [Threads -> Steps]
    BY Roles DEF Types, Steps, Killing, MayLock, Locked, Opening
  <1>2. /\ proc' \in [Children -> {"none", "alive", "signalled", "dead", "reaped"}]
        /\ \A d \in Children : /\ proc'[d] = "none" <=> proc[d] = "none"
                               /\ proc'[d] = "alive" => proc[d] = "alive"
                               /\ proc[d] = "reaped" => proc'[d] = "reaped"
    BY DEF Types, Signalled
  <1>3. Types'
    BY <1>1, <1>2 DEF Types, session
  <1>4. pc'[Prober] = to /\ \A u \in Threads \ {Prober} : pc'[u] = pc[u]
    BY Roles DEF Types
  <1>5. LifeOfAChild'
    BY <1>2, <1>4, Roles DEF LifeOfAChild
  <1>6. ProberAlone'
    BY <1>4 DEF ProberAlone
  <1>7. Prober # lock
    BY Roles DEF LockDiscipline
  <1> QED
    BY <1>2, <1>3, <1>4, <1>5, <1>6, <1>7, Roles, Elsewhere DEF session

LEMMA ProberSteps ==
  ASSUME IInv,
         ProbeBegin \/ ProbeSend \/ ProbeAnswer \/ SpawnFails(Prober) \/ Killer(Prober)
  PROVE  IInv'
  <1> USE DEF IInv, Goto, system, objects, Killing
  <1>1. CASE ProbeBegin \/ SpawnFails(Prober)
    BY <1>1, ProberMoves DEF ProbeBegin, SpawnFails, Types, SessionCallsReachItsShell
  <1>2. CASE ProbeSend
    <2>1. on[Prober] \in probes
      BY <1>2 DEF ProbeSend, ProberAlone
    <2>2. strays \subseteq strays' /\ strays' \subseteq strays \union {<<"write", Prober>>}
      BY <1>2 DEF ProbeSend, Strays
    <2>3. SessionCallsReachItsShell'
      BY <2>2, Roles, Harmless
    <2> QED
      BY <1>2, <2>1, <2>2, <2>3, ProberMoves DEF ProbeSend, Types
  <1>3. CASE ProbeAnswer
    <2>1. on[Prober] \in probes
      BY <1>3 DEF ProbeAnswer, ProberAlone
    <2> QED
      BY <1>3, <2>1, ProberMoves DEF ProbeAnswer, Types, SessionCallsReachItsShell
  <1>4. CASE Signal(Prober)
    <2>1. on[Prober] \in probes
      BY <1>4 DEF Signal, ProberAlone
    <2> QED
      BY <1>4, <2>1, ProberMoves DEF Signal, Types, SessionCallsReachItsShell
  <1>5. CASE Close(Prober)
    <2>1. on[Prober] \in probes
      BY <1>5 DEF Close, ProberAlone
    <2>2. strays \subseteq strays' /\ strays' \subseteq strays \union {<<"close", Prober>>}
      BY <1>5 DEF Close, Strays
    <2>3. SessionCallsReachItsShell'
      BY <2>2, Roles, Harmless
    <2>4. file' \in [Fds -> {Nobody, Stranger} \union Children]
      BY <1>5 DEF Close, Types
    <2>5. ASSUME ~ Strayed', NEW c \in (1 .. spawned) \ probes,
                 master[c] \in Fds, file[master[c]] = c
          PROVE  file'[master[c]] = c
      <3>1. file[master[on[Prober]]] \in {on[Prober], Nobody}
        BY <1>5, <2>5 DEF Close, Strays, Strayed
      <3>2. master[c] # master[on[Prober]]
        BY <2>1, <2>5, <3>1 DEF Nobody
      <3> QED
        BY <1>5, <2>5, <3>2 DEF Close, Types
    <2> QED
      BY <1>5, <2>1, <2>2, <2>3, <2>4, <2>5, ProberMoves DEF Close, Types
  <1>6. CASE Mark(Prober)
    <2>1. on[Prober] \in probes /\ on[Prober] \in 1 .. spawned
      BY <1>6 DEF Mark, ProberAlone, Types
    <2>2. lock # Prober
      BY Roles DEF LockDiscipline
    <2> DEFINE to == IF failed THEN "signal" ELSE "idle"
    <2>3. /\ to \in {"signal", "idle"} /\ pc' = [pc EXCEPT ![Prober] = to]
          /\ to = "signal" => on'[Prober] \in probes
      BY <1>6, <2>1, Roles DEF Mark, Types
    <2>4. /\ \A u \in Threads \ {Prober} : on'[u] = on[u]
          /\ on' \in [Threads -> 0 .. spawned]
      BY <1>6, <2>1, Roles DEF Mark, Types, Nobody
    <2>5. exited' \in SUBSET (1 .. spawned) /\ failed' \in BOOLEAN
      BY <1>6, <2>1 DEF Mark, Types
    <2> HIDE DEF to
    <2> QED
      BY <1>6, <2>2, <2>3, <2>4, <2>5, ProberMoves DEF Mark, Types, SessionCallsReachItsShell
  <1> QED
    BY <1>1, <1>2, <1>3, <1>4, <1>5, <1>6 DEF Killer

\* A thread outside the lock, between its operations or in a resize.
LEMMA FreeMoves ==
  ASSUME IInv, NEW t \in Threads \ {Prober}, t # lock,
         NEW to \in {"idle", "resize", "enter"}, pc[t] \in {"idle", "resize", "enter"},
         pc' = [pc EXCEPT ![t] = to], to = "idle" \/ t \notin Children,
         \A u \in Threads \ {t} : on'[u] = on[u], on' \in [Threads -> 0 .. spawned],
         installed' \in BOOLEAN,
         UNCHANGED <<running, pty, lock, spawned, probes, exited, bound, master, held, failed, proc,
                     file>>,
         strays \subseteq strays', strays' \subseteq strays \union {<<"resize", t>>}
  PROVE  IInv'
  <1> USE DEF IInv
  <1>1. pc' \in [Threads -> Steps]
    BY DEF Types, Steps, MayLock
  <1>2. Types'
    BY <1>1 DEF Types
  <1>3. pc'[t] = to /\ \A u \in Threads \ {t} : pc'[u] = pc[u]
    BY DEF Types
  <1>4. LifeOfAChild'
    BY <1>3, Roles DEF LifeOfAChild
  <1>5. ProberAlone'
    BY <1>3, Roles, ProberRests
  <1>6. SessionCallsReachItsShell'
    BY Harmless
  <1>7. pc'[t] \notin Locked
    BY <1>3 DEF Locked, Opening, Killing
  <1> QED
    BY <1>2, <1>3, <1>4, <1>5, <1>6, <1>7, Elsewhere

LEMMA FreeSteps ==
  ASSUME IInv, OpenAlpine \/ \E u \in Users : ResizeBegin(u) \/ ResizeEnd(u)
  PROVE  IInv'
  <1> USE DEF IInv, Goto, session, system, objects
  <1>1. \A t \in Threads : pc[t] \in {"idle", "resize"} => t # lock
    BY Roles DEF LockDiscipline, MayLock, Locked, Opening, Killing
  <1>2. CASE OpenAlpine
    <2>1. Worker \in Threads \ {Prober} /\ Worker \notin Children
      BY ThreadsAssumption, Roles
    <2> QED
      BY <1>1, <1>2, <2>1, FreeMoves DEF OpenAlpine, Types
  <1>3. ASSUME NEW u \in Users, ResizeBegin(u) \/ ResizeEnd(u) PROVE IInv'
    <2>1. u \in Threads \ {Prober} /\ u \notin Children
      BY ThreadsAssumption, Roles
    <2>2. CASE ResizeBegin(u)
      BY <1>1, <2>1, <2>2, FreeMoves DEF ResizeBegin, Types
    <2>3. CASE ResizeEnd(u)
      <3>1. strays \subseteq strays' /\ strays' \subseteq strays \union {<<"resize", u>>}
        BY <2>3 DEF ResizeEnd, Strays
      <3>2. on' \in [Threads -> 0 .. spawned]
        <4>1. Nobody \in 0 .. spawned
          BY Roles DEF Types, Nobody
        <4> QED
          BY <2>3, <4>1 DEF ResizeEnd, Types
      <3>3. /\ pc[u] = "resize" /\ pc' = [pc EXCEPT ![u] = "idle"]
            /\ \A v \in Threads \ {u} : on'[v] = on[v]
            /\ installed' \in BOOLEAN
            /\ UNCHANGED <<running, pty, lock, spawned, probes, exited, bound, master, held, failed,
                          proc, file>>
        BY <2>3 DEF ResizeEnd, Types
      <3> QED
        BY <1>1, <2>1, <3>1, <3>2, <3>3, FreeMoves
    <2> QED
      BY <1>3, <2>2, <2>3
  <1> QED
    BY <1>2, <1>3

\* A thread that holds the lock or takes it: what is left to show is where the
\* shells are.
LEMMA HolderMoves ==
  ASSUME IInv, NEW t \in Threads \ {Prober}, Free(t), lock' \in {Nobody, t},
         NEW to \in MayLock \union {"idle"}, pc' = [pc EXCEPT ![t] = to],
         to \in Locked => lock' = t, lock' = t => to \in MayLock,
         t \in Children => t \in 1 .. spawned,
         \A u \in Threads \ {t} : on'[u] = on[u], on' \in [Threads -> 0 .. spawned],
         running' \in BOOLEAN, installed' \in BOOLEAN, pty' \in 0 .. spawned,
         UNCHANGED <<spawned, probes, master, held, failed>>,
         exited' \in SUBSET (1 .. spawned), bound' \in SUBSET (1 .. spawned),
         file' \in [Fds -> {Nobody, Stranger} \union Children],
         proc' = proc \/ proc' = Signalled(on[t]),
         OneHand', ShellsInHands', SignalledFirst', OwnDescriptor', SessionCallsReachItsShell'
  PROVE  IInv'
  <1> USE DEF IInv
  <1>1. pc' \in [Threads -> Steps]
    BY DEF Types, Steps
  <1>2. /\ proc' \in [Children -> {"none", "alive", "signalled", "dead", "reaped"}]
        /\ \A d \in Children : /\ proc'[d] = "none" <=> proc[d] = "none"
                               /\ proc[d] = "reaped" => proc'[d] = "reaped"
    BY DEF Types, Signalled
  <1>3. Types'
    BY <1>1, <1>2, Roles DEF Types
  <1>4. pc'[t] = to /\ \A u \in Threads \ {t} : pc'[u] = pc[u]
    BY DEF Types
  <1>5. LifeOfAChild'
    <2> SUFFICES ASSUME NEW d \in Children
                 PROVE  /\ d > spawned' => pc'[d] = "idle"
                        /\ proc'[d] = "none" <=> d > spawned'
                        /\ pc'[d] \in {"callback", "done"} => proc'[d] = "reaped"
      BY DEF LifeOfAChild
    <2>1. CASE d = t
      BY <1>2, <1>4, <2>1, Roles DEF LifeOfAChild, Types, MayLock, Locked, Opening, Killing
    <2>2. CASE d # t
      BY <1>2, <1>4, <2>2, Roles DEF LifeOfAChild
    <2> QED
      BY <2>1, <2>2
  <1>6. LockDiscipline'
    BY <1>4, Holder
  <1>7. ProberAlone'
    BY <1>4, Roles, ProberRests
  <1> QED
    BY <1>3, <1>5, <1>6, <1>7

LEMMA StepKinds ==
  /\ Locked \subseteq MayLock /\ "enter" \in MayLock \ Locked
  /\ {"write", "signal", "close", "mark"} \union Opening \subseteq Locked
  /\ "idle" \notin MayLock
  BY DEF MayLock, Locked, Opening, Killing

\* Who may take the lock sees only its own step.
LEMMA OnlyMine ==
  ASSUME IInv, NEW t \in Threads \ {Prober}, Free(t)
  PROVE  /\ \A S : Holding(S) <=> lock = t /\ pc[t] \in S
         /\ pc[t] \notin MayLock => lock = Nobody
         /\ pc[t] \in Locked => lock = t
         /\ pc[t] # "idle" /\ t \in Children => t \in 1 .. spawned
         /\ t # Nobody /\ on[t] \in 0 .. spawned
  BY Roles DEF IInv, Types, LifeOfAChild, LockDiscipline, Free, Holding, Children, Nobody

\* Where shells are in the same hands as before, on the same descriptors.
LEMMA SameHands ==
  ASSUME IInv, \A c \in 1 .. spawned : InHands(c)' <=> InHands(c),
         UNCHANGED <<spawned, probes, proc, master, file, strays>>
  PROVE  ShellsInHands' /\ OwnDescriptor' /\ SessionCallsReachItsShell'
  BY DEF IInv, ShellsInHands, SessionShells, OwnDescriptor, Strayed, SessionCallsReachItsShell

\* Opening a shell, but for the fork.
LEMMA OpenerSteps ==
  ASSUME IInv, NEW t \in Threads, Opener(t), ~ Spawn(t), t # Prober
  PROVE  IInv'
  <1> USE DEF IInv, Goto, session, system, objects
  <1>0. t \in Threads \ {Prober}
    OBVIOUS
  <1>1. CASE Enter(t)
    <2>1. Free(t) /\ pc[t] = "enter" /\ pc' = [pc EXCEPT ![t] = "spawn"] /\ pc'[t] = "spawn"
          /\ lock' = t /\ pty = Nobody /\ running
          /\ UNCHANGED <<session, on, proc, spawned, probes, master, file, strays, held, failed,
                         exited, bound>>
      BY <1>1 DEF Enter, Types
    <2>2. OneHand' /\ SignalledFirst'
      BY <1>0, <2>1, OnlyMine DEF OneHand, SignalledFirst, Holding, Opening, Killing
    <2>3. \A c \in 1 .. spawned : InHands(c)' <=> InHands(c)
      BY <1>0, <2>1, OnlyMine DEF InHands, Holding
    <2> QED
      BY <1>0, <2>1, <2>2, <2>3, OnlyMine, SameHands, HolderMoves
      DEF Types, MayLock, Locked, Opening
  <1>2. CASE EnterRefused(t) \/ SpawnFails(t)
    <2>1. Free(t) /\ pc[t] \in {"enter", "spawn"} /\ pc' = [pc EXCEPT ![t] = "idle"]
          /\ lock' = Nobody
          /\ UNCHANGED <<session, on, proc, spawned, probes, master, file, strays, held, failed,
                         exited, bound>>
      BY <1>0, <1>2, Roles
      DEF EnterRefused, SpawnFails, LockDiscipline, Free, Locked, Opening, Types
    <2>2. OneHand' /\ SignalledFirst'
      BY <2>1 DEF OneHand, SignalledFirst, Holding
    <2>3. \A c \in 1 .. spawned : InHands(c)' <=> InHands(c)
      BY <1>0, <2>1, OnlyMine DEF InHands, Holding
    <2> QED
      BY <1>0, <2>1, <2>2, <2>3, OnlyMine, SameHands, HolderMoves
      DEF Types, MayLock, Locked, Opening, Killing
  <1>3. CASE Bind(t)
    <2>1. lock = t /\ Free(t)
      BY <1>0, <1>3 DEF Bind, LockDiscipline, Free, Locked, Opening
    <2>2. pc[t] = "bind" /\ pc' = [pc EXCEPT ![t] = "publish"] /\ pc'[t] = "publish" /\ lock' = t
          /\ UNCHANGED <<session, on, proc, spawned, probes, master, file, strays, held, failed,
                         exited>>
      BY <1>3, <2>1 DEF Bind, Types
    <2>3. OneHand' /\ SignalledFirst'
      BY <1>0, <2>1, <2>2, OnlyMine DEF OneHand, SignalledFirst, Holding, Opening, Killing
    <2>4. \A c \in 1 .. spawned : InHands(c)' <=> InHands(c)
      BY <1>0, <2>1, <2>2, OnlyMine DEF InHands, Holding
    <2>5. bound' \in SUBSET (1 .. spawned)
      <3>1. on[t] \in 1 .. spawned
        BY <1>0, <2>1, <2>2, OnlyMine DEF OneHand, Types, Nobody
      <3> QED
        BY <1>3, <3>1 DEF Bind, Types
    <2> QED
      BY <1>0, <2>1, <2>2, <2>3, <2>4, <2>5, OnlyMine, SameHands, HolderMoves
      DEF Types, MayLock, Locked, Opening
  <1>4. CASE Publish(t)
    <2>1. lock = t /\ Free(t)
      BY <1>0, <1>4 DEF Publish, LockDiscipline, Free, Locked, Opening
    <2>2. pc[t] = "publish" /\ pc' = [pc EXCEPT ![t] = "idle"] /\ pty' = on[t] /\ lock' = Nobody
          /\ UNCHANGED <<running, installed, proc, spawned, probes, master, file, strays, held,
                         failed, exited, bound>>
      BY <1>4 DEF Publish
    <2>3. pty = Nobody /\ running
      BY <1>0, <2>1, <2>2, OnlyMine DEF OneHand, Opening
    <2>4. OneHand' /\ SignalledFirst'
      BY <2>2, <2>3 DEF OneHand, SignalledFirst, Holding
    <2>5. \A c \in 1 .. spawned : InHands(c)' <=> InHands(c)
      BY <1>0, <2>1, <2>2, <2>3, OnlyMine DEF InHands, Holding, Nobody
    <2>6. on' \in [Threads -> 0 .. spawned] /\ \A u \in Threads \ {t} : on'[u] = on[u]
      BY <1>4 DEF Publish, Types, Nobody
    <2> QED
      BY <1>0, <2>1, <2>2, <2>4, <2>5, <2>6, OnlyMine, SameHands, HolderMoves
      DEF Types, MayLock, Locked, Opening, Killing
  <1> QED
    BY <1>1, <1>2, <1>3, <1>4 DEF Opener

\* The users.
LEMMA UserSteps ==
  ASSUME IInv, NEW u \in Users, Start(u) \/ WriteBegin(u) \/ WriteEnd(u) \/ Toggle(u) \/ Stop(u)
  PROVE  IInv'
  <1> USE DEF IInv, Goto, session, system, objects
  <1>0. u \in Threads \ {Prober} /\ u \in Users /\ u \notin Children /\ Nobody \in 0 .. spawned
    BY ThreadsAssumption, Roles DEF Types, Nobody
  <1>1. CASE Start(u)
    <2>1. Free(u) /\ pc[u] = "idle" /\ pty = Nobody /\ running' = TRUE
          /\ UNCHANGED <<installed, pty, on, proc, spawned, probes, master, file, strays, held,
                         failed, exited, bound>>
      BY <1>1 DEF Start, OneHand
    <2>2. PICK to \in {"idle", "enter"} :
             /\ pc' = [pc EXCEPT ![u] = to] /\ pc'[u] = to
             /\ lock' \in {Nobody, u} /\ (lock' = u => to = "enter")
      <3>1. lock = Nobody
        BY <1>0, <2>1, OnlyMine DEF MayLock, Locked, Opening, Killing
      <3>2. CASE installed
        BY <1>0, <1>1, <3>2 DEF Start, Types
      <3>3. CASE ~ installed
        <4>1. pc' = [pc EXCEPT ![u] = "idle"] /\ lock' = lock
          BY <1>0, <1>1, <2>1, <3>3 DEF Start, Types
        <4> QED
          BY <1>0, <3>1, <4>1, Roles DEF Types
      <3> QED
        BY <3>2, <3>3 DEF Types
    <2>3. OneHand' /\ SignalledFirst'
      BY <1>0, <2>1, <2>2, Roles DEF OneHand, SignalledFirst, Holding, Opening, Killing
    <2>4. \A c \in 1 .. spawned : InHands(c)' <=> InHands(c)
      BY <1>0, <2>1, <2>2, OnlyMine DEF InHands, Holding
    <2> QED
      BY <1>0, <2>1, <2>2, <2>3, <2>4, SameHands, HolderMoves
      DEF Types, MayLock, Locked, Opening, Killing
  <1>2. CASE WriteBegin(u)
    <2>1. Free(u) /\ lock = Nobody /\ pty # Nobody /\ running
          /\ pc[u] = "idle" /\ pc' = [pc EXCEPT ![u] = "write"] /\ pc'[u] = "write"
          /\ lock' = u /\ on' = [on EXCEPT ![u] = pty] /\ on'[u] = pty
          /\ UNCHANGED <<session, proc, spawned, probes, master, file, strays, held, failed, exited,
                         bound>>
      BY <1>0, <1>2 DEF WriteBegin, Types, Free
    <2>2. OneHand' /\ SignalledFirst'
      BY <2>1 DEF OneHand, SignalledFirst, Holding, Opening, Killing
    <2>3. \A c \in 1 .. spawned : InHands(c)' <=> InHands(c)
      BY <2>1 DEF InHands, Holding
    <2>4. on' \in [Threads -> 0 .. spawned] /\ \A v \in Threads \ {u} : on'[v] = on[v]
      BY <2>1 DEF Types
    <2> QED
      BY <1>0, <2>1, <2>2, <2>3, <2>4, SameHands, HolderMoves DEF Types, MayLock, Locked
  <1>3. CASE WriteEnd(u)
    <2>1. lock = u /\ Free(u)
      BY <1>0, <1>3 DEF WriteEnd, LockDiscipline, Free, Locked
    <2>2. pc[u] = "write" /\ pc' = [pc EXCEPT ![u] = "idle"] /\ pc'[u] = "idle" /\ lock' = Nobody
          /\ strays' = Strays("write", u, on[u]) /\ on' = [on EXCEPT ![u] = Nobody]
          /\ UNCHANGED <<session, proc, spawned, probes, master, file, held, failed, exited, bound>>
      BY <1>0, <1>3, <2>1 DEF WriteEnd, Types
    <2>3. on[u] = pty /\ pty \in 1 .. spawned
      BY <1>0, <2>1, <2>2, OnlyMine DEF OneHand, Types, Nobody
    <2>4. strays \subseteq strays' /\ SessionCallsReachItsShell'
      <3>1. CASE Strayed
        BY <2>2, <3>1 DEF Strayed, Strays, SessionCallsReachItsShell
      <3>2. CASE ~ Strayed
        <4>1. file[master[on[u]]] = on[u]
          BY <2>3, <3>2 DEF OwnDescriptor, InHands
        <4> QED
          BY <2>2, <4>1 DEF Strays, SessionCallsReachItsShell
      <3> QED
        BY <3>1, <3>2
    <2>5. OneHand' /\ SignalledFirst'
      BY <2>2 DEF OneHand, SignalledFirst, Holding
    <2>6. \A c \in 1 .. spawned : InHands(c)' <=> InHands(c)
      BY <1>0, <2>1, <2>2, OnlyMine DEF InHands, Holding
    <2>7. ShellsInHands' /\ OwnDescriptor'
      BY <2>2, <2>4, <2>6 DEF ShellsInHands, SessionShells, OwnDescriptor, Strayed
    <2>8. on' \in [Threads -> 0 .. spawned] /\ \A v \in Threads \ {u} : on'[v] = on[v]
      BY <1>0, <2>2 DEF Types
    <2>9. /\ pc' = [pc EXCEPT ![u] = "idle"] /\ lock' = Nobody /\ lock' # u
          /\ running' \in BOOLEAN /\ installed' \in BOOLEAN /\ pty' \in 0 .. spawned
          /\ UNCHANGED <<spawned, probes, master, held, failed, proc>>
          /\ exited' \in SUBSET (1 .. spawned) /\ bound' \in SUBSET (1 .. spawned)
          /\ file' \in [Fds -> {Nobody, Stranger} \union Children]
      BY <1>0, <2>2, Roles DEF Types
    <2> HIDE DEF IInv
    <2> QED
      BY <1>0, <2>1, <2>4, <2>5, <2>7, <2>8, <2>9, StepKinds, HolderMoves
  <1>4. CASE Toggle(u) \/ Stop(u)
    <2>1. Free(u) /\ lock = Nobody /\ pc[u] = "idle" /\ running
          /\ pty' = Nobody /\ on' = [on EXCEPT ![u] = pty] /\ on'[u] = pty /\ running' \in BOOLEAN
          /\ UNCHANGED <<installed, proc, spawned, probes, master, file, strays, held, failed,
                         exited, bound>>
      BY <1>0, <1>4 DEF Toggle, Stop, Types, Free
    <2>2. PICK to \in {"idle", "enter", "signal"} :
             /\ pc' = [pc EXCEPT ![u] = to] /\ pc'[u] = to
             /\ to = "signal" <=> pty # Nobody
             /\ lock' \in {Nobody, u} /\ (to = "signal" => lock' = u)
             /\ (lock' = u => to \in {"signal", "enter"})
      <3>1. CASE Toggle(u)
        BY <1>0, <3>1 DEF Toggle, Types
      <3>2. CASE Stop(u)
        <4>1. CASE pty = Nobody
          <5>1. pc' = [pc EXCEPT ![u] = "idle"] /\ lock' = Nobody
            BY <1>0, <2>1, <3>2, <4>1 DEF Stop, Types
          <5> QED
            BY <1>0, <4>1, <5>1, Roles DEF Types
        <4>2. CASE pty # Nobody
          BY <1>0, <3>2, <4>2 DEF Stop, Types
        <4> QED
          BY <4>1, <4>2
      <3> QED
        BY <1>4, <3>1, <3>2
    <2>3. OneHand' /\ SignalledFirst'
      BY <2>1, <2>2 DEF OneHand, SignalledFirst, Holding, Opening, Killing
    <2>4. \A c \in 1 .. spawned : InHands(c)' <=> InHands(c)
      BY <1>0, <2>1, <2>2, Roles DEF InHands, Holding, Nobody
    <2>5. on' \in [Threads -> 0 .. spawned] /\ \A v \in Threads \ {u} : on'[v] = on[v]
      BY <2>1 DEF Types
    <2> QED
      BY <1>0, <2>1, <2>2, <2>3, <2>4, <2>5, SameHands, HolderMoves
      DEF Types, MayLock, Locked, Opening, Killing
  <1> QED
    BY <1>1, <1>2, <1>3, <1>4

\* kill() by a thread of the session.
LEMMA KillerSteps ==
  ASSUME IInv, NEW t \in Threads, t # Prober, Killer(t)
  PROVE  IInv'
  <1> USE DEF IInv, Goto, session, system, objects
  <1>0. t \in Threads \ {Prober} /\ Nobody \in 0 .. spawned
    BY Roles DEF Types, Nobody
  <1>1. pc[t] \in Killing
    BY DEF Killer, Signal, Close, Mark, Killing
  <1>2. /\ lock = t /\ Free(t) /\ pty = Nobody /\ on[t] \in 1 .. spawned /\ on[t] \in Children
        /\ t \in Children => t \in 1 .. spawned
    <2>1. lock = t
      BY <1>0, <1>1 DEF LockDiscipline, Locked
    <2>3. t \in Children => t \in 1 .. spawned
      BY <1>0, <1>1, <2>1, OnlyMine DEF Free, Killing
    <2>2. pty = Nobody /\ on[t] # Nobody
      BY <1>0, <1>1, <2>1, Roles DEF OneHand, Holding
    <2> QED
      BY <1>0, <2>1, <2>2, <2>3, Roles DEF Free, Types, Children, Nobody
  <1>3. CASE Signal(t)
    <2>1. pc[t] = "signal" /\ pc' = [pc EXCEPT ![t] = "close"] /\ pc'[t] = "close" /\ lock' = t
          /\ UNCHANGED <<running, pty, on, spawned, probes, master, file, strays>>
      BY <1>2, <1>3 DEF Signal, Types
    <2>2. proc' = Signalled(on[t])
      BY <1>3 DEF Signal
    <2>3. proc'[on[t]] # "alive" /\ \A d \in Children : proc'[d] = "alive" => proc[d] = "alive"
      BY <1>2, <2>2 DEF Signalled, Types
    <2>4. OneHand'
      BY <1>0, <1>2, <2>1, Roles DEF OneHand, Holding, Opening, Killing
    <2>5. SignalledFirst'
      BY <2>1, <2>3 DEF SignalledFirst, Holding
    <2>6. \A c \in 1 .. spawned : InHands(c)' <=> InHands(c)
      BY <1>0, <1>2, <2>1, Roles DEF InHands, Holding
    <2>7. SessionShells' \subseteq SessionShells
      <3>1. 1 .. spawned \subseteq Children
        BY Roles DEF Types, Children
      <3> QED
        BY <2>1, <2>3, <3>1 DEF SessionShells
    <2>8. ShellsInHands'
      BY <2>6, <2>7 DEF ShellsInHands, SessionShells
    <2>9. OwnDescriptor' /\ SessionCallsReachItsShell'
      BY <2>1, <2>6 DEF OwnDescriptor, Strayed, SessionCallsReachItsShell
    <2>10. /\ running' \in BOOLEAN /\ installed' \in BOOLEAN /\ pty' \in 0 .. spawned
           /\ UNCHANGED <<spawned, probes, master, held, failed>> /\ on' \in [Threads -> 0 .. spawned]
           /\ \A u \in Threads \ {t} : on'[u] = on[u]
           /\ exited' \in SUBSET (1 .. spawned) /\ bound' \in SUBSET (1 .. spawned)
           /\ file' \in [Fds -> {Nobody, Stranger} \union Children]
      BY <1>3, <2>1 DEF Signal, Types
    <2> HIDE DEF IInv
    <2> QED
      BY <1>0, <1>2, <2>1, <2>2, <2>4, <2>5, <2>8, <2>9, <2>10, StepKinds, HolderMoves
  <1>4. CASE Close(t)
    <2>1. pc[t] = "close" /\ pc' = [pc EXCEPT ![t] = "mark"] /\ pc'[t] = "mark" /\ lock' = t
          /\ strays' = Strays("close", t, on[t])
          /\ file' = [file EXCEPT ![master[on[t]]] = Nobody]
          /\ UNCHANGED <<session, on, proc, spawned, probes, master, held, failed, exited, bound>>
      BY <1>2, <1>4 DEF Close, Types
    <2>2. OneHand' /\ SignalledFirst'
      BY <1>0, <1>2, <2>1, OnlyMine DEF OneHand, SignalledFirst, Holding, Opening, Killing
    <2>3. \A c \in 1 .. spawned : ~ InHands(c)'
      BY <1>0, <1>2, <2>1, Roles DEF InHands, Holding, Nobody
    <2>4. SessionShells' = {}
      <3>1. \A c \in SessionShells : c = on[t]
        BY <1>2 DEF ShellsInHands, InHands, SessionShells, Nobody
      <3>2. proc[on[t]] # "alive"
        BY <1>0, <1>2, <2>1, OnlyMine DEF SignalledFirst
      <3> QED
        BY <2>1, <3>1, <3>2 DEF SessionShells
    <2>5. ShellsInHands' /\ OwnDescriptor'
      BY <2>1, <2>3, <2>4 DEF ShellsInHands, OwnDescriptor
    <2>6. SessionCallsReachItsShell'
      <3>1. CASE Strayed
        BY <2>1, <3>1 DEF Strayed, Strays, SessionCallsReachItsShell
      <3>2. CASE ~ Strayed
        <4>1. file[master[on[t]]] = on[t]
          BY <1>0, <1>2, <2>1, <3>2, OnlyMine DEF OwnDescriptor, InHands
        <4> QED
          BY <2>1, <4>1 DEF Strays, SessionCallsReachItsShell
      <3> QED
        BY <3>1, <3>2
    <2>7. file' \in [Fds -> {Nobody, Stranger} \union Children]
      BY <2>1 DEF Types
    <2>8. /\ running' \in BOOLEAN /\ installed' \in BOOLEAN /\ pty' \in 0 .. spawned
          /\ on' \in [Threads -> 0 .. spawned] /\ \A u \in Threads \ {t} : on'[u] = on[u]
          /\ UNCHANGED <<spawned, probes, master, held, failed, proc>>
          /\ exited' \in SUBSET (1 .. spawned) /\ bound' \in SUBSET (1 .. spawned)
          /\ strays \subseteq strays'
      BY <2>1 DEF Types, Strays
    <2> HIDE DEF IInv
    <2> QED
      BY <1>0, <1>2, <2>1, <2>2, <2>5, <2>6, <2>7, <2>8, StepKinds, HolderMoves
  <1>5. CASE Mark(t)
    <2>1. pc[t] = "mark" /\ pc' = [pc EXCEPT ![t] = "idle"] /\ pc'[t] = "idle" /\ lock' = Nobody
          /\ on' = [on EXCEPT ![t] = Nobody] /\ exited' = exited \union {on[t]} /\ failed' = failed
          /\ UNCHANGED <<session, proc, spawned, probes, master, file, strays, held, bound>>
      BY <1>0, <1>2, <1>5 DEF Mark, Types
    <2>2. OneHand' /\ SignalledFirst'
      BY <2>1 DEF OneHand, SignalledFirst, Holding
    <2>3. \A c \in 1 .. spawned : InHands(c)' <=> InHands(c)
      BY <1>0, <1>2, <2>1, OnlyMine DEF InHands, Holding
    <2>4. on' \in [Threads -> 0 .. spawned] /\ \A u \in Threads \ {t} : on'[u] = on[u]
      BY <1>0, <2>1 DEF Types
    <2>5. ShellsInHands' /\ OwnDescriptor' /\ SessionCallsReachItsShell'
      BY <2>1, <2>3, SameHands
    <2>6. exited' \in SUBSET (1 .. spawned)
      BY <1>2, <2>1 DEF Types
    <2>7. /\ running' \in BOOLEAN /\ installed' \in BOOLEAN /\ pty' \in 0 .. spawned
          /\ UNCHANGED <<spawned, probes, master, held, failed, proc>> /\ lock' # t
          /\ bound' \in SUBSET (1 .. spawned)
          /\ file' \in [Fds -> {Nobody, Stranger} \union Children]
      BY <1>0, <2>1, Roles DEF Types
    <2> HIDE DEF IInv
    <2> QED
      BY <1>0, <1>2, <2>1, <2>2, <2>4, <2>5, <2>6, <2>7, StepKinds, HolderMoves
  <1> QED
    BY <1>3, <1>4, <1>5 DEF Killer

\* A reader whose shell is the current one clears self.pty and may open another.
LEMMA ExitSteps ==
  ASSUME IInv, NEW c \in Children, ExitCurrent(c)
  PROVE  IInv'
  <1> USE DEF IInv, Goto, session, system, objects
  <1>1. c \in Threads \ {Prober} /\ c \in 1 .. spawned /\ Nobody \in 0 .. spawned /\ c # Nobody
    BY Roles DEF ExitCurrent, LifeOfAChild, Types, Children, Nobody
  <1>2. pc[c] = "callback" /\ Free(c) /\ proc[c] = "reaped" /\ pty = c /\ pty' = Nobody
        /\ pc' = [pc EXCEPT ![c] = "enter"]
        /\ UNCHANGED <<running, installed, lock, on, proc, spawned, probes, master, file, strays,
                       held, failed, exited, bound>>
    BY DEF ExitCurrent, LifeOfAChild
  <1>3. lock = Nobody
    BY <1>1, <1>2, OnlyMine DEF MayLock, Locked, Opening, Killing
  <1>4. OneHand' /\ SignalledFirst'
    BY <1>2, <1>3 DEF OneHand, SignalledFirst, Holding
  <1>5. \A d \in 1 .. spawned : ~ InHands(d)'
    BY <1>2, <1>3 DEF InHands, Holding, Nobody
  <1>6. SessionShells' = {}
    <2>1. \A d \in SessionShells : d = c
      BY <1>2, <1>3 DEF ShellsInHands, InHands, Holding
    <2> QED
      BY <1>2, <2>1 DEF SessionShells
  <1>7. ShellsInHands' /\ OwnDescriptor' /\ SessionCallsReachItsShell'
    BY <1>2, <1>5, <1>6 DEF ShellsInHands, OwnDescriptor, SessionCallsReachItsShell
  <1>8. /\ running' \in BOOLEAN /\ installed' \in BOOLEAN /\ pty' \in 0 .. spawned
        /\ on' \in [Threads -> 0 .. spawned] /\ \A u \in Threads \ {c} : on'[u] = on[u]
        /\ exited' \in SUBSET (1 .. spawned) /\ bound' \in SUBSET (1 .. spawned)
        /\ file' \in [Fds -> {Nobody, Stranger} \union Children]
    BY <1>1, <1>2 DEF Types
  <1> HIDE DEF IInv
  <1> QED
    BY <1>1, <1>2, <1>3, <1>4, <1>7, <1>8, StepKinds, HolderMoves

-----------------------------------------------------------------------------
(* Every step, and what follows.                                           *)

\* The prober takes no step of _enter_linux_pty but the fork.
LEMMA ProberOpens ==
  ASSUME IInv, Opener(Prober)
  PROVE  SpawnFails(Prober)
  BY DEF IInv, ProberAlone, Killing, Opener, Enter, EnterRefused, Spawn, Bind, Publish, Goto

LEMMA StepInv == IInv /\ [Next]_vars => IInv'
  <1> SUFFICES ASSUME IInv, [Next]_vars PROVE IInv'
    OBVIOUS
  <1>1. ASSUME NEW u \in Users,
               \/ Start(u) \/ Toggle(u) \/ Stop(u)
               \/ WriteBegin(u) \/ WriteEnd(u) \/ ResizeBegin(u) \/ ResizeEnd(u)
        PROVE  IInv'
    BY <1>1, UserSteps, FreeSteps
  <1>2. CASE OpenAlpine \/ ProbeBegin \/ Probe \/ OpenFile
    <2>1. CASE ProbeSpawn
      BY <2>1, Forks, Roles DEF ProbeSpawn
    <2> QED
      BY <1>2, <2>1, FreeSteps, ProberSteps, OutsideSteps DEF Probe
  <1>3. ASSUME NEW t \in Threads, Opener(t) \/ Killer(t) PROVE IInv'
    <2>1. CASE Spawn(t)
      BY <2>1, Forks DEF Spawn
    <2>2. CASE t = Prober
      BY <1>3, <2>2, ProberOpens, ProberSteps
    <2>3. CASE t # Prober /\ ~ Spawn(t)
      BY <1>3, <2>3, OpenerSteps, KillerSteps
    <2> QED
      BY <2>1, <2>2, <2>3
  <1>4. ASSUME NEW c \in Children, Reader(c) \/ Die(c) \/ LetGo(c) PROVE IInv'
    BY <1>4, ReaderSteps, ExitSteps, OutsideSteps
  <1>5. CASE UNCHANGED vars
    BY <1>5 DEF vars, session, system, objects, IInv, Types, LifeOfAChild, LockDiscipline, OneHand,
                Holding, ProberAlone, ShellsInHands, SessionShells, InHands, SignalledFirst,
                OwnDescriptor, Strayed, SessionCallsReachItsShell
  <1> QED
    BY <1>1, <1>2, <1>3, <1>4, <1>5 DEF Next, Rest

LEMMA Invariance == Spec => []IInv
  BY InitInv, StepInv, PTL DEF Spec

\* The variables have their types, and the lock is only held by a thread that
\* opens, writes to or kills a shell.
THEOREM TypeCorrect == Spec => []TypeOK
  <1>1. IInv => TypeOK
    <2> SUFFICES ASSUME IInv PROVE TypeOK
      OBVIOUS
    <2>1. 1 .. spawned \subseteq Children /\ pty \in Children \union {Nobody}
      BY Roles DEF IInv, Types, Children, Nobody
    <2>2. lock = Nobody \/ pc[lock] \in {"enter", "spawn", "bind", "publish", "write", "signal",
                                         "close", "mark"}
      BY DEF IInv, LockDiscipline, MayLock, Locked, Opening, Killing
    <2> QED
      BY <2>1, <2>2 DEF IInv, Types, LifeOfAChild, TypeOK
  <1> QED
    BY Invariance, <1>1, PTL

\* What is typed for a shell and the close of a killed shell never reach a file
\* of somebody else (pty_session.py:387-400, 617-638): self.lock covers the look
\* at self.pty and the call.
THEOREM SessionCallsSafe == Spec => []SessionCallsReachItsShell
  <1>1. IInv => SessionCallsReachItsShell
    BY DEF IInv
  <1> QED
    BY Invariance, <1>1, PTL

\* A session never has two running shells, whoever opens them, and none is left
\* when stop() is through (pty_session.py:548, 604-606).
THEOREM AtMostOneShell == Spec => []OneShell
  <1>1. IInv => OneShell
    <2> SUFFICES ASSUME IInv PROVE OneShell
      OBVIOUS
    <2>1. PICK h : \A c \in SessionShells : c = h
      <3>1. CASE pty # Nobody
        BY <3>1 DEF IInv, ShellsInHands, InHands, OneHand, Holding, Opening, Killing
      <3>2. CASE pty = Nobody
        BY <3>2 DEF IInv, ShellsInHands, InHands, SessionShells, Nobody
      <3> QED
        BY <3>1, <3>2
    <2>2. Cardinality(SessionShells) <= 1
      <3>1. SessionShells \subseteq {h}
        BY <2>1
      <3>2. IsFiniteSet({h}) /\ Cardinality({h}) = 1
        BY FS_Singleton
      <3>3. Cardinality(SessionShells) <= Cardinality({h})
        BY <3>1, <3>2, FS_Subset
      <3> QED
        BY <3>2, <3>3
    <2>3. ~ running /\ lock = Nobody => SessionShells = {}
      BY DEF IInv, OneHand, ShellsInHands, InHands, Holding, SessionShells, Nobody
    <2> QED
      BY <2>2, <2>3 DEF OneShell
  <1> QED
    BY Invariance, <1>1, PTL
=============================================================================
