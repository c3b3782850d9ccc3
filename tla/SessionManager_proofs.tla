------------------------ MODULE SessionManager_proofs -----------------------
(***************************************************************************)
(* Proofs about SessionManager, for every set of handlers, every cap and   *)
(* every bound.                                                            *)
(*                                                                         *)
(* NeverZero and NoOrphans speak of the moments when no request is being   *)
(* served.  The inductive invariant says what holds in between: who owns   *)
(* the lock, which session an operation in progress is about, and who is   *)
(* still going to repair the tables.                                       *)
(***************************************************************************)
EXTENDS SessionManager, SequenceTheorems, FiniteSetTheorems, TLAPS

\* The lock is held exactly by the handler inside create().
LockInv == \A h \in Handlers : lock = h <=> pc[h] \in CreateSteps

\* What the target of an operation in progress is.
TargetInv ==
  \A h \in Handlers :
    /\ pc[h] \in CreateSteps => target[h] \in sessions
    /\ pc[h] = "close_stop" => target[h] \in Ids \ sessions
    /\ pc[h] \in {"switch_reset", "switch_read", "switch_replay", "resize_apply"}
         => target[h] \in Ids

\* An open session that does not run is being created, a closed one that runs
\* is about to be stopped.
AliveInv ==
  \A s \in Ids :
    /\ s \in sessions /\ ~ objects[s].alive =>
         \E h \in Handlers : pc[h] \in CreateSteps /\ target[h] = s
    /\ s \notin sessions /\ objects[s].alive =>
         \E h \in Handlers : pc[h] = "close_stop" /\ target[h] = s

\* Without a session, some handler is on its way to create one.
RefillInv ==
  sessions = {} =>
    \E h \in Handlers : pc[h] \in {"close_stop", "close_check", "create"}

IInv ==
  /\ TypeOK
  /\ TabsWellFormed
  /\ ActiveIsOpen
  /\ LockInv
  /\ TargetInv
  /\ AliveInv
  /\ RefillInv

-----------------------------------------------------------------------------
(***************************************************************************)
(* Lemmas about the operators of the model.                                *)
(***************************************************************************)

\* What _order.remove leaves: everything before the removed place, then
\* everything after it moved one place down.
LEMMA RemoveAtFacts ==
  ASSUME NEW s \in Seq(Nat), NEW i \in 1..Len(s)
  PROVE  /\ RemoveAt(s, i) \in Seq(Nat)
         /\ Len(RemoveAt(s, i)) = Len(s) - 1
         /\ \A j \in 1..(Len(s) - 1) :
              RemoveAt(s, i)[j] = IF j < i THEN s[j] ELSE s[j + 1]
  <1> DEFINE left == SubSeq(s, 1, i - 1)
             right == SubSeq(s, i + 1, Len(s))
  <1>1. left \in Seq(Nat) /\ Len(left) = i - 1
    OBVIOUS
  <1>2. right \in Seq(Nat) /\ Len(right) = Len(s) - i
    OBVIOUS
  <1>3. \A j \in 1..(i - 1) : left[j] = s[j]
    OBVIOUS
  <1>4. \A j \in i..(Len(s) - 1) : right[j - (i - 1)] = s[j + 1]
    OBVIOUS
  <1>5. RemoveAt(s, i) = left \o right
    BY DEF RemoveAt
  <1> HIDE DEF left, right
  <1>6. left \o right \in Seq(Nat) /\ Len(left \o right) = Len(left) + Len(right)
    <2>1. left \in Seq(Nat) /\ right \in Seq(Nat)
      BY <1>1, <1>2
    <2> QED BY ONLY <2>1
  <1>7. Len(left \o right) = Len(s) - 1
    BY <1>1, <1>2, <1>6
  <1>8. ASSUME NEW j \in 1..(Len(s) - 1)
        PROVE  (left \o right)[j] = IF j < i THEN s[j] ELSE s[j + 1]
    <2>1. CASE j < i
      BY <1>1, <1>2, <1>3, <2>1
    <2>2. CASE ~ (j < i)
      <3>1. (left \o right)[j] = right[j - (i - 1)]
        BY <1>1, <1>2, <2>2, SMTT(30)
      <3>2. j \in i..(Len(s) - 1)
        BY <2>2
      <3> QED BY ONLY <1>4, <2>2, <3>1, <3>2, Zenon
    <2> QED BY <2>1, <2>2
  <1> QED BY <1>5, <1>6, <1>7, <1>8

\* _order.index finds a session that is in the list.
LEMMA IndexFacts ==
  ASSUME NEW id, \E i \in DOMAIN order : order[i] = id
  PROVE  Index(id) \in DOMAIN order /\ order[Index(id)] = id
  BY DEF Index

\* Whatever the place of the removed tab, its successor is one of the tabs
\* that are left, and there is none only when no tab is left.
LEMMA SuccessorFacts ==
  ASSUME NEW rest \in Seq(Nat), NEW i \in Nat \ {0}
  PROVE  /\ rest = << >> => Successor(i, rest) = None
         /\ rest # << >> => \E j \in DOMAIN rest : Successor(i, rest) = rest[j]
  BY DEF Successor

\* Every session object is one.
LEMMA ObjectType ==
  ASSUME TypeOK, NEW s \in Ids
  PROVE  objects[s] \in Session
  <1>1. objects \in Seq(Session)
    BY DEF TypeOK
  <1> QED
    BY <1>1 DEF Ids

\* What an assignment to one session object leaves as it was.
LEMMA ObjectUpdate ==
  ASSUME TypeOK, NEW s \in Ids, NEW o \in Session,
         objects' = [objects EXCEPT ![s] = o]
  PROVE  /\ objects' \in Seq(Session)
         /\ Ids' = Ids
         /\ objects'[s] = o
         /\ \A i \in Ids \ {s} : objects'[i] = objects[i]
  <1>1. objects \in Seq(Session)
    BY DEF TypeOK
  <1> QED
    BY <1>1, ExceptSeq DEF Ids

\* What is sent to the screen is a sequence of chunks.
LEMMA ChunkTypes ==
  ASSUME NEW s \in Nat, NEW n \in Nat
  PROVE  /\ <<Chunk(s, n)>> \in Seq(Nat \X Nat)
         /\ <<Notice>> \in Seq(Nat \X Nat)
         /\ Scrollback(s, n) \in Seq(Nat \X Nat)
  <1>1. Chunk(s, n) \in Nat \X Nat /\ Notice \in Nat \X Nat
    BY DEF Chunk, Notice, None
  <1>2. Scrollback(s, n) \in [1..n -> Nat \X Nat]
    BY DEF Scrollback, Chunk
  <1> QED
    BY <1>1, <1>2

\* Broadcasting chunks keeps the screen a sequence of chunks.
LEMMA BroadcastType ==
  ASSUME TypeOK, NEW text \in Seq(Nat \X Nat), Broadcast(text)
  PROVE  screen' \in Seq(Nat \X Nat)
  <1>1. screen \in Seq(Nat \X Nat)
    BY DEF TypeOK
  <1>2. screen \o text \in Seq(Nat \X Nat)
    BY <1>1
  <1> QED
    BY <1>2 DEF Broadcast

\* _order counts the sessions: the cap on len(_sessions) is a cap on the strip.
LEMMA TabCount ==
  ASSUME TypeOK, TabsWellFormed
  PROVE  Cardinality(sessions) = Len(order)
  <1>1. order \in Seq(Nat) /\ Len(order) \in Nat /\ DOMAIN order = 1..Len(order)
    BY DEF TypeOK
  <1>2. order \in Surjection(1..Len(order), sessions)
    BY <1>1 DEF TabsWellFormed, Surjection
  <1>3. ASSUME NEW i \in 1..Len(order), NEW j \in 1..Len(order), i # j
        PROVE  order[i] # order[j]
    <2>1. i < j \/ j < i
      BY <1>3
    <2>2. order[i] \in Nat /\ order[j] \in Nat
      BY <1>1
    <2> QED
      BY <1>1, <2>1, <2>2 DEF TabsWellFormed
  <1>4. order \in Injection(1..Len(order), sessions)
    BY <1>2, <1>3 DEF Injection, Surjection, IsInjective
  <1>5. ExistsBijection(1..Len(order), sessions)
    BY <1>2, <1>4 DEF ExistsBijection, Bijection
  <1> QED
    BY <1>1, <1>5, FS_CountingElements

-----------------------------------------------------------------------------
(***************************************************************************)
(* The invariant holds initially and every step preserves it.              *)
(***************************************************************************)

\* get_manager leaves the tables consistent.
LEMMA InitInv == Init => IInv
  <1> SUFFICES ASSUME Init
               PROVE  IInv
    OBVIOUS
  <1> USE DEF Init
  <1>1. /\ objects = <<[NewSession EXCEPT !.chunks = 1, !.alive = TRUE]>>
        /\ [NewSession EXCEPT !.chunks = 1, !.alive = TRUE] \in Session
    BY DEF NewSession, Session, ReaderStates
  <1>2. Len(objects) = 1 /\ Ids = {1} /\ objects[1].alive
    <2>1. Len(objects) = 1 /\ objects[1] = [NewSession EXCEPT !.chunks = 1, !.alive = TRUE]
      BY <1>1
    <2>2. Ids = {1}
      BY <2>1 DEF Ids
    <2> QED
      BY <2>1, <2>2 DEF NewSession
  <1>3. TypeOK
    <2>1. objects \in Seq(Session)
      BY <1>1
    <2>2. screen \in Seq(Nat \X Nat)
      BY ChunkTypes
    <2> QED
      BY <1>2, <2>1, <2>2 DEF TypeOK, Steps, CreateSteps, None
  <1>4. TabsWellFormed /\ ActiveIsOpen
    BY MaxSessionsAssumption DEF TabsWellFormed, ActiveIsOpen, None
  <1>5. LockInv /\ TargetInv
    BY HandlersAssumption DEF LockInv, TargetInv, CreateSteps
  <1>6. AliveInv /\ RefillInv
    BY <1>2 DEF AliveInv, RefillInv
  <1> QED
    BY <1>3, <1>4, <1>5, <1>6 DEF IInv

\* Every action of a handler or of a reader thread preserves the invariant.
LEMMA StepInv == IInv /\ [Next]_vars => IInv'
  <1> SUFFICES ASSUME IInv, [Next]_vars
               PROVE  IInv'
    OBVIOUS
  <1> USE MaxSessionsAssumption, HandlersAssumption
  <1> USE DEF IInv
  <1>1. ASSUME NEW h \in Handlers, RequestNew(h)
        PROVE  IInv'
    <2>1. TypeOK'
      BY <1>1
      DEF RequestNew, Request, Goto, manager, locals, TypeOK, Session, Steps, CreateSteps, None, Ids
    <2>2. TabsWellFormed' /\ ActiveIsOpen'
      BY <1>1
      DEF RequestNew, Request, Goto, manager, locals, TabsWellFormed, ActiveIsOpen, TypeOK, Ids, None
    <2>3. LockInv' /\ TargetInv'
      BY <1>1
      DEF RequestNew, Request, Goto, manager, locals, LockInv, TargetInv, CreateSteps, TypeOK, Ids, None, ActiveIsOpen
    <2>4. AliveInv' /\ RefillInv'
      BY <1>1
      DEF RequestNew, Request, Goto, manager, locals, AliveInv, RefillInv, Ids, CreateSteps, TypeOK, Session, TargetInv, LockInv, None, ActiveIsOpen
    <2> QED
      BY <2>1, <2>2, <2>3, <2>4
  <1>2. ASSUME NEW h \in Handlers, RequestResize(h)
        PROVE  IInv'
    <2>1. TypeOK'
      BY <1>2
      DEF RequestResize, Request, Goto, manager, locals, TypeOK, Session, Steps, CreateSteps, None, Ids
    <2>2. TabsWellFormed' /\ ActiveIsOpen'
      BY <1>2
      DEF RequestResize, Request, Goto, manager, locals, TabsWellFormed, ActiveIsOpen, TypeOK, Ids, None
    <2>3. LockInv' /\ TargetInv'
      BY <1>2
      DEF RequestResize, Request, Goto, manager, locals, LockInv, TargetInv, CreateSteps, TypeOK, Ids, None, ActiveIsOpen
    <2>4. AliveInv' /\ RefillInv'
      BY <1>2, SMTT(30)
      DEF RequestResize, Request, Goto, manager, locals, AliveInv, RefillInv, Ids, CreateSteps, TypeOK, Session, TargetInv, LockInv, None, ActiveIsOpen
    <2> QED
      BY <2>1, <2>2, <2>3, <2>4
  <1>3. ASSUME NEW h \in Handlers, NEW id \in Ids, RequestSwitch(h, id)
        PROVE  IInv'
    <2>1. TypeOK'
      BY <1>3, SMTT(30)
      DEF RequestSwitch, Request, Goto, manager, locals, TypeOK, Session, Steps, CreateSteps, None, Ids
    <2>2. TabsWellFormed' /\ ActiveIsOpen'
      BY <1>3
      DEF RequestSwitch, Request, Goto, manager, locals, TabsWellFormed, ActiveIsOpen, TypeOK, Ids, None
    <2>3. LockInv' /\ TargetInv'
      BY <1>3
      DEF RequestSwitch, Request, Goto, manager, locals, LockInv, TargetInv, CreateSteps, TypeOK, Ids, None, ActiveIsOpen
    <2>4. AliveInv' /\ RefillInv'
      BY <1>3
      DEF RequestSwitch, Request, Goto, manager, locals, AliveInv, RefillInv, Ids, CreateSteps, TypeOK, Session, TargetInv, LockInv, None, ActiveIsOpen
    <2> QED
      BY <2>1, <2>2, <2>3, <2>4
  <1>4. ASSUME NEW h \in Handlers, NEW id \in Ids, RequestClose(h, id)
        PROVE  IInv'
    <2>1. TypeOK'
      BY <1>4, SMTT(30)
      DEF RequestClose, Request, Goto, manager, locals, TypeOK, Session, Steps, CreateSteps, None, Ids
    <2>2. TabsWellFormed' /\ ActiveIsOpen'
      BY <1>4
      DEF RequestClose, Request, Goto, manager, locals, TabsWellFormed, ActiveIsOpen, TypeOK, Ids, None
    <2>3. LockInv' /\ TargetInv'
      BY <1>4
      DEF RequestClose, Request, Goto, manager, locals, LockInv, TargetInv, CreateSteps, TypeOK, Ids, None, ActiveIsOpen
    <2>4. AliveInv' /\ RefillInv'
      BY <1>4
      DEF RequestClose, Request, Goto, manager, locals, AliveInv, RefillInv, Ids, CreateSteps, TypeOK, Session, TargetInv, LockInv, None, ActiveIsOpen
    <2> QED
      BY <2>1, <2>2, <2>3, <2>4
  <1>5. ASSUME NEW h \in Handlers, CreateRefused(h)
        PROVE  IInv'
    <2>1. sessions # {}
      BY FS_EmptySet, <1>5 DEF CreateRefused
    <2>2. <<Notice>> \in Seq(Nat \X Nat)
      BY ChunkTypes
    <2>3. screen' \in Seq(Nat \X Nat)
      BY <1>5, <2>2, BroadcastType DEF CreateRefused
    <2>4. TypeOK'
      BY <1>5, <2>3
      DEF CreateRefused, Goto, manager, Free, TypeOK, Session, Steps, CreateSteps, None, Ids
    <2>5. TabsWellFormed' /\ ActiveIsOpen'
      BY <1>5
      DEF CreateRefused, Goto, manager, Free, TabsWellFormed, ActiveIsOpen, TypeOK, Ids, None
    <2>6. LockInv' /\ TargetInv'
      BY <1>5
      DEF CreateRefused, Goto, manager, Free, LockInv, TargetInv, CreateSteps, TypeOK, Ids, None, ActiveIsOpen
    <2>7. AliveInv' /\ RefillInv'
      BY <1>5, <2>1
      DEF CreateRefused, Goto, manager, Free, AliveInv, RefillInv, Ids, CreateSteps, TypeOK, Session, TargetInv, LockInv, None, ActiveIsOpen
    <2> QED
      BY <2>4, <2>5, <2>6, <2>7
  <1>6. ASSUME NEW h \in Handlers, CreateRegister(h)
        PROVE  IInv'
    <2> DEFINE id == Len(objects) + 1
    <2>1. /\ Len(objects) \in Nat /\ id \in Nat /\ Len(order) \in Nat
          /\ order \in Seq(Nat) /\ DOMAIN order = 1..Len(order)
      BY DEF TypeOK
    <2>2. Cardinality(sessions) < MaxSessions
      BY <1>6 DEF CreateRegister
    <2>3. NewSession \in Session
      BY DEF NewSession, Session, ReaderStates
    <2>4. /\ objects' \in Seq(Session) /\ Len(objects') = id
          /\ objects'[id] = NewSession /\ \A i \in Ids : objects'[i] = objects[i]
      BY <1>6, <2>3 DEF CreateRegister, TypeOK, Ids
    <2>5. Ids' = Ids \union {id} /\ id \notin Ids
      BY <2>1, <2>4 DEF Ids
    <2>6. /\ order' \in Seq(Nat) /\ Len(order') = Len(order) + 1
          /\ order'[Len(order) + 1] = id
          /\ \A i \in 1..Len(order) : order'[i] = order[i]
      BY <1>6, <2>1 DEF CreateRegister
    <2>7. sessions' = sessions \union {id} /\ active' = id
      BY <1>6 DEF CreateRegister
    <2>8. TypeOK'
      BY <1>6, <2>4, <2>5, <2>6, <2>7
      DEF CreateRegister, Goto, Free, TypeOK, Steps, CreateSteps, None
    <2>9. TabsWellFormed'
      <3>1. DOMAIN order' = DOMAIN order \union {Len(order) + 1}
        BY <2>1, <2>6
      <3>2. sessions' = {order'[i] : i \in DOMAIN order'}
        BY <2>1, <2>6, <2>7, <3>1 DEF TabsWellFormed
      <3>3. \A i \in DOMAIN order : order[i] < id
        <4>1. \A i \in DOMAIN order : order[i] \in Ids
          BY DEF TabsWellFormed, TypeOK
        <4> QED
          BY <2>1, <4>1 DEF Ids
      <3>4. ASSUME NEW i \in DOMAIN order', NEW j \in DOMAIN order', i < j
            PROVE  order'[i] < order'[j]
        <4>1. i \in DOMAIN order
          BY <2>1, <2>6, <3>4
        <4>2. CASE j \in DOMAIN order
          BY <2>1, <2>6, <3>4, <4>1, <4>2 DEF TabsWellFormed
        <4>3. CASE j = Len(order) + 1
          BY <2>1, <2>6, <3>3, <4>1, <4>3
        <4> QED
          BY <3>1, <4>2, <4>3
      <3>5. Len(order') <= MaxSessions
        BY <2>1, <2>2, <2>6, TabCount
      <3> QED
        BY <3>2, <3>4, <3>5 DEF TabsWellFormed
    <2>10. ActiveIsOpen'
      BY <2>7 DEF ActiveIsOpen
    <2>11. LockInv' /\ TargetInv'
      BY <1>6, <2>5, <2>7
      DEF CreateRegister, Goto, Free, LockInv, TargetInv, CreateSteps, TypeOK
    <2>12. AliveInv'
      <3>1. /\ pc[h] = "create"
            /\ pc' = [pc EXCEPT ![h] = IF active # None THEN "create_reset" ELSE "create_start"]
            /\ target' = [target EXCEPT ![h] = id]
            /\ \A g \in Handlers : pc[g] \notin CreateSteps
        BY <1>6 DEF CreateRegister, Goto, Free, LockInv
      <3>2. pc'[h] \in CreateSteps /\ target'[h] = id
        BY <3>1 DEF CreateSteps, TypeOK
      <3>3. \A g \in Handlers \ {h} : pc'[g] = pc[g] /\ target'[g] = target[g]
        BY <3>1 DEF TypeOK
      <3>4. ~ objects'[id].alive
        BY <2>4 DEF NewSession
      <3>5. ASSUME NEW s \in Ids
            PROVE  /\ s \in sessions => objects'[s].alive
                   /\ s \notin sessions /\ objects'[s].alive =>
                        \E g \in Handlers : pc'[g] = "close_stop" /\ target'[g] = s
        BY <2>4, <3>1, <3>3 DEF AliveInv
      <3> QED
        BY <2>5, <2>7, <3>2, <3>4, <3>5 DEF AliveInv
    <2>13. RefillInv'
      BY <2>7 DEF RefillInv
    <2> QED
      BY <2>8, <2>9, <2>10, <2>11, <2>12, <2>13
  <1>7. ASSUME NEW h \in Handlers, CreateReset(h)
        PROVE  IInv'
    <2>1. TypeOK'
      BY <1>7
      DEF CreateReset, Goto, manager, BroadcastReset, TypeOK, Session, Steps, CreateSteps, None, Ids
    <2>2. TabsWellFormed' /\ ActiveIsOpen'
      BY <1>7
      DEF CreateReset, Goto, manager, BroadcastReset, TabsWellFormed, ActiveIsOpen, TypeOK, Ids, None
    <2>3. LockInv' /\ TargetInv'
      BY <1>7
      DEF CreateReset, Goto, manager, BroadcastReset, LockInv, TargetInv, CreateSteps, TypeOK, Ids, None, ActiveIsOpen
    <2>4. AliveInv' /\ RefillInv'
      BY <1>7
      DEF CreateReset, Goto, manager, BroadcastReset, AliveInv, RefillInv, Ids, CreateSteps, TypeOK, Session, TargetInv, LockInv, None, ActiveIsOpen
    <2> QED
      BY <2>1, <2>2, <2>3, <2>4
  <1>8. ASSUME NEW h \in Handlers, CreateStart(h)
        PROVE  IInv'
    <2>1. target[h] \in Ids
      BY <1>8 DEF CreateStart, Goto, TargetInv, CreateSteps, TypeOK
    <2>2. objects[target[h]] \in Session
      BY <2>1, ObjectType
    <2> DEFINE o == [objects[target[h]] EXCEPT !.size = geometry, !.chunks = 1]
    <2>3. o \in Session
      BY <2>2 DEF Session, ReaderStates, TypeOK
    <2>4. objects' = [objects EXCEPT ![target[h]] = o]
      BY <1>8 DEF CreateStart, Goto, manager
    <2>5. /\ objects' \in Seq(Session) /\ Ids' = Ids
          /\ objects'[target[h]] = o /\ \A i \in Ids \ {target[h]} : objects'[i] = objects[i]
      BY ONLY TypeOK, <2>1, <2>3, <2>4, ObjectUpdate
    <2>6. \A i \in Ids : objects'[i].alive = objects[i].alive
      BY <2>2, <2>5 DEF Session
    <2>7. TypeOK'
      BY <1>8, <2>1, <2>5
      DEF CreateStart, Goto, manager, TypeOK, Session, Steps, CreateSteps, None, Ids
    <2>8. TabsWellFormed' /\ ActiveIsOpen'
      BY <1>8, <2>1, <2>5
      DEF CreateStart, Goto, manager, TabsWellFormed, ActiveIsOpen, TypeOK, Ids, None
    <2>9. LockInv' /\ TargetInv'
      BY <1>8, <2>1, <2>5
      DEF CreateStart, Goto, manager, LockInv, TargetInv, CreateSteps, TypeOK, Ids, None, ActiveIsOpen
    <2>10. AliveInv'
      <3>1. /\ sessions' = sessions /\ target' = target
            /\ \A g \in Handlers : /\ pc'[g] \in CreateSteps <=> pc[g] \in CreateSteps
                                   /\ pc'[g] = "close_stop" <=> pc[g] = "close_stop"
        BY <1>8 DEF CreateStart, Goto, manager, CreateSteps, TypeOK
      <3> QED
        BY <2>5, <2>6, <3>1 DEF AliveInv
    <2>11. RefillInv'
      BY <1>8, <2>1, <2>5, <2>6
      DEF CreateStart, Goto, manager, RefillInv, CreateSteps, None, TypeOK, ActiveIsOpen
    <2> QED
      BY <2>7, <2>8, <2>9, <2>10, <2>11
  <1>9. ASSUME NEW h \in Handlers, CreateShow(h)
        PROVE  IInv'
    <2>1. target[h] \in Nat /\ replay[h] \in Nat
      BY DEF TypeOK, Ids, None
    <2>2. <<Chunk(target[h], 1)>> \in Seq(Nat \X Nat)
      BY <2>1, ChunkTypes
    <2>3. screen' \in Seq(Nat \X Nat)
      BY <1>9, <2>2, BroadcastType DEF CreateShow
    <2>4. TypeOK'
      BY <1>9, <2>3
      DEF CreateShow, Goto, manager, TypeOK, Session, Steps, CreateSteps, None, Ids
    <2>5. TabsWellFormed' /\ ActiveIsOpen'
      BY <1>9
      DEF CreateShow, Goto, manager, TabsWellFormed, ActiveIsOpen, TypeOK, Ids, None
    <2>6. LockInv' /\ TargetInv'
      BY <1>9
      DEF CreateShow, Goto, manager, LockInv, TargetInv, CreateSteps, TypeOK, Ids, None, ActiveIsOpen
    <2>7. AliveInv' /\ RefillInv'
      BY <1>9
      DEF CreateShow, Goto, manager, AliveInv, RefillInv, Ids, CreateSteps, TypeOK, Session, TargetInv, LockInv, None, ActiveIsOpen
    <2> QED
      BY <2>4, <2>5, <2>6, <2>7
  <1>10. ASSUME NEW h \in Handlers, CreateReturn(h)
        PROVE  IInv'
    <2>1. target[h] \in Ids
      BY <1>10 DEF CreateReturn, Goto, TargetInv, CreateSteps, TypeOK
    <2>2. objects[target[h]] \in Session
      BY <2>1, ObjectType
    <2> DEFINE o == [objects[target[h]] EXCEPT !.alive = TRUE]
    <2>3. o \in Session
      BY <2>2 DEF Session, ReaderStates, TypeOK
    <2>4. objects' = [objects EXCEPT ![target[h]] = o]
      BY <1>10 DEF CreateReturn, Goto, manager
    <2>5. /\ objects' \in Seq(Session) /\ Ids' = Ids
          /\ objects'[target[h]] = o /\ \A i \in Ids \ {target[h]} : objects'[i] = objects[i]
      BY ONLY TypeOK, <2>1, <2>3, <2>4, ObjectUpdate
    <2>6. /\ objects'[target[h]].alive
          /\ \A i \in Ids \ {target[h]} : objects'[i].alive = objects[i].alive
      BY <2>2, <2>5 DEF Session
    <2>7. TypeOK'
      BY <1>10, <2>1, <2>5
      DEF CreateReturn, Goto, manager, TypeOK, Session, Steps, CreateSteps, None, Ids
    <2>8. TabsWellFormed' /\ ActiveIsOpen'
      BY <1>10, <2>1, <2>5
      DEF CreateReturn, Goto, manager, TabsWellFormed, ActiveIsOpen, TypeOK, Ids, None
    <2>9. LockInv' /\ TargetInv'
      BY <1>10, <2>1, <2>5
      DEF CreateReturn, Goto, manager, LockInv, TargetInv, CreateSteps, TypeOK, Ids, None, ActiveIsOpen
    <2>10. AliveInv'
      BY <1>10, <2>1, <2>5, <2>6
      DEF CreateReturn, Goto, manager, AliveInv, Ids, CreateSteps, TypeOK, TargetInv, LockInv
    <2>11. RefillInv'
      BY <1>10, <2>1, <2>5, <2>6
      DEF CreateReturn, Goto, manager, RefillInv, CreateSteps, None, TypeOK, ActiveIsOpen
    <2> QED
      BY <2>7, <2>8, <2>9, <2>10, <2>11
  <1>11. ASSUME NEW h \in Handlers, SwitchRefused(h)
        PROVE  IInv'
    <2>1. TypeOK'
      BY <1>11
      DEF SwitchRefused, Goto, manager, Free, TypeOK, Session, Steps, CreateSteps, None, Ids
    <2>2. TabsWellFormed' /\ ActiveIsOpen'
      BY <1>11
      DEF SwitchRefused, Goto, manager, Free, TabsWellFormed, ActiveIsOpen, TypeOK, Ids, None
    <2>3. LockInv' /\ TargetInv'
      BY <1>11
      DEF SwitchRefused, Goto, manager, Free, LockInv, TargetInv, CreateSteps, TypeOK, Ids, None, ActiveIsOpen
    <2>4. AliveInv' /\ RefillInv'
      BY <1>11
      DEF SwitchRefused, Goto, manager, Free, AliveInv, RefillInv, Ids, CreateSteps, TypeOK, Session, TargetInv, LockInv, None, ActiveIsOpen
    <2> QED
      BY <2>1, <2>2, <2>3, <2>4
  <1>12. ASSUME NEW h \in Handlers, SwitchActivate(h)
        PROVE  IInv'
    <2>1. TypeOK'
      BY <1>12
      DEF SwitchActivate, Goto, Free, TypeOK, Session, Steps, CreateSteps, None, Ids
    <2>2. TabsWellFormed' /\ ActiveIsOpen'
      BY <1>12
      DEF SwitchActivate, Goto, Free, TabsWellFormed, ActiveIsOpen, TypeOK, Ids, None
    <2>3. LockInv' /\ TargetInv'
      BY <1>12
      DEF SwitchActivate, Goto, Free, LockInv, TargetInv, CreateSteps, TypeOK, Ids, None, ActiveIsOpen
    <2>4. AliveInv' /\ RefillInv'
      BY <1>12
      DEF SwitchActivate, Goto, Free, AliveInv, RefillInv, Ids, CreateSteps, TypeOK, Session, TargetInv, LockInv, None, ActiveIsOpen
    <2> QED
      BY <2>1, <2>2, <2>3, <2>4
  <1>13. ASSUME NEW h \in Handlers, SwitchReset(h)
        PROVE  IInv'
    <2>1. target[h] \in Ids
      BY <1>13 DEF SwitchReset, Goto, TargetInv, CreateSteps, TypeOK
    <2>2. objects[target[h]] \in Session
      BY <2>1, ObjectType
    <2> DEFINE o == [objects[target[h]] EXCEPT !.size = dims[h]]
    <2>3. o \in Session
      BY <2>2 DEF Session, ReaderStates, TypeOK
    <2>4. objects' = [objects EXCEPT ![target[h]] = o]
      BY <1>13 DEF SwitchReset, Goto, manager, BroadcastReset
    <2>5. /\ objects' \in Seq(Session) /\ Ids' = Ids
          /\ objects'[target[h]] = o /\ \A i \in Ids \ {target[h]} : objects'[i] = objects[i]
      BY ONLY TypeOK, <2>1, <2>3, <2>4, ObjectUpdate
    <2>6. \A i \in Ids : objects'[i].alive = objects[i].alive
      BY <2>2, <2>5 DEF Session
    <2>7. screen' \in Seq(Nat \X Nat)
      BY <1>13 DEF SwitchReset, BroadcastReset
    <2>8. TypeOK'
      BY <1>13, <2>1, <2>5, <2>7
      DEF SwitchReset, Goto, manager, TypeOK, Session, Steps, CreateSteps, None, Ids
    <2>9. TabsWellFormed' /\ ActiveIsOpen'
      BY <1>13, <2>1, <2>5
      DEF SwitchReset, Goto, manager, TabsWellFormed, ActiveIsOpen, TypeOK, Ids, None
    <2>10. LockInv' /\ TargetInv'
      BY <1>13, <2>1, <2>5
      DEF SwitchReset, Goto, manager, LockInv, TargetInv, CreateSteps, TypeOK, Ids, None, ActiveIsOpen
    <2>11. AliveInv'
      <3>1. /\ sessions' = sessions /\ target' = target
            /\ \A g \in Handlers : /\ pc'[g] \in CreateSteps <=> pc[g] \in CreateSteps
                                   /\ pc'[g] = "close_stop" <=> pc[g] = "close_stop"
        BY <1>13 DEF SwitchReset, Goto, manager, CreateSteps, TypeOK
      <3> QED
        BY <2>5, <2>6, <3>1 DEF AliveInv
    <2>12. RefillInv'
      BY <1>13, <2>1, <2>5, <2>6
      DEF SwitchReset, Goto, manager, RefillInv, CreateSteps, None, TypeOK, ActiveIsOpen
    <2> QED
      BY <2>8, <2>9, <2>10, <2>11, <2>12
  <1>14. ASSUME NEW h \in Handlers, SwitchRead(h)
        PROVE  IInv'
    <2>1. objects[target[h]] \in Session
      BY <1>14, ObjectType DEF SwitchRead, Goto, TargetInv
    <2>2. TypeOK'
      BY <1>14, <2>1
      DEF SwitchRead, Goto, manager, TypeOK, Session, Steps, CreateSteps, None, Ids
    <2>3. TabsWellFormed' /\ ActiveIsOpen'
      BY <1>14
      DEF SwitchRead, Goto, manager, TabsWellFormed, ActiveIsOpen, TypeOK, Ids, None
    <2>4. LockInv' /\ TargetInv'
      BY <1>14
      DEF SwitchRead, Goto, manager, LockInv, TargetInv, CreateSteps, TypeOK, Ids, None, ActiveIsOpen
    <2>5. AliveInv' /\ RefillInv'
      BY <1>14, SMTT(30)
      DEF SwitchRead, Goto, manager, AliveInv, RefillInv, Ids, CreateSteps, TypeOK, Session, TargetInv, LockInv, None, ActiveIsOpen
    <2> QED
      BY <2>2, <2>3, <2>4, <2>5
  <1>15. ASSUME NEW h \in Handlers, SwitchReplay(h)
        PROVE  IInv'
    <2>1. target[h] \in Nat /\ replay[h] \in Nat
      BY DEF TypeOK, Ids, None
    <2>2. Scrollback(target[h], replay[h]) \in Seq(Nat \X Nat)
      BY <2>1, ChunkTypes
    <2>3. screen' \in Seq(Nat \X Nat)
      BY <1>15, <2>2, BroadcastType DEF SwitchReplay
    <2>4. TypeOK'
      BY <1>15, <2>3
      DEF SwitchReplay, Goto, manager, TypeOK, Session, Steps, CreateSteps, None, Ids
    <2>5. TabsWellFormed' /\ ActiveIsOpen'
      BY <1>15
      DEF SwitchReplay, Goto, manager, TabsWellFormed, ActiveIsOpen, TypeOK, Ids, None
    <2>6. LockInv' /\ TargetInv'
      BY <1>15
      DEF SwitchReplay, Goto, manager, LockInv, TargetInv, CreateSteps, TypeOK, Ids, None, ActiveIsOpen
    <2>7. AliveInv' /\ RefillInv'
      BY <1>15, SMTT(30)
      DEF SwitchReplay, Goto, manager, AliveInv, RefillInv, Ids, CreateSteps, TypeOK, Session, TargetInv, LockInv, None, ActiveIsOpen
    <2> QED
      BY <2>4, <2>5, <2>6, <2>7
  <1>16. ASSUME NEW h \in Handlers, CloseRefused(h)
        PROVE  IInv'
    <2>1. TypeOK'
      BY <1>16
      DEF CloseRefused, Goto, manager, Free, TypeOK, Session, Steps, CreateSteps, None, Ids
    <2>2. TabsWellFormed' /\ ActiveIsOpen'
      BY <1>16
      DEF CloseRefused, Goto, manager, Free, TabsWellFormed, ActiveIsOpen, TypeOK, Ids, None
    <2>3. LockInv' /\ TargetInv'
      BY <1>16
      DEF CloseRefused, Goto, manager, Free, LockInv, TargetInv, CreateSteps, TypeOK, Ids, None, ActiveIsOpen
    <2>4. AliveInv' /\ RefillInv'
      BY <1>16
      DEF CloseRefused, Goto, manager, Free, AliveInv, RefillInv, Ids, CreateSteps, TypeOK, Session, TargetInv, LockInv, None, ActiveIsOpen
    <2> QED
      BY <2>1, <2>2, <2>3, <2>4
  <1>17. ASSUME NEW h \in Handlers, CloseRemove(h)
        PROVE  IInv'
    <2> DEFINE id   == target[h]
               rest == RemoveAt(order, Index(id))
    <2>1. order \in Seq(Nat) /\ Len(order) \in Nat /\ DOMAIN order = 1..Len(order)
      BY DEF TypeOK
    <2>2. id \in sessions /\ id \in Ids /\ sessions' = sessions \ {id}
      BY <1>17 DEF CloseRemove, TypeOK
    <2>3. Index(id) \in 1..Len(order) /\ order[Index(id)] = id
      BY <2>1, <2>2, IndexFacts DEF TabsWellFormed
    <2>4. /\ rest \in Seq(Nat)
          /\ Len(rest) = Len(order) - 1
          /\ \A j \in 1..(Len(order) - 1) :
               rest[j] = IF j < Index(id) THEN order[j] ELSE order[j + 1]
      BY <2>1, <2>3, RemoveAtFacts
    <2>5. /\ order' = rest
          /\ active' = IF active = id THEN Successor(Index(id), rest) ELSE active
      BY <1>17 DEF CloseRemove
    <2> HIDE DEF rest
    <2>6. TabsWellFormed'
      <3>1. ASSUME NEW j \in DOMAIN rest
            PROVE  rest[j] \in sessions \ {id}
        <4>1. PICK k \in 1..Len(order) : k # Index(id) /\ rest[j] = order[k]
          <5>1. j \in 1..(Len(order) - 1)
            BY <2>4
          <5>2. CASE j < Index(id)
            <6>1. j \in 1..Len(order) /\ j # Index(id)
              BY <2>1, <2>3, <5>1, <5>2
            <6>2. rest[j] = order[j]
              BY <2>4, <5>1, <5>2
            <6> QED
              BY <6>1, <6>2
          <5>3. CASE ~ (j < Index(id))
            <6>1. j + 1 \in 1..Len(order) /\ j + 1 # Index(id)
              BY <2>1, <2>3, <5>1, <5>3
            <6>2. rest[j] = order[j + 1]
              BY <2>4, <5>1, <5>3
            <6> QED
              BY <6>1, <6>2
          <5> QED
            BY <5>2, <5>3
        <4>2. order[k] # order[Index(id)]
          <5>1. k < Index(id) \/ Index(id) < k
            BY <2>3, <4>1
          <5>2. order[k] \in Nat /\ order[Index(id)] \in Nat
            BY <2>1, <2>3
          <5> QED
            BY <2>1, <2>3, <5>1, <5>2 DEF TabsWellFormed
        <4> QED
          BY <2>1, <2>3, <4>1, <4>2 DEF TabsWellFormed
      <3>2. ASSUME NEW x \in sessions \ {id}
            PROVE  \E j \in DOMAIN rest : rest[j] = x
        <4>1. PICK i \in 1..Len(order) : order[i] = x
          BY <2>1 DEF TabsWellFormed
        <4>2. i # Index(id)
          BY <2>3, <4>1
        <4>3. CASE i < Index(id)
          <5>1. i \in 1..(Len(order) - 1)
            BY <2>1, <2>3, <4>1, <4>3
          <5>2. rest[i] = order[i] /\ i \in DOMAIN rest
            BY <2>1, <2>4, <4>3, <5>1
          <5> QED
            BY <4>1, <5>2
        <4>4. CASE i > Index(id)
          <5>1. i - 1 \in 1..(Len(order) - 1) /\ ~ (i - 1 < Index(id))
            BY <2>1, <2>3, <4>1, <4>4
          <5>2. rest[i - 1] = order[i] /\ i - 1 \in DOMAIN rest
            BY <2>1, <2>4, <5>1
          <5> QED
            BY <4>1, <5>2
        <4> QED
          BY <2>1, <2>3, <4>1, <4>2, <4>3, <4>4
      <3>3. sessions' = {rest[j] : j \in DOMAIN rest}
        BY <2>2, <3>1, <3>2
      <3>4. ASSUME NEW i \in DOMAIN rest, NEW j \in DOMAIN rest, i < j
            PROVE  rest[i] < rest[j]
        <4>1. i \in 1..(Len(order) - 1) /\ j \in 1..(Len(order) - 1)
          BY <2>4
        <4> DEFINE place(k) == IF k < Index(id) THEN k ELSE k + 1
        <4>2. place(i) \in 1..Len(order) /\ place(j) \in 1..Len(order) /\ place(i) < place(j)
          BY <2>1, <2>3, <3>4, <4>1
        <4>3. rest[i] = order[place(i)] /\ rest[j] = order[place(j)]
          BY <2>4, <4>1
        <4> QED
          BY <2>1, <4>2, <4>3 DEF TabsWellFormed
      <3>5. Len(rest) <= MaxSessions
        BY <2>1, <2>4 DEF TabsWellFormed
      <3> QED
        BY <2>5, <3>3, <3>4, <3>5 DEF TabsWellFormed
    <2>7. active' # None => active' \in sessions'
      <3>1. CASE active # id
        BY <2>2, <2>5, <3>1 DEF ActiveIsOpen
      <3>2. CASE active = id /\ rest = << >>
        <4>1. Successor(Index(id), rest) = None
          <5>1. Index(id) \in Nat \ {0}
            BY <2>1, <2>3
          <5> QED
            BY <2>4, <3>2, <5>1, SuccessorFacts
        <4> QED
          BY <2>5, <3>2, <4>1
      <3>3. CASE active = id /\ rest # << >>
        BY <2>3, <2>4, <2>5, <2>6, <3>3, SuccessorFacts DEF TabsWellFormed
      <3> QED
        BY <3>1, <3>2, <3>3
    <2>8. TypeOK'
      BY <1>17, <2>2, <2>4, <2>5, <2>7
      DEF CloseRemove, Goto, Free, TypeOK, Steps, CreateSteps, None, Ids
    <2>9. ActiveIsOpen'
      BY <2>7 DEF ActiveIsOpen
    <2>10. LockInv' /\ TargetInv'
      BY <1>17, <2>2 DEF CloseRemove, Goto, Free, LockInv, TargetInv, CreateSteps, TypeOK, Ids
    <2>11. AliveInv' /\ RefillInv'
      BY <1>17, <2>2 DEF CloseRemove, Goto, Free, AliveInv, RefillInv, LockInv, CreateSteps, TypeOK, Ids
    <2> QED
      BY <2>6, <2>8, <2>9, <2>10, <2>11
  <1>18. ASSUME NEW h \in Handlers, CloseStop(h)
        PROVE  IInv'
    <2>1. target[h] \in Ids
      BY <1>18 DEF CloseStop, Goto, TargetInv, CreateSteps, TypeOK
    <2>2. objects[target[h]] \in Session
      BY <2>1, ObjectType
    <2> DEFINE o == [objects[target[h]] EXCEPT !.alive = FALSE]
    <2>3. o \in Session
      BY <2>2 DEF Session, ReaderStates, TypeOK
    <2>4. objects' = [objects EXCEPT ![target[h]] = o]
      BY <1>18 DEF CloseStop, Goto, manager
    <2>5. /\ objects' \in Seq(Session) /\ Ids' = Ids
          /\ objects'[target[h]] = o /\ \A i \in Ids \ {target[h]} : objects'[i] = objects[i]
      BY ONLY TypeOK, <2>1, <2>3, <2>4, ObjectUpdate
    <2>6. /\ ~ objects'[target[h]].alive
          /\ \A i \in Ids \ {target[h]} : objects'[i].alive = objects[i].alive
      BY <2>2, <2>5 DEF Session
    <2>7. TypeOK'
      BY <1>18, <2>1, <2>5
      DEF CloseStop, Goto, manager, TypeOK, Session, Steps, CreateSteps, None, Ids
    <2>8. TabsWellFormed' /\ ActiveIsOpen'
      BY <1>18, <2>1, <2>5
      DEF CloseStop, Goto, manager, TabsWellFormed, ActiveIsOpen, TypeOK, Ids, None
    <2>9. LockInv' /\ TargetInv'
      BY <1>18, <2>1, <2>5
      DEF CloseStop, Goto, manager, LockInv, TargetInv, CreateSteps, TypeOK, Ids, None, ActiveIsOpen
    <2>10. AliveInv'
      BY <1>18, <2>1, <2>5, <2>6
      DEF CloseStop, Goto, manager, AliveInv, Ids, CreateSteps, TypeOK, TargetInv, LockInv
    <2>11. RefillInv'
      BY <1>18, <2>1, <2>5, <2>6
      DEF CloseStop, Goto, manager, RefillInv, CreateSteps, None, TypeOK, ActiveIsOpen
    <2> QED
      BY <2>7, <2>8, <2>9, <2>10, <2>11
  <1>19. ASSUME NEW h \in Handlers, CloseCheck(h)
        PROVE  IInv'
    <2>1. TypeOK'
      BY <1>19
      DEF CloseCheck, Goto, manager, TypeOK, Session, Steps, CreateSteps, None, Ids
    <2>2. TabsWellFormed' /\ ActiveIsOpen'
      BY <1>19
      DEF CloseCheck, Goto, manager, TabsWellFormed, ActiveIsOpen, TypeOK, Ids, None
    <2>3. LockInv' /\ TargetInv'
      BY <1>19
      DEF CloseCheck, Goto, manager, LockInv, TargetInv, CreateSteps, TypeOK, Ids, None, ActiveIsOpen
    <2>4. AliveInv' /\ RefillInv'
      BY <1>19
      DEF CloseCheck, Goto, manager, AliveInv, RefillInv, Ids, CreateSteps, TypeOK, Session, TargetInv, LockInv, None, ActiveIsOpen
    <2> QED
      BY <2>1, <2>2, <2>3, <2>4
  <1>20. ASSUME NEW h \in Handlers, CloseTake(h)
        PROVE  IInv'
    <2>1. TypeOK'
      BY <1>20
      DEF CloseTake, Goto, manager, TypeOK, Session, Steps, CreateSteps, None, Ids
    <2>2. TabsWellFormed' /\ ActiveIsOpen'
      BY <1>20
      DEF CloseTake, Goto, manager, TabsWellFormed, ActiveIsOpen, TypeOK, Ids, None
    <2>3. LockInv' /\ TargetInv'
      BY <1>20
      DEF CloseTake, Goto, manager, LockInv, TargetInv, CreateSteps, TypeOK, Ids, None, ActiveIsOpen
    <2>4. AliveInv' /\ RefillInv'
      BY <1>20
      DEF CloseTake, Goto, manager, AliveInv, RefillInv, Ids, CreateSteps, TypeOK, Session, TargetInv, LockInv, None, ActiveIsOpen
    <2> QED
      BY <2>1, <2>2, <2>3, <2>4
  <1>21. ASSUME NEW h \in Handlers, CloseBlank(h)
        PROVE  IInv'
    <2>1. TypeOK'
      BY <1>21
      DEF CloseBlank, Goto, TypeOK, Session, Steps, CreateSteps, None, Ids
    <2>2. TabsWellFormed' /\ ActiveIsOpen'
      BY <1>21
      DEF CloseBlank, Goto, TabsWellFormed, ActiveIsOpen, TypeOK, Ids, None
    <2>3. LockInv' /\ TargetInv'
      BY <1>21
      DEF CloseBlank, Goto, LockInv, TargetInv, CreateSteps, TypeOK, Ids, None, ActiveIsOpen
    <2>4. AliveInv' /\ RefillInv'
      BY <1>21
      DEF CloseBlank, Goto, AliveInv, RefillInv, Ids, CreateSteps, TypeOK, Session, TargetInv, LockInv, None, ActiveIsOpen
    <2> QED
      BY <2>1, <2>2, <2>3, <2>4
  <1>22. ASSUME NEW h \in Handlers, ResizeStore(h)
        PROVE  IInv'
    <2>1. TypeOK'
      BY <1>22
      DEF ResizeStore, Goto, Free, TypeOK, Session, Steps, CreateSteps, None, Ids
    <2>2. TabsWellFormed' /\ ActiveIsOpen'
      BY <1>22
      DEF ResizeStore, Goto, Free, TabsWellFormed, ActiveIsOpen, TypeOK, Ids, None
    <2>3. LockInv' /\ TargetInv'
      BY <1>22
      DEF ResizeStore, Goto, Free, LockInv, TargetInv, CreateSteps, TypeOK, Ids, None, ActiveIsOpen
    <2>4. AliveInv' /\ RefillInv'
      BY <1>22
      DEF ResizeStore, Goto, Free, AliveInv, RefillInv, Ids, CreateSteps, TypeOK, Session, TargetInv, LockInv, None, ActiveIsOpen
    <2> QED
      BY <2>1, <2>2, <2>3, <2>4
  <1>23. ASSUME NEW h \in Handlers, ResizeApply(h)
        PROVE  IInv'
    <2>1. target[h] \in Ids
      BY <1>23 DEF ResizeApply, Goto, TargetInv, CreateSteps, TypeOK
    <2>2. objects[target[h]] \in Session
      BY <2>1, ObjectType
    <2> DEFINE o == [objects[target[h]] EXCEPT !.size = dims[h]]
    <2>3. o \in Session
      BY <2>2 DEF Session, ReaderStates, TypeOK
    <2>4. objects' = [objects EXCEPT ![target[h]] = o]
      BY <1>23 DEF ResizeApply, Goto, manager
    <2>5. /\ objects' \in Seq(Session) /\ Ids' = Ids
          /\ objects'[target[h]] = o /\ \A i \in Ids \ {target[h]} : objects'[i] = objects[i]
      BY ONLY TypeOK, <2>1, <2>3, <2>4, ObjectUpdate
    <2>6. \A i \in Ids : objects'[i].alive = objects[i].alive
      BY <2>2, <2>5 DEF Session
    <2>7. TypeOK'
      BY <1>23, <2>1, <2>5
      DEF ResizeApply, Goto, manager, TypeOK, Session, Steps, CreateSteps, None, Ids
    <2>8. TabsWellFormed' /\ ActiveIsOpen'
      BY <1>23, <2>1, <2>5
      DEF ResizeApply, Goto, manager, TabsWellFormed, ActiveIsOpen, TypeOK, Ids, None
    <2>9. LockInv' /\ TargetInv'
      BY <1>23, <2>1, <2>5
      DEF ResizeApply, Goto, manager, LockInv, TargetInv, CreateSteps, TypeOK, Ids, None, ActiveIsOpen
    <2>10. AliveInv'
      <3>1. /\ sessions' = sessions /\ target' = target
            /\ \A g \in Handlers : /\ pc'[g] \in CreateSteps <=> pc[g] \in CreateSteps
                                   /\ pc'[g] = "close_stop" <=> pc[g] = "close_stop"
        BY <1>23 DEF ResizeApply, Goto, manager, CreateSteps, TypeOK
      <3> QED
        BY <2>5, <2>6, <3>1 DEF AliveInv
    <2>11. RefillInv'
      BY <1>23, <2>1, <2>5, <2>6
      DEF ResizeApply, Goto, manager, RefillInv, CreateSteps, None, TypeOK, ActiveIsOpen
    <2> QED
      BY <2>7, <2>8, <2>9, <2>10, <2>11
  <1>24. ASSUME NEW s \in Ids, EmitRecord(s)
        PROVE  IInv'
    <2>1. s \in Ids
      OBVIOUS
    <2>2. objects[s] \in Session
      BY <2>1, ObjectType
    <2> DEFINE o == [objects[s] EXCEPT !.reader = "recorded", !.chunks = @ + 1]
    <2>3. o \in Session
      <3>1. objects[s].chunks + 1 \in Nat
        BY <2>2 DEF Session
      <3> QED
        BY <2>2, <3>1 DEF Session, ReaderStates
    <2>4. objects' = [objects EXCEPT ![s] = o]
      BY <1>24 DEF EmitRecord, manager, locals
    <2>5. /\ objects' \in Seq(Session) /\ Ids' = Ids
          /\ objects'[s] = o /\ \A i \in Ids \ {s} : objects'[i] = objects[i]
      BY ONLY TypeOK, <2>1, <2>3, <2>4, ObjectUpdate
    <2>6. \A i \in Ids : objects'[i].alive = objects[i].alive
      BY <2>2, <2>5 DEF Session
    <2>7. TypeOK'
      BY <1>24, <2>1, <2>5
      DEF EmitRecord, manager, locals, TypeOK, Session, Steps, CreateSteps, None, Ids
    <2>8. TabsWellFormed' /\ ActiveIsOpen'
      BY <1>24, <2>1, <2>5
      DEF EmitRecord, manager, locals, TabsWellFormed, ActiveIsOpen, TypeOK, Ids, None
    <2>9. LockInv' /\ TargetInv'
      BY <1>24, <2>1, <2>5
      DEF EmitRecord, manager, locals, LockInv, TargetInv, CreateSteps, TypeOK, Ids, None, ActiveIsOpen
    <2>10. AliveInv'
      BY <1>24, <2>1, <2>5, <2>6
      DEF EmitRecord, manager, locals, AliveInv, Ids, CreateSteps, TypeOK, TargetInv, LockInv
    <2>11. RefillInv'
      BY <1>24, <2>1, <2>5, <2>6
      DEF EmitRecord, manager, locals, RefillInv, CreateSteps, None, TypeOK, ActiveIsOpen
    <2> QED
      BY <2>7, <2>8, <2>9, <2>10, <2>11
  <1>25. ASSUME NEW s \in Ids, EmitCheck(s)
        PROVE  IInv'
    <2>1. s \in Ids
      OBVIOUS
    <2>2. objects[s] \in Session
      BY <2>1, ObjectType
    <2> DEFINE o == [objects[s] EXCEPT !.reader = IF active = s THEN "cleared" ELSE "reading"]
    <2>3. o \in Session
      BY <2>2 DEF Session, ReaderStates, TypeOK
    <2>4. objects' = [objects EXCEPT ![s] = o]
      BY <1>25 DEF EmitCheck, Reader, manager, locals
    <2>5. /\ objects' \in Seq(Session) /\ Ids' = Ids
          /\ objects'[s] = o /\ \A i \in Ids \ {s} : objects'[i] = objects[i]
      BY ONLY TypeOK, <2>1, <2>3, <2>4, ObjectUpdate
    <2>6. \A i \in Ids : objects'[i].alive = objects[i].alive
      BY <2>2, <2>5 DEF Session
    <2>7. TypeOK'
      BY <1>25, <2>1, <2>5
      DEF EmitCheck, Reader, manager, locals, TypeOK, Session, Steps, CreateSteps, None, Ids
    <2>8. TabsWellFormed' /\ ActiveIsOpen'
      BY <1>25, <2>1, <2>5
      DEF EmitCheck, Reader, manager, locals, TabsWellFormed, ActiveIsOpen, TypeOK, Ids, None
    <2>9. LockInv' /\ TargetInv'
      BY <1>25, <2>1, <2>5
      DEF EmitCheck, Reader, manager, locals, LockInv, TargetInv, CreateSteps, TypeOK, Ids, None, ActiveIsOpen
    <2>10. AliveInv'
      BY <1>25, <2>1, <2>5, <2>6
      DEF EmitCheck, Reader, manager, locals, AliveInv, Ids, CreateSteps, TypeOK, TargetInv, LockInv
    <2>11. RefillInv'
      BY <1>25, <2>1, <2>5, <2>6
      DEF EmitCheck, Reader, manager, locals, RefillInv, CreateSteps, None, TypeOK, ActiveIsOpen
    <2> QED
      BY <2>7, <2>8, <2>9, <2>10, <2>11
  <1>26. ASSUME NEW s \in Ids, EmitShow(s)
        PROVE  IInv'
    <2>1. s \in Ids
      OBVIOUS
    <2>2. objects[s] \in Session
      BY <2>1, ObjectType
    <2> DEFINE o == [objects[s] EXCEPT !.reader = "reading"]
    <2>3. o \in Session
      BY <2>2 DEF Session, ReaderStates, TypeOK
    <2>4. objects' = [objects EXCEPT ![s] = o]
      BY <1>26 DEF EmitShow, Reader, manager, locals
    <2>5. /\ objects' \in Seq(Session) /\ Ids' = Ids
          /\ objects'[s] = o /\ \A i \in Ids \ {s} : objects'[i] = objects[i]
      BY ONLY TypeOK, <2>1, <2>3, <2>4, ObjectUpdate
    <2>6. \A i \in Ids : objects'[i].alive = objects[i].alive
      BY <2>2, <2>5 DEF Session
    <2>7. objects[s].chunks \in Nat /\ s \in Nat
      BY <2>2 DEF Session, Ids
    <2>8. <<Chunk(s, objects[s].chunks)>> \in Seq(Nat \X Nat)
      BY <2>7, ChunkTypes
    <2>9. screen' \in Seq(Nat \X Nat)
      BY <1>26, <2>8, BroadcastType DEF EmitShow
    <2>10. TypeOK'
      BY <1>26, <2>1, <2>5, <2>9
      DEF EmitShow, Reader, manager, locals, TypeOK, Session, Steps, CreateSteps, None, Ids
    <2>11. TabsWellFormed' /\ ActiveIsOpen'
      BY <1>26, <2>1, <2>5
      DEF EmitShow, Reader, manager, locals, TabsWellFormed, ActiveIsOpen, TypeOK, Ids, None
    <2>12. LockInv' /\ TargetInv'
      BY <1>26, <2>1, <2>5
      DEF EmitShow, Reader, manager, locals, LockInv, TargetInv, CreateSteps, TypeOK, Ids, None, ActiveIsOpen
    <2>13. AliveInv'
      BY <1>26, <2>1, <2>5, <2>6
      DEF EmitShow, Reader, manager, locals, AliveInv, Ids, CreateSteps, TypeOK, TargetInv, LockInv
    <2>14. RefillInv'
      BY <1>26, <2>1, <2>5, <2>6
      DEF EmitShow, Reader, manager, locals, RefillInv, CreateSteps, None, TypeOK, ActiveIsOpen
    <2> QED
      BY <2>10, <2>11, <2>12, <2>13, <2>14
  <1>27. CASE UNCHANGED vars
    <2> USE <1>27 DEF vars, manager, locals
    <2>1. TypeOK' /\ Ids' = Ids
      BY DEF TypeOK, Ids
    <2>2. TabsWellFormed' /\ ActiveIsOpen'
      BY DEF TabsWellFormed, ActiveIsOpen
    <2>3. LockInv' /\ TargetInv'
      BY <2>1 DEF LockInv, TargetInv
    <2>4. AliveInv' /\ RefillInv'
      BY <2>1 DEF AliveInv, RefillInv
    <2> QED
      BY <2>1, <2>2, <2>3, <2>4
  <1> QED
    BY <1>1, <1>2, <1>3, <1>4, <1>5, <1>6, <1>7, <1>8, <1>9, <1>10, <1>11, <1>12, <1>13, <1>14, <1>15, <1>16, <1>17, <1>18, <1>19, <1>20, <1>21, <1>22, <1>23, <1>24, <1>25, <1>26, <1>27 DEF Next, ClientMessage, HandlerStep, ReaderFinish, Rest

\* The inductive invariant holds in every reachable state.
THEOREM Invariance == Spec => []IInv
  BY InitInv, StepInv, PTL DEF Spec

\* Every variable keeps its type, whatever the number of clients, the cap and
\* the bounds.
THEOREM TypeCorrect == Spec => []TypeOK
  BY Invariance, PTL DEF IInv

\* _order always lists the keys of _sessions, each once and oldest first, and
\* never more than MAX_SESSIONS of them: no interleaving of creates and closes
\* lets the two tables drift apart.
THEOREM TabsStayWellFormed == Spec => []TabsWellFormed
  BY Invariance, PTL DEF IInv

\* The session on screen is never a closed one, although close() and switch()
\* leave the lock between choosing a session and making it active.
THEOREM ActiveStaysOpen == Spec => []ActiveIsOpen
  BY Invariance, PTL DEF IInv

\* However many clients close tabs at once, a session is left when they are
\* all served: whoever emptied the table has not finished yet.
THEOREM NeverLeavesZero == Spec => []NeverZero
  <1>1. IInv => NeverZero
    BY DEF IInv, RefillInv, NeverZero, HandlersIdle
  <1> QED
    BY <1>1, Invariance, PTL

\* When every request is served, the sessions that run are the open ones.
THEOREM NoOrphansLeft == Spec => []NoOrphans
  <1>1. IInv => NoOrphans
    <2> SUFFICES ASSUME IInv, HandlersIdle, NEW s \in Ids
                 PROVE  objects[s].alive <=> s \in sessions
      BY DEF NoOrphans
    <2>1. \A h \in Handlers : pc[h] \notin CreateSteps /\ pc[h] # "close_stop"
      BY DEF HandlersIdle, CreateSteps
    <2> QED
      BY <2>1 DEF IInv, AliveInv
  <1> QED
    BY <1>1, Invariance, PTL

-----------------------------------------------------------------------------
(***************************************************************************)
(* One client: nobody interferes with its requests, so the screen can be   *)
(* accounted for, and what the strip of tabs does is what TabStrip does.   *)
(***************************************************************************)

\* What the steps in progress rely on.  _active is None while close() is about
\* to refill the strip, or about to repaint a tab.
Course(h) ==
  /\ active = None =>
       \/ pc[h] \in {"close_stop", "close_check", "create"} /\ order = << >>
       \/ pc[h] = "switch" /\ target[h] \in sessions
  /\ pc[h] \in {"close_take", "close_blank"} => active # None
  /\ pc[h] \in CreateSteps \union {"switch_reset", "switch_read", "switch_replay", "close_blank"}
       => target[h] = active
  /\ pc[h] \in CreateSteps => ~ objects[target[h]].alive
  /\ pc[h] \in {"create_reset", "create_start"} => objects[target[h]].chunks = 0
  /\ pc[h] = "create_show" => objects[target[h]].chunks = 1

OnScreen(s, k) == \E i \in DOMAIN screen : screen[i] = Chunk(s, k)

\* Between close() and its switch() the tab that took over has not been painted.
Unpainted(h) ==
  \/ pc[h] \in {"close_stop", "close_check"} /\ wasActive[h]
  \/ pc[h] \in {"close_take", "close_blank"}

\* Chunk k of the active session is on its way to the screen.
Due(h, k) ==
  \/ k = objects[active].chunks /\ objects[active].reader # "reading"
  \/ pc[h] \in {"switch_reset", "switch_read"}
  \/ pc[h] = "switch_replay" /\ k <= replay[h]
  \/ pc[h] = "create_show" /\ k = 1

Painted(h) ==
  active # None /\ ~ Unpainted(h) =>
    \A k \in 1 .. objects[active].chunks : OnScreen(active, k) \/ Due(h, k)

\* What is broadcast comes after what is on the screen.
LEMMA ScreenGrows ==
  ASSUME TypeOK, NEW text \in Seq(Nat \X Nat), Broadcast(text), NEW s, NEW k
  PROVE  /\ OnScreen(s, k) => \E i \in DOMAIN screen' : screen'[i] = Chunk(s, k)
         /\ (\E j \in DOMAIN text : text[j] = Chunk(s, k))
              => \E i \in DOMAIN screen' : screen'[i] = Chunk(s, k)
  <1> DEFINE c == Chunk(s, k)
  <1>1. screen \in Seq(Nat \X Nat) /\ screen' = screen \o text
    BY DEF TypeOK, Broadcast
  <1> HIDE DEF c
  <1>2. \A i \in DOMAIN screen : i \in DOMAIN screen' /\ screen'[i] = screen[i]
    BY <1>1
  <1>3. \A j \in DOMAIN text : Len(screen) + j \in DOMAIN screen' /\ screen'[Len(screen) + j] = text[j]
    BY <1>1
  <1> QED
    BY <1>2, <1>3 DEF OnScreen

\* The steps that leave the tables, the sessions and the screen alone.
LEMMA PlainSteps ==
  ASSUME IInv, NEW h, Handlers = {h}, Course(h), Painted(h),
         \/ RequestNew(h) \/ RequestResize(h)
         \/ \E id \in Ids : RequestSwitch(h, id) \/ RequestClose(h, id)
         \/ SwitchRefused(h) \/ CloseRefused(h) \/ CloseCheck(h) \/ CloseTake(h)
         \/ ResizeStore(h)
  PROVE  Course(h)' /\ Painted(h)'
  <1> USE DEF Goto, manager
  <1>0. h \in Handlers /\ pc \in [Handlers -> Steps] /\ target \in [Handlers -> Ids \union {None}]
    BY DEF IInv, TypeOK
  <1>00. sessions \subseteq Ids /\ None \notin Ids
    BY DEF IInv, TypeOK, Ids, None
  <1>1. /\ UNCHANGED <<sessions, order, active, objects, screen, wasActive>>
        /\ pc[h] \in {"idle", "switch", "close", "close_check", "close_take", "resize"}
    BY DEF RequestNew, RequestResize, RequestSwitch, RequestClose, Request, SwitchRefused,
           CloseRefused, CloseCheck, CloseTake, ResizeStore
  <1>2. Course(h)' /\ (Unpainted(h) /\ active # None => Unpainted(h)')
    <2>1. CASE RequestNew(h) \/ RequestResize(h) \/ \E id \in Ids : RequestSwitch(h, id) \/ RequestClose(h, id)
      BY <1>0, <2>1 DEF RequestNew, RequestResize, RequestSwitch, RequestClose, Request, Course,
             Unpainted, CreateSteps
    <2>2. CASE SwitchRefused(h) \/ CloseRefused(h) \/ ResizeStore(h)
      BY <1>0, <1>00, <2>2 DEF SwitchRefused, CloseRefused, ResizeStore, Course, Unpainted, CreateSteps
    <2>3. CASE CloseCheck(h)
      BY <1>0, <2>3 DEF CloseCheck, Course, Unpainted, CreateSteps
    <2>4. CASE CloseTake(h)
      BY <1>0, <2>4 DEF CloseTake, Course, Unpainted, CreateSteps
    <2> QED
      BY <2>1, <2>2, <2>3, <2>4
  <1>3. \A k : Due(h, k) => Due(h, k)'
    BY <1>1 DEF Due
  <1>4. \A k : OnScreen(active, k) => OnScreen(active, k)'
    BY <1>1 DEF OnScreen
  <1> QED
    BY <1>1, <1>2, <1>3, <1>4 DEF Painted

\* The steps of create().
LEMMA CreateScreenSteps ==
  ASSUME IInv, NEW h, Handlers = {h}, Course(h), Painted(h),
         CreateRefused(h) \/ CreateReset(h) \/ CreateShow(h)
  PROVE  Course(h)' /\ Painted(h)'
  <1> USE DEF Goto, manager
  <1>0. h \in Handlers /\ pc \in [Handlers -> Steps] /\ TypeOK
    BY DEF IInv, TypeOK
  <1>1. CASE CreateRefused(h)
    <2>1. active # None
      <3> SUFFICES ASSUME active = None PROVE FALSE
        OBVIOUS
      <3>1. sessions = {}
        BY <1>1 DEF CreateRefused, Course, IInv, TabsWellFormed
      <3> QED
        BY <1>1, <3>1, FS_EmptySet, MaxSessionsAssumption DEF CreateRefused
    <2>2. /\ UNCHANGED <<sessions, order, active, objects>>
          /\ pc[h] = "create" /\ pc'[h] = "idle" /\ Broadcast(<<Notice>>)
      BY <1>0, <1>1 DEF CreateRefused
    <2>3. <<Notice>> \in Seq(Nat \X Nat)
      BY ChunkTypes
    <2>4. \A k : OnScreen(active, k) => OnScreen(active, k)'
      BY <1>0, <2>2, <2>3, ScreenGrows DEF OnScreen
    <2>5. \A k : Due(h, k) => Due(h, k)'
      BY <2>2 DEF Due
    <2> QED
      BY <2>1, <2>2, <2>4, <2>5 DEF Course, Painted, Unpainted, CreateSteps
  <1>2. CASE CreateReset(h)
    <2>1. /\ UNCHANGED <<sessions, order, active, objects, target>>
          /\ pc[h] = "create_reset" /\ pc'[h] = "create_start"
      BY <1>0, <1>2 DEF CreateReset
    <2>2. Course(h)' /\ objects[active].chunks = 0
      BY <2>1 DEF Course, CreateSteps
    <2> QED
      BY <2>1, <2>2 DEF Painted
  <1>3. CASE CreateShow(h)
    <2>1. /\ UNCHANGED <<sessions, order, active, objects, target>>
          /\ pc[h] = "create_show" /\ pc'[h] = "create_return"
          /\ Broadcast(<<Chunk(target[h], 1)>>)
      BY <1>0, <1>3 DEF CreateShow
    <2>2. Course(h)' /\ objects[active].chunks = 1 /\ target[h] = active
      BY <2>1 DEF Course, CreateSteps
    <2>3. <<Chunk(target[h], 1)>> \in Seq(Nat \X Nat)
      <3>1. target[h] \in Nat
        BY <1>0 DEF TypeOK, Ids, None
      <3> QED
        BY <3>1, ChunkTypes
    <2>4. OnScreen(active, 1)'
      <3> DEFINE text == <<Chunk(target[h], 1)>>
      <3>1. 1 \in DOMAIN text /\ text[1] = Chunk(active, 1)
        BY <2>2
      <3> QED
        BY <1>0, <2>1, <2>3, <3>1, ScreenGrows DEF OnScreen
    <2>5. \A k \in 1 .. objects'[active'].chunks : k = 1
      BY <2>1, <2>2
    <2> QED
      BY <2>2, <2>4, <2>5 DEF Painted
  <1> QED
    BY <1>1, <1>2, <1>3

\* What changes in the object of one session.
LEMMA CreateObjectSteps ==
  ASSUME IInv, NEW h, Handlers = {h}, Course(h), Painted(h), CreateStart(h) \/ CreateReturn(h)
  PROVE  Course(h)' /\ Painted(h)'
  <1> USE DEF Goto, manager
  <1>0. h \in Handlers /\ pc \in [Handlers -> Steps] /\ TypeOK
        /\ after \in [Handlers -> {"idle", "switch"}]
    BY DEF IInv, TypeOK
  <1>1. target[h] \in Ids /\ target[h] = active /\ ~ objects[active].alive /\ active # None
    <2>1. pc[h] \in CreateSteps
      BY <1>0 DEF CreateStart, CreateReturn, CreateSteps
    <2> QED
      BY <1>0, <2>1 DEF IInv, TargetInv, Course, TypeOK, Ids, None
  <1>2. objects[active] \in Session
    BY <1>0, <1>1, ObjectType
  <1>3. CASE CreateStart(h)
    <2> DEFINE o == [objects[active] EXCEPT !.size = geometry, !.chunks = 1]
    <2>1. o \in Session /\ o.chunks = 1 /\ ~ o.alive
      BY <1>1, <1>2 DEF Session, IInv, TypeOK
    <2>2. objects' = [objects EXCEPT ![active] = o]
      BY <1>1, <1>3 DEF CreateStart
    <2> HIDE DEF o
    <2>3. objects'[active] = o
      <3>1. active \in Ids /\ o \in Session /\ TypeOK
        BY <1>0, <1>1, <2>1
      <3> QED
        BY ONLY <3>1, <2>2, ObjectUpdate
    <2>4. /\ UNCHANGED <<sessions, order, active, target>>
          /\ pc[h] = "create_start" /\ pc'[h] = "create_show"
      BY <1>0, <1>1, <1>3 DEF CreateStart
    <2>5. Course(h)'
      BY <1>1, <2>1, <2>3, <2>4 DEF Course
    <2>6. \A k \in 1 .. objects'[active'].chunks : Due(h, k)'
      BY <2>1, <2>3, <2>4 DEF Due
    <2> QED
      BY <2>5, <2>6 DEF Painted
  <1>4. CASE CreateReturn(h)
    <2> DEFINE o == [objects[active] EXCEPT !.alive = TRUE]
    <2>1. o \in Session /\ o.chunks = objects[active].chunks /\ o.reader = objects[active].reader
      BY <1>2 DEF Session
    <2>2. objects' = [objects EXCEPT ![active] = o]
      BY <1>1, <1>4 DEF CreateReturn
    <2> HIDE DEF o
    <2>3. objects'[active] = o
      <3>1. active \in Ids /\ o \in Session /\ TypeOK
        BY <1>0, <1>1, <2>1
      <3> QED
        BY ONLY <3>1, <2>2, ObjectUpdate
    <2>4. /\ UNCHANGED <<sessions, order, active, target, screen>>
          /\ pc[h] = "create_return" /\ pc'[h] \in {"idle", "switch"}
      BY <1>0, <1>1, <1>4 DEF CreateReturn
    <2>5. Course(h)'
      BY <1>1, <2>4 DEF Course, CreateSteps
    <2>6. \A k : (Due(h, k) => Due(h, k)') /\ (OnScreen(active, k) => OnScreen(active, k)')
      BY <2>1, <2>3, <2>4 DEF Due, OnScreen
    <2> QED
      BY <2>1, <2>3, <2>4, <2>5, <2>6 DEF Painted, Unpainted
  <1> QED
    BY <1>3, <1>4

\* The repaint of switch().
LEMMA SwitchSteps ==
  ASSUME IInv, NEW h, Handlers = {h}, Course(h), Painted(h),
         SwitchActivate(h) \/ SwitchReset(h) \/ SwitchRead(h) \/ SwitchReplay(h)
  PROVE  Course(h)' /\ Painted(h)'
  <1> USE DEF Goto, manager
  <1>0. h \in Handlers /\ pc \in [Handlers -> Steps] /\ TypeOK /\ replay \in [Handlers -> Nat]
        /\ None \notin Ids /\ sessions \subseteq Ids
    BY DEF IInv, TypeOK, Ids, None
  <1>1. CASE SwitchActivate(h)
    <2>1. /\ target[h] \in sessions /\ target' = target /\ active' = target[h]
          /\ UNCHANGED <<sessions, objects>> /\ pc'[h] = "switch_reset"
      BY <1>0, <1>1 DEF SwitchActivate
    <2>2. Course(h)'
      BY <1>0, <2>1 DEF Course, CreateSteps
    <2> QED
      BY <2>1, <2>2 DEF Painted, Due
  <1>2. CASE SwitchReset(h)
    <2>1. /\ UNCHANGED <<sessions, order, active, target>>
          /\ pc[h] = "switch_reset" /\ pc'[h] = "switch_read"
      BY <1>0, <1>2 DEF SwitchReset
    <2>2. Course(h)'
      BY <2>1 DEF Course, CreateSteps
    <2> QED
      BY <2>1, <2>2 DEF Painted, Due
  <1>3. CASE SwitchRead(h)
    <2>1. /\ UNCHANGED <<sessions, order, active, target, objects>>
          /\ pc[h] = "switch_read" /\ pc'[h] = "switch_replay"
          /\ replay'[h] = objects[target[h]].chunks
      BY <1>0, <1>3 DEF SwitchRead
    <2>2. Course(h)' /\ target[h] = active
      BY <2>1 DEF Course, CreateSteps
    <2>3. active # None => objects[active] \in Session
      BY <1>0, ObjectType DEF TypeOK
    <2>4. active # None => \A k \in 1 .. objects[active].chunks : k <= replay'[h]
      BY <2>1, <2>2, <2>3 DEF Session
    <2> QED
      BY <2>1, <2>2, <2>4 DEF Painted, Due
  <1>4. CASE SwitchReplay(h)
    <2> DEFINE text == Scrollback(target[h], replay[h])
    <2>1. /\ UNCHANGED <<sessions, order, active, target, objects, replay>>
          /\ pc[h] = "switch_replay" /\ pc'[h] = "idle" /\ Broadcast(text)
      BY <1>0, <1>4 DEF SwitchReplay
    <2>2. Course(h)' /\ target[h] = active /\ active # None
      BY <2>1 DEF Course, CreateSteps
    <2>3. text \in Seq(Nat \X Nat) /\ replay[h] \in Nat
      <3>1. target[h] \in Nat /\ replay[h] \in Nat
        BY <1>0 DEF TypeOK, Ids, None
      <3> QED
        BY <3>1, ChunkTypes
    <2>4. \A k \in 1 .. replay[h] : k \in DOMAIN text /\ text[k] = Chunk(active, k)
      BY <2>2 DEF Scrollback
    <2> HIDE DEF text
    <2>5. objects[active].chunks \in Nat
      BY <1>0, <2>2, ObjectType DEF TypeOK, Session
    <2>6. ASSUME NEW k \in 1 .. objects[active].chunks, OnScreen(active, k) \/ Due(h, k)
          PROVE  OnScreen(active, k)' \/ Due(h, k)'
      <3>1. OnScreen(active, k) => OnScreen(active, k)'
        BY <1>0, <2>1, <2>3, ScreenGrows DEF OnScreen
      <3>2. k <= replay[h] => OnScreen(active, k)'
        <4>1. k <= replay[h] => k \in 1 .. replay[h]
          BY <2>3, <2>5
        <4> QED
          BY <1>0, <2>1, <2>3, <2>4, <4>1, ScreenGrows DEF OnScreen
      <3>3. Due(h, k) => Due(h, k)' \/ k <= replay[h]
        BY <2>1 DEF Due
      <3> QED
        BY <2>6, <3>1, <3>2, <3>3
    <2> QED
      BY <2>1, <2>2, <2>6 DEF Painted, Unpainted
  <1> QED
    BY <1>1, <1>2, <1>3, <1>4

\* An assignment to the object of one session that keeps its text.
LEMMA SameText ==
  ASSUME IInv, NEW s \in Ids, NEW o \in Session, objects' = [objects EXCEPT ![s] = o],
         o.chunks = objects[s].chunks, o.reader = objects[s].reader
  PROVE  \A i \in Ids : objects'[i].chunks = objects[i].chunks /\ objects'[i].reader = objects[i].reader
  <1>1. objects'[s] = o /\ \A i \in Ids \ {s} : objects'[i] = objects[i]
    <2>1. TypeOK
      BY DEF IInv
    <2> QED
      BY <2>1, ObjectUpdate
  <1> QED
    BY <1>1

LEMMA CloseSteps ==
  ASSUME IInv, IInv', NEW h, Handlers = {h}, Course(h), Painted(h),
         CloseRemove(h) \/ CloseStop(h) \/ CloseBlank(h) \/ ResizeApply(h)
  PROVE  Course(h)' /\ Painted(h)'
  <1> USE DEF Goto, manager
  <1>0. h \in Handlers /\ pc \in [Handlers -> Steps] /\ wasActive \in [Handlers -> BOOLEAN]
        /\ TypeOK /\ TypeOK' /\ None \notin Ids /\ None \notin Ids' /\ active \in Ids \union {None}
    BY DEF IInv, TypeOK, Ids, None
  <1>1. CASE CloseRemove(h)
    <2> DEFINE i == Index(target[h])
               rest == RemoveAt(order, i)
    <2>1. /\ pc[h] = "close" /\ pc'[h] = "close_stop" /\ target[h] \in sessions /\ objects' = objects
          /\ order' = rest /\ wasActive'[h] = (active = target[h]) /\ screen' = screen
          /\ active' = IF active = target[h] THEN Successor(i, rest) ELSE active
      BY <1>0, <1>1 DEF CloseRemove
    <2>2. active # None
      BY <2>1 DEF Course
    <2>3. CASE active # target[h]
      <3>1. active' = active
        BY <2>1, <2>3
      <3>2. \A k : (Due(h, k) => Due(h, k)') /\ (OnScreen(active, k) => OnScreen(active, k)')
        BY <2>1, <3>1 DEF Due, OnScreen
      <3> QED
        BY <2>1, <2>2, <3>1, <3>2 DEF Course, CreateSteps, Painted, Unpainted
    <2>4. CASE active = target[h]
      <3>1. Unpainted(h)'
        BY <2>1, <2>4 DEF Unpainted
      <3>2. i \in Nat \ {0} /\ rest \in Seq(Nat)
        <4>1. \E j \in DOMAIN order : order[j] = target[h]
          BY <2>1 DEF IInv, TabsWellFormed
        <4>2. i \in DOMAIN order
          BY <4>1, IndexFacts
        <4> QED
          BY <1>0, <2>1, <4>2 DEF TypeOK
      <3> HIDE DEF i, rest
      <3>3. active' = None => order' = << >>
        <4> SUFFICES ASSUME order' # << >> PROVE active' # None
          OBVIOUS
        <4>1. PICK j \in DOMAIN rest : active' = rest[j]
          BY <2>1, <2>4, <3>2, SuccessorFacts
        <4>2. active' \in sessions'
          BY <2>1, <4>1 DEF IInv, TabsWellFormed
        <4> QED
          BY <1>0, <4>2 DEF TypeOK
      <3>4. Course(h)'
        BY <2>1, <3>3 DEF Course, CreateSteps
      <3> QED
        BY <3>1, <3>4 DEF Painted
    <2> QED
      BY <2>3, <2>4
  <1>2. CASE CloseStop(h) \/ ResizeApply(h)
    <2>1. target[h] \in Ids /\ objects[target[h]] \in Session
      <3>1. target[h] \in Ids
        BY <1>2 DEF CloseStop, ResizeApply, IInv, TargetInv
      <3> QED
        BY <1>0, <3>1, ObjectType
    <2>2. \A j \in Ids : objects'[j].chunks = objects[j].chunks /\ objects'[j].reader = objects[j].reader
      <3>1. CASE CloseStop(h)
        <4> DEFINE o == [objects[target[h]] EXCEPT !.alive = FALSE]
        <4>1. o \in Session /\ o.chunks = objects[target[h]].chunks /\ o.reader = objects[target[h]].reader
          BY <2>1 DEF Session
        <4>2. objects' = [objects EXCEPT ![target[h]] = o]
          BY <3>1 DEF CloseStop
        <4> HIDE DEF o
        <4> QED
          BY <2>1, <4>1, <4>2, SameText
      <3>2. CASE ResizeApply(h)
        <4> DEFINE o == [objects[target[h]] EXCEPT !.size = dims[h]]
        <4>1. o \in Session /\ o.chunks = objects[target[h]].chunks /\ o.reader = objects[target[h]].reader
          BY <2>1 DEF Session, IInv, TypeOK
        <4>2. objects' = [objects EXCEPT ![target[h]] = o]
          BY <3>2 DEF ResizeApply
        <4> HIDE DEF o
        <4> QED
          BY <2>1, <4>1, <4>2, SameText
      <3> QED
        BY <1>2, <3>1, <3>2
    <2>3. /\ UNCHANGED <<sessions, order, active, target, screen, wasActive>>
          /\ \/ pc[h] = "close_stop" /\ pc'[h] = "close_check"
             \/ pc[h] = "resize_apply" /\ pc'[h] = "idle"
      BY <1>0, <1>2 DEF CloseStop, ResizeApply
    <2>4. Course(h)'
      BY <2>3 DEF Course, CreateSteps
    <2>5. active # None => \A k : Due(h, k) => Due(h, k)'
      BY <1>0, <2>2, <2>3 DEF Due
    <2>6. \A k : OnScreen(active, k) => OnScreen(active, k)'
      BY <2>3 DEF OnScreen
    <2>7. active' # None => active \in Ids /\ objects'[active'].chunks = objects[active].chunks
      BY <1>0, <2>2, <2>3
    <2>8. Unpainted(h) => Unpainted(h)'
      BY <2>3 DEF Unpainted
    <2> QED
      BY <2>3, <2>4, <2>5, <2>6, <2>7, <2>8 DEF Painted
  <1>3. CASE CloseBlank(h)
    <2>1. /\ active' = None /\ UNCHANGED <<sessions, target>>
          /\ pc[h] = "close_blank" /\ pc'[h] = "switch"
      BY <1>0, <1>3 DEF CloseBlank
    <2>2. target[h] \in sessions
      BY <2>1 DEF Course, IInv, ActiveIsOpen
    <2> QED
      BY <2>1, <2>2 DEF Course, CreateSteps, Painted
  <1> QED
    BY <1>1, <1>2, <1>3

LEMMA RegisterStep ==
  ASSUME IInv, IInv', NEW h, Handlers = {h}, Course(h), Painted(h), CreateRegister(h)
  PROVE  Course(h)' /\ Painted(h)'
  <1>1. /\ objects \in Seq(Session) /\ NewSession \in Session /\ h \in Handlers
        /\ pc \in [Handlers -> Steps] /\ target \in [Handlers -> Ids \union {None}]
    BY DEF IInv, TypeOK, NewSession, Session, ReaderStates
  <1>2. /\ objects' = Append(objects, NewSession) /\ active' = Len(objects) + 1
        /\ target'[h] = active' /\ pc'[h] \in {"create_reset", "create_start"}
    BY <1>1 DEF CreateRegister, Goto
  <1>3. objects'[active'] = NewSession
    BY <1>1, <1>2
  <1>4. objects'[active'].chunks = 0 /\ ~ objects'[active'].alive
    BY <1>3 DEF NewSession
  <1>5. active' # None
    BY <1>1, <1>2 DEF None
  <1> QED
    BY <1>2, <1>4, <1>5 DEF Course, CreateSteps, Painted

\* The reader threads.
LEMMA ReaderSteps ==
  ASSUME IInv, NEW h, Handlers = {h}, Course(h), Painted(h), NEW s \in Ids,
         EmitRecord(s) \/ EmitCheck(s) \/ EmitShow(s)
  PROVE  Course(h)' /\ Painted(h)'
  <1> USE DEF manager, locals
  <1>0. h \in Handlers /\ TypeOK /\ None \notin Ids /\ active \in Ids \union {None}
    BY DEF IInv, TypeOK, Ids, None
  <1>1. objects[s] \in Session /\ objects[s].chunks \in Nat /\ s \in Nat
    BY <1>0, ObjectType DEF Session, Ids
  <1>2. UNCHANGED <<sessions, order, active, pc, target, wasActive, replay>>
    BY DEF EmitRecord, EmitCheck, EmitShow
  <1>3. pc[h] \in CreateSteps => target[h] \in Ids
    BY <1>0 DEF IInv, TargetInv, TypeOK
  <1>4. CASE EmitRecord(s)
    <2> DEFINE o == [objects[s] EXCEPT !.reader = "recorded", !.chunks = @ + 1]
    <2>1. o \in Session /\ o.chunks = objects[s].chunks + 1 /\ o.reader = "recorded"
          /\ objects[s].chunks \in Nat
      <3>1. objects[s].chunks + 1 \in Nat /\ objects[s].chunks \in Nat
        BY <1>1 DEF Session
      <3> QED
        BY <1>1, <3>1 DEF Session, ReaderStates
    <2>2. objects' = [objects EXCEPT ![s] = o]
      BY <1>4 DEF EmitRecord
    <2> HIDE DEF o
    <2>3. objects'[s] = o /\ \A i \in Ids \ {s} : objects'[i] = objects[i]
      BY <1>0, <2>1, <2>2, ObjectUpdate
    <2>4. objects[s].alive /\ objects[s].reader = "reading" /\ screen' = screen
      BY <1>4 DEF EmitRecord
    <2>5. Course(h)'
      <3>1. pc[h] \in CreateSteps => objects'[target[h]] = objects[target[h]]
        BY <1>3, <2>3, <2>4 DEF Course
      <3> QED
        BY <1>2, <3>1 DEF Course, CreateSteps
    <2>6. \A k : OnScreen(active, k) => OnScreen(active, k)'
      BY <1>2, <2>4 DEF OnScreen
    <2>7. CASE active = s
      <3>1. \A k : Due(h, k) => Due(h, k)'
        BY <1>2, <2>4, <2>7 DEF Due
      <3>2. \A k : k = objects[s].chunks + 1 => Due(h, k)'
        BY <1>2, <2>1, <2>3, <2>7 DEF Due
      <3>3. \A k \in 1 .. objects'[s].chunks : k \in 1 .. objects[s].chunks \/ k = objects[s].chunks + 1
        BY <2>1, <2>3
      <3> QED
        BY <1>2, <2>5, <2>6, <2>7, <3>1, <3>2, <3>3 DEF Painted, Unpainted
    <2>8. CASE active # s
      <3>1. active # None => objects'[active] = objects[active]
        BY <1>0, <2>3, <2>8
      <3>2. active # None => \A k : Due(h, k) => Due(h, k)'
        BY <1>2, <3>1 DEF Due
      <3> QED
        BY <1>2, <2>5, <2>6, <3>1, <3>2 DEF Painted, Unpainted
    <2> QED
      BY <2>7, <2>8
  <1>5. CASE EmitCheck(s) \/ EmitShow(s)
    <2>1. /\ \A i \in Ids : objects'[i].chunks = objects[i].chunks /\ objects'[i].alive = objects[i].alive
          /\ \A i \in Ids \ {s} : objects'[i].reader = objects[i].reader
          /\ EmitCheck(s) /\ active = s => objects'[s].reader # "reading"
      <3> DEFINE o == [objects[s] EXCEPT !.reader = IF EmitCheck(s) /\ active = s THEN "cleared" ELSE "reading"]
      <3>1. o \in Session /\ o.chunks = objects[s].chunks /\ o.alive = objects[s].alive
            /\ (EmitCheck(s) /\ active = s => o.reader # "reading")
        BY <1>1 DEF Session, ReaderStates
      <3>2. objects' = [objects EXCEPT ![s] = o]
        <4>1. CASE EmitCheck(s)
          BY <4>1 DEF EmitCheck, Reader
        <4>2. CASE ~ EmitCheck(s)
          BY <4>2, <1>5 DEF EmitShow, Reader
        <4> QED
          BY <4>1, <4>2
      <3> HIDE DEF o
      <3>3. objects'[s] = o /\ \A i \in Ids \ {s} : objects'[i] = objects[i]
        BY <1>0, <3>1, <3>2, ObjectUpdate
      <3> QED
        BY <3>1, <3>3
    <2>2. Course(h)'
      BY <1>2, <1>3, <2>1 DEF Course, CreateSteps
    <2>3. \A k : OnScreen(active, k) => OnScreen(active, k)'
      <3>1. CASE EmitCheck(s)
        BY <1>2, <3>1 DEF EmitCheck, OnScreen
      <3>2. CASE EmitShow(s)
        <4>1. <<Chunk(s, objects[s].chunks)>> \in Seq(Nat \X Nat)
          BY <1>1, ChunkTypes
        <4> QED
          BY <1>0, <1>2, <3>2, <4>1, ScreenGrows DEF EmitShow, OnScreen
      <3> QED
        BY <1>5, <3>1, <3>2
    <2>4. EmitShow(s) /\ active = s => OnScreen(active, objects[s].chunks)'
      <3> SUFFICES ASSUME EmitShow(s), active = s PROVE OnScreen(active, objects[s].chunks)'
        BY <1>2, <2>1
      <3> DEFINE text == <<Chunk(s, objects[s].chunks)>>
      <3>1. text \in Seq(Nat \X Nat) /\ Broadcast(text)
        BY <1>1, ChunkTypes DEF EmitShow
      <3>2. 1 \in DOMAIN text /\ text[1] = Chunk(s, objects[s].chunks)
        OBVIOUS
      <3> HIDE DEF text
      <3>3. \E i \in DOMAIN screen' : screen'[i] = Chunk(s, objects[s].chunks)
        BY <1>0, <3>1, <3>2, ScreenGrows
      <3> QED
        BY <1>2, <2>1, <3>3 DEF OnScreen
    <2>5. ASSUME active # None, NEW k, Due(h, k)
          PROVE  OnScreen(active, k)' \/ Due(h, k)'
      <3>1. CASE k = objects[active].chunks /\ objects[active].reader # "reading"
        <4>1. CASE active # s
          BY <1>0, <1>2, <2>1, <2>5, <3>1, <4>1 DEF Due
        <4>2. CASE active = s /\ EmitCheck(s)
          BY <1>2, <2>1, <3>1, <4>2 DEF Due
        <4>3. CASE active = s /\ EmitShow(s)
          BY <1>2, <2>1, <2>4, <3>1, <4>3
        <4> QED
          BY <1>5, <4>1, <4>2, <4>3
      <3>2. CASE ~ (k = objects[active].chunks /\ objects[active].reader # "reading")
        BY <1>2, <2>5, <3>2 DEF Due
      <3> QED
        BY <3>1, <3>2
    <2>6. active # None => objects'[active'].chunks = objects[active].chunks
      BY <1>0, <1>2, <2>1
    <2> QED
      BY <1>2, <2>2, <2>3, <2>5, <2>6 DEF Painted, Unpainted
  <1> QED
    BY <1>4, <1>5

LEMMA OneClientStep ==
  ASSUME NEW h, Handlers = {h}
  PROVE  IInv /\ IInv' /\ Course(h) /\ Painted(h) /\ [Next]_vars => Course(h)' /\ Painted(h)'
  <1> SUFFICES ASSUME IInv, IInv', Course(h), Painted(h), [Next]_vars
               PROVE  Course(h)' /\ Painted(h)'
    OBVIOUS
  <1>1. CASE ClientMessage(h)
    BY <1>1, PlainSteps DEF ClientMessage
  <1>2. CASE HandlerStep(h)
    BY <1>2, PlainSteps, CreateScreenSteps, CreateObjectSteps, SwitchSteps, CloseSteps, RegisterStep
    DEF HandlerStep
  <1>3. ASSUME NEW s \in Ids, EmitRecord(s) \/ ReaderFinish(s)
        PROVE  Course(h)' /\ Painted(h)'
    BY <1>3, ReaderSteps DEF ReaderFinish
  <1>4. CASE Rest \/ UNCHANGED vars
    BY <1>4 DEF Rest, vars, manager, locals, Course, Painted, OnScreen, Unpainted, Due
  <1> QED
    BY <1>1, <1>2, <1>3, <1>4 DEF Next

LEMMA OneClientInit ==
  ASSUME NEW h, Handlers = {h}
  PROVE  Init => Course(h) /\ Painted(h)
  <1> SUFFICES ASSUME Init PROVE Course(h) /\ Painted(h)
    OBVIOUS
  <1> USE DEF Init
  <1>1. pc[h] = "idle" /\ active = 1 /\ active # None
    BY DEF None
  <1>2. objects[1].chunks = 1
    BY DEF NewSession
  <1>3. OnScreen(1, 1)
    <2>1. 1 \in DOMAIN screen /\ screen[1] = Chunk(1, 1)
      BY DEF Scrollback
    <2> QED
      BY <2>1 DEF OnScreen
  <1>4. \A k \in 1 .. 1 : k = 1
    OBVIOUS
  <1> QED
    BY <1>1, <1>2, <1>3, <1>4 DEF Course, Painted, CreateSteps

\* While one client works, nothing that the visible session printed is missing
\* on its screen: each chunk was shown live, or is in the scrollback that
\* switch() replays after its reset, however the readers interleave with it.
THEOREM NothingIsMissing ==
  ASSUME NEW h, Handlers = {h}
  PROVE  Spec => []NothingMissing
  <1>1. IInv /\ Course(h) /\ Painted(h) => NothingMissing
    <2> SUFFICES ASSUME IInv, Course(h), Painted(h), Quiet, NEW k \in 1 .. objects[active].chunks
                 PROVE  OnScreen(active, k)
      BY DEF NothingMissing, OnScreen
    <2>1. pc[h] = "idle"
      BY DEF Quiet, HandlersIdle
    <2>2. active # None /\ ~ Unpainted(h)
      BY <2>1 DEF Course, Unpainted
    <2>3. objects[active].reader = "reading"
      BY <2>2 DEF Quiet, ReadersIdle, IInv, TypeOK
    <2> QED
      BY <2>1, <2>2, <2>3 DEF Painted, Due
  <1> QED
    BY <1>1, OneClientInit, OneClientStep, Invariance, PTL DEF Spec

-----------------------------------------------------------------------------
(***************************************************************************)
(* With one client the manager implements TabStrip, step by step.          *)
(***************************************************************************)

LEMMA TheClient ==
  ASSUME NEW h, Handlers = {h}
  PROVE  Client = h
  BY DEF Client

\* get_manager leaves the strip with its first tab on screen.
LEMMA StripInit ==
  ASSUME NEW h, Handlers = {h}
  PROVE  Init => Strip!Init
  BY DEF Init, Strip!Init, StripTabs, StripShown, None

\* The steps that the user of the strip does not see.
LEMMA UnseenSteps ==
  ASSUME IInv, NEW h, Handlers = {h}, Course(h),
         UNCHANGED <<order, active, objects>> \/ (UNCHANGED <<order, active, target>> /\ Ids' = Ids),
         target' = target \/ active # None
  PROVE  UNCHANGED Strip!strip
  <1>1. order = << >> => active = None
    BY DEF IInv, TabsWellFormed, ActiveIsOpen
  <1>2. Len(objects') = Len(objects)
    <2>1. Ids' = Ids => Len(objects') = Len(objects)
      <3>1. Len(objects) \in Nat /\ Len(objects') \in Nat
        BY DEF IInv, TypeOK
      <3> QED
        BY <3>1 DEF Ids
    <2> QED
      BY <2>1
  <1> QED
    BY <1>1, <1>2, TheClient DEF Strip!strip, StripTabs, StripShown

\* A new tab opens on the right, or replaces the one that was just closed.
LEMMA RegisterRefines ==
  ASSUME IInv, NEW h, Handlers = {h}, Course(h), CreateRegister(h)
  PROVE  Strip!Next
  <1>1. /\ Cardinality(sessions) < MaxSessions
        /\ objects' = Append(objects, NewSession) /\ order' = Append(order, Len(objects) + 1)
        /\ active' = Len(objects) + 1 /\ pc[h] = "create"
    BY DEF CreateRegister, Goto
  <1>2. /\ order \in Seq(Nat) /\ objects \in Seq(Session) /\ Len(order) < MaxSessions
    BY <1>1, TabCount DEF IInv, TypeOK
  <1>3. Len(objects') = Len(objects) + 1 /\ order' # << >> /\ active' # None
    <2>1. NewSession \in Session
      BY DEF NewSession, Session, ReaderStates
    <2> QED
      BY <1>1, <1>2, <2>1 DEF None
  <1>4. StripTabs' = order' /\ StripShown' = Len(objects')
    BY <1>1, <1>3 DEF StripTabs, StripShown
  <1>5. CASE active = None
    <2>1. order = << >>
      BY <1>1, <1>5 DEF Course
    <2>2. StripTabs = <<target[Client]>> /\ order' = <<Len(objects')>>
      BY <1>1, <1>3, <2>1 DEF StripTabs
    <2>3. Strip!Replace
      BY <1>3, <1>4, <2>2 DEF Strip!Replace
    <2> QED
      BY <2>3 DEF Strip!Next
  <1>6. CASE active # None
    <2>1. order # << >>
      BY <1>6 DEF IInv, TabsWellFormed, ActiveIsOpen
    <2>2. StripTabs = order /\ StripShown = active
      BY <1>6, <2>1 DEF StripTabs, StripShown
    <2>3. Strip!Open
      BY <1>1, <1>2, <1>3, <1>4, <2>2 DEF Strip!Open
    <2> QED
      BY <2>3 DEF Strip!Next
  <1> QED
    BY <1>5, <1>6

\* switch() shows the tab it was asked for.
LEMMA ActivateRefines ==
  ASSUME IInv, NEW h, Handlers = {h}, Course(h), SwitchActivate(h)
  PROVE  Strip!Next
  <1>1. /\ target[h] \in sessions /\ active' = target[h] /\ target[h] # None
        /\ UNCHANGED <<order, objects>>
    BY DEF SwitchActivate, IInv, TypeOK, Ids, None
  <1>2. PICK i \in DOMAIN order : order[i] = target[h]
    BY <1>1 DEF IInv, TabsWellFormed
  <1>3. order # << >>
    BY <1>2 DEF IInv, TypeOK
  <1>4. StripTabs = order /\ StripTabs' = order /\ StripShown' = target[h]
    BY <1>1, <1>3 DEF StripTabs, StripShown
  <1>5. Strip!Show(i) /\ i \in DOMAIN StripTabs
    BY <1>1, <1>2, <1>4 DEF Strip!Show
  <1> QED
    BY <1>5 DEF Strip!Next

\* close() of one tab among several is the strip's; that of the only one is not
\* seen before its replacement is there.
LEMMA RemoveRefines ==
  ASSUME IInv, IInv', NEW h, Handlers = {h}, Course(h), CloseRemove(h)
  PROVE  Strip!Next \/ UNCHANGED Strip!strip
  <1> DEFINE i == Index(target[h])
             rest == RemoveAt(order, i)
  <1>1. /\ target[h] \in sessions /\ order' = rest /\ UNCHANGED <<objects, target>>
        /\ active' = IF active = target[h] THEN Successor(i, rest) ELSE active
        /\ pc[h] = "close"
    BY DEF CloseRemove, Goto
  <1>2. active # None
    BY <1>1 DEF Course
  <1>3. order \in Seq(Nat) /\ Len(order) \in Nat /\ i \in 1 .. Len(order) /\ order[i] = target[h]
    <2>1. \E j \in DOMAIN order : order[j] = target[h]
      BY <1>1 DEF IInv, TabsWellFormed
    <2>2. i \in DOMAIN order /\ order[i] = target[h]
      BY <2>1, IndexFacts
    <2> QED
      BY <2>2 DEF IInv, TypeOK
  <1>4. order # << >> /\ StripTabs = order /\ StripShown = active
    BY <1>2, <1>3 DEF StripTabs, StripShown
  <1>5. /\ rest \in Seq(Nat) /\ Len(rest) = Len(order) - 1
        /\ \A j \in 1..(Len(order) - 1) : rest[j] = IF j < i THEN order[j] ELSE order[j + 1]
    BY <1>3, RemoveAtFacts
  <1> HIDE DEF i, rest
  <1>6. CASE Len(order) = 1
    <2>1. i = 1 /\ rest = << >>
      BY <1>3, <1>5, <1>6
    <2>2. active = target[h]
      BY <1>2, <1>3, <1>6, <2>1 DEF IInv, ActiveIsOpen, TabsWellFormed
    <2>3. active' = None
      BY <1>1, <2>1, <2>2 DEF Successor
    <2>4. StripTabs' = <<target[h]>> /\ StripShown' = target[h]
      BY <1>1, <2>1, <2>3, TheClient DEF StripTabs, StripShown
    <2>5. order = <<target[h]>>
      BY <1>3, <1>6, <2>1
    <2> QED
      BY <1>1, <1>4, <2>2, <2>4, <2>5 DEF Strip!strip
  <1>7. CASE Len(order) # 1
    <2>1. Len(order) > 1 /\ rest # << >>
      BY <1>3, <1>5, <1>7
    <2>2. StripTabs' = rest
      BY <1>1, <2>1 DEF StripTabs
    <2>3. active' # None
      <3>1. CASE active = target[h]
        <4>1. PICK j \in DOMAIN rest : active' = rest[j]
          <5>1. i \in Nat \ {0}
            BY <1>3
          <5> QED
            BY <1>1, <1>5, <2>1, <3>1, <5>1, SuccessorFacts
        <4>2. active' \in sessions'
          BY <1>1, <4>1 DEF IInv, TabsWellFormed
        <4> QED
          BY <4>2 DEF IInv, TypeOK, Ids, None
      <3>2. CASE active # target[h]
        BY <1>1, <1>2, <3>2
      <3> QED
        BY <3>1, <3>2
    <2>4. StripShown' = active'
      BY <2>3 DEF StripShown
    <2>5. Successor(i, rest) = IF i < Len(order) THEN order[i + 1] ELSE order[i - 1]
      <3>1. CASE i < Len(order)
        BY <1>3, <1>5, <2>1, <3>1 DEF Successor
      <3>2. CASE ~ (i < Len(order))
        BY <1>3, <1>5, <2>1, <3>2 DEF Successor
      <3> QED
        BY <3>1, <3>2
    <2>6. Strip!RemoveAt(order, i) = rest
      BY DEF Strip!RemoveAt, RemoveAt, rest
    <2>7. Strip!Close(i)
      BY <1>1, <1>3, <1>4, <2>1, <2>2, <2>4, <2>5, <2>6 DEF Strip!Close
    <2> QED
      BY <1>3, <1>4, <2>7 DEF Strip!Next
  <1> QED
    BY <1>6, <1>7

LEMMA StripStep ==
  ASSUME NEW h, Handlers = {h}
  PROVE  IInv /\ IInv' /\ Course(h) /\ [Next]_vars => [Strip!Next]_(Strip!strip)
  <1> SUFFICES ASSUME IInv, IInv', Course(h), [Next]_vars
               PROVE  Strip!Next \/ UNCHANGED Strip!strip
    OBVIOUS
  <1> USE DEF manager, locals
  <1>0. TypeOK /\ h \in Handlers
    BY DEF IInv
  <1>1. CASE CreateRegister(h) \/ SwitchActivate(h) \/ CloseRemove(h)
    BY <1>1, RegisterRefines, ActivateRefines, RemoveRefines
  <1>2. CASE CloseBlank(h)
    <2>1. /\ target[h] = active /\ active # None /\ active' = None
          /\ UNCHANGED <<order, target, objects>>
      BY <1>2 DEF CloseBlank, Goto, Course
    <2>2. order # << >>
      BY <2>1 DEF IInv, TabsWellFormed, ActiveIsOpen
    <2> QED
      BY <2>1, <2>2, TheClient DEF Strip!strip, StripTabs, StripShown
  <1>3. CASE ClientMessage(h) \/ CloseTake(h) \/ ResizeStore(h)
    <2>1. UNCHANGED <<order, active, objects>>
      BY <1>3 DEF ClientMessage, RequestNew, RequestSwitch, RequestClose, RequestResize, Request,
             CloseTake, ResizeStore
    <2>2. active # None
      BY <1>3 DEF ClientMessage, RequestNew, RequestSwitch, RequestClose, RequestResize, Request,
             CloseTake, ResizeStore, Goto, Course
    <2> QED
      BY <2>1, <2>2, UnseenSteps
  <1>4. CASE \/ CreateRefused(h) \/ CreateReset(h) \/ CreateShow(h) \/ SwitchRefused(h)
             \/ SwitchRead(h) \/ SwitchReplay(h) \/ CloseRefused(h) \/ CloseCheck(h)
             \/ Rest \/ UNCHANGED vars
    <2>1. UNCHANGED <<order, active, objects, target>>
      BY <1>4 DEF CreateRefused, CreateReset, CreateShow, SwitchRefused, SwitchRead, SwitchReplay,
             CloseRefused, CloseCheck, Rest, vars
    <2> QED
      BY <2>1, UnseenSteps
  <1>5. CASE \/ CreateStart(h) \/ CreateReturn(h) \/ SwitchReset(h) \/ CloseStop(h)
             \/ ResizeApply(h)
    <2>1. UNCHANGED <<order, active, target>> /\ DOMAIN objects' = DOMAIN objects
      BY <1>5 DEF CreateStart, CreateReturn, SwitchReset, CloseStop, ResizeApply
    <2>2. Ids' = Ids
      BY <1>0, <2>1 DEF IInv, TypeOK, Ids
    <2> QED
      BY <2>1, <2>2, UnseenSteps
  <1>6. ASSUME NEW s \in Ids, EmitRecord(s) \/ ReaderFinish(s)
        PROVE  UNCHANGED Strip!strip
    <2>1. UNCHANGED <<order, active, target>> /\ DOMAIN objects' = DOMAIN objects
      BY <1>6 DEF EmitRecord, ReaderFinish, EmitCheck, EmitShow, Reader
    <2>2. Ids' = Ids
      BY <1>0, <2>1 DEF IInv, TypeOK, Ids
    <2> QED
      BY <2>1, <2>2, UnseenSteps
  <1> QED
    BY <1>1, <1>2, <1>3, <1>4, <1>5, <1>6 DEF Next, HandlerStep

\* With one client, whatever its requests do in between, the tabs and the one on
\* screen behave as the strip that sessions.py promises: every operation is one
\* step of it, there is always a tab, and one is always on screen.
THEOREM TabsAreAStrip ==
  ASSUME NEW h, Handlers = {h}
  PROVE  Spec => ImplementsTabStrip
  <1>1. Init => Strip!Init
    BY StripInit
  <1>2. IInv /\ IInv' /\ Course(h) /\ [Next]_vars => [Strip!Next]_(Strip!strip)
    BY StripStep
  <1> QED
    BY <1>1, <1>2, OneClientInit, OneClientStep, Invariance, PTL
    DEF Spec, ImplementsTabStrip, Strip!Spec

=============================================================================
