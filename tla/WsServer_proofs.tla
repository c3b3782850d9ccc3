-------------------------- MODULE WsServer_proofs --------------------------
(***************************************************************************)
(* What holds of the websocket server for any number of clients: no        *)
(* connected client lacks what the shell printed.                          *)
(*                                                                         *)
(* A client is in self.clients before its handler reads the history.  So a *)
(* chunk is either in the history it reads or recorded later, and then the *)
(* copy of the list that the broadcast makes has the client: the chunk is  *)
(* shown, or the client is on the list of those the broadcast drops.       *)
(***************************************************************************)
EXTENDS WsServer, TLAPS

\* Where a handler is once it has read the history, and once it has sent the
\* client its reset.
Replaying == {"reset", "first", "second"}
Serving   == {"state", "states", "loop", "recv", "pong"}
Past      == {"first", "second", "ended"} \union Serving

Types ==
  /\ history \in Nat /\ DOMAIN pc = Threads
  /\ DOMAIN todo = Threads /\ DOMAIN dead = Threads
  /\ DOMAIN sock = Clients /\ DOMAIN replay = Clients
  /\ DOMAIN screen = Clients /\ DOMAIN wiped = Clients

\* The one reset a client is sent wipes all that it showed until then.
OneReset == \A c \in Clients : pc[c] \notin Past => wiped[c] = {}

\* The chunk being broadcast has not reached the client.
OnItsWay(c) ==
  pc[Emitter] = "list" \/ (pc[Emitter] = "send" /\ c \in todo[Emitter] \union dead[Emitter])

Live(c) == c \in clients /\ sock[c] = "open" /\ c \notin torn
Owed(c) == Live(c) /\ pc[c] \in Replaying \union Serving /\ replay[c] # NoReplay

Account(c) ==
  Owed(c) => \A k \in 1 .. history :
               \/ k \in screen[c] \union wiped[c]
               \/ k = history /\ OnItsWay(c)
               \/ k <= replay[c] /\ pc[c] \in Replaying

Accounted == \A c \in Clients : Account(c)

IInv == Types /\ OneReset /\ Accounted

LEMMA Apart == Server # Emitter /\ \A c \in Clients : c # Emitter /\ c # Server
BY ThreadsAssumption

LEMMA InitInv == Init => IInv
<1> SUFFICES ASSUME Init PROVE IInv
  OBVIOUS
<1>1. \A c \in Clients : pc[c] = "idle"
  BY Apart DEF Init, Threads
<1>2. Accounted
  BY <1>1 DEF Accounted, Account, Owed, Replaying, Serving
<1>3. Types /\ OneReset
  BY DEF Init, Types, OneReset
<1> QED
  BY <1>2, <1>3 DEF IInv

-----------------------------------------------------------------------------
(***************************************************************************)
(* The steps that send nothing to a client: whoever is owed something      *)
(* after one was owed it before.                                           *)
(***************************************************************************)
Flow ==
  /\ DOMAIN pc' = Threads /\ DOMAIN todo' = Threads
  /\ DOMAIN sock' = Clients /\ DOMAIN replay' = Clients
  /\ UNCHANGED <<history, screen, wiped, torn, dead>>
  /\ pc'[Emitter] = pc[Emitter] /\ todo'[Emitter] = todo[Emitter]
  /\ \A c \in Clients :
        /\ pc'[c] \in Replaying \union Serving =>
             /\ pc[c] \in Replaying \union Serving
             /\ c \in clients' => c \in clients
             /\ sock'[c] = "open" => sock[c] = "open"
        /\ pc[c] \in Replaying /\ pc'[c] \in Serving => replay'[c] = NoReplay
        /\ pc[c] \in Past => pc'[c] \in Past
        /\ replay'[c] = replay[c] \/ replay'[c] = NoReplay

LEMMA FlowKeeps == IInv /\ Flow => IInv'
<1> SUFFICES ASSUME IInv, Flow PROVE IInv'
  OBVIOUS
<1>1. Types' /\ OneReset'
  BY DEF IInv, Flow, Types, OneReset
<1>2. ASSUME NEW c \in Clients PROVE Account(c)'
  <2>1. Account(c)
    BY DEF IInv, Accounted
  <2>2. OnItsWay(c)' = OnItsWay(c)
    BY DEF Flow, OnItsWay
  <2>3. Owed(c)' => /\ Owed(c) /\ replay'[c] = replay[c]
                    /\ pc[c] \in Replaying => pc'[c] \in Replaying
    BY DEF Flow, Owed, Live
  <2> QED
    BY <2>1, <2>2, <2>3 DEF Flow, Account
<1> QED
  BY <1>1, <1>2 DEF IInv, Accounted

LEMMA StartupSteps == IInv /\ (Bind \/ Route \/ Rest) => IInv'
<1> SUFFICES ASSUME IInv, Bind \/ Route \/ Rest PROVE IInv'
  OBVIOUS
<1> USE Apart DEF Flow, Threads, Others, wire, Replaying, Serving
<1>0. Types
  BY DEF IInv
<1>1. Flow
  <2>1. CASE BindHttp
    BY <2>1, <1>0 DEF BindHttp, Goto, Types
  <2>2. CASE RetryHttp
    BY <2>2, <1>0 DEF RetryHttp, Types
  <2>3. CASE HttpFails \/ WsFails \/ BindWs \/ Route
    BY <2>3, <1>0 DEF HttpFails, WsFails, BindWs, Route, Goto, Types
  <2>4. CASE Rest
    BY <2>4, <1>0 DEF Rest, vars, Types
  <2> QED
    BY <2>1, <2>2, <2>3, <2>4 DEF Bind
<1> QED
  BY <1>1, FlowKeeps

LEMMA ManagerSteps ==
  ASSUME IInv, NEW t \in Clients \union {Server}, Look(t) \/ Create(t)
  PROVE  IInv'
<1> USE Apart DEF Flow, Threads, Others, wire
<1>0. Types
  BY DEF IInv
<1>1. Flow
  <2>1. CASE Look(t)
    BY <2>1, <1>0 DEF Look, Goto, AfterManager, Types, Replaying, Serving, Past
  <2>2. CASE Create(t)
    BY <2>2, <1>0 DEF Create, Goto, AfterManager, Types, Replaying, Serving, Past
  <2> QED
    BY <2>1, <2>2
<1> QED
  BY <1>1, FlowKeeps

LEMMA ConnectionSteps ==
  ASSUME IInv, NEW c \in Clients,
         \/ Accept(c) \/ Refuse(c) \/ Upgrade(c) \/ Register(c) \/ ReplayFails(c)
         \/ ListState(c) \/ StateSent(c) \/ Listen(c) \/ Leaves(c) \/ Hear(c)
         \/ Input(c) \/ Request(c) \/ Ping(c) \/ Drain(c) \/ Leave(c)
  PROVE  IInv'
<1> USE Apart DEF Flow, Threads, Others, wire
<1>0. Types
  BY DEF IInv
<1>1. Flow
  <2>1. CASE Accept(c)
    BY <2>1, <1>0 DEF Accept, Goto, Types, Replaying, Serving, Past
  <2>2. CASE End(c)
    BY <2>2, <1>0 DEF End, Types, Replaying, Serving, Past
  <2>3. CASE Upgrade(c) \/ Register(c)
    BY <2>3, <1>0 DEF Upgrade, Register, Goto, Types, Replaying, Serving, Past
  <2>4. CASE ReplayFails(c)
    BY <2>4, <1>0 DEF ReplayFails, Types, Replaying, Serving, Past
  <2>5. CASE ListState(c)
    BY <2>5, <1>0 DEF ListState, Snapshot, Goto, Types, Replaying, Serving, Past
  <2>6. CASE StateSent(c) \/ Listen(c)
    BY <2>6, <1>0 DEF StateSent, Listen, Goto, Types, Replaying, Serving, Past
  <2>7. CASE Input(c) \/ Request(c) \/ Ping(c)
    BY <2>7, <1>0 DEF Input, Request, Ping, Goto, Types, Replaying, Serving, Past
  <2>8. CASE Drain(c) \/ Leave(c)
    BY <2>8, <1>0 DEF Drain, Leave, Types, Replaying, Serving, Past
  <2> QED
    BY <2>1, <2>2, <2>3, <2>4, <2>5, <2>6, <2>7, <2>8
    DEF Refuse, NoHeaders, WrongToken, NoKey, Leaves, Hear
<1> QED
  BY <1>1, FlowKeeps

-----------------------------------------------------------------------------
(* The steps that send a part of a frame.                                  *)

\* What a client that still tells the frames apart shows.
LEMMA Received ==
  ASSUME Types, NEW t, NEW c \in Clients, NEW part, NEW shown, Receive(t, c, part, shown)
  PROVE  /\ torn \subseteq torn' /\ DOMAIN screen' = Clients
         /\ c \notin torn' => screen'[c] = shown
         /\ \A d \in Clients \ {c} : screen'[d] = screen[d]
BY DEF Receive, Types

\* The handler of client c sends client d something that shows no chunk.
LEMMA PlainSteps ==
  ASSUME IInv, NEW c \in Clients, NEW d \in Clients,
         \/ SendState(c, d) \/ SendStateFails(c, d)
         \/ SendFirst(c) \/ Pong(c)
  PROVE  IInv'
<1> USE Apart
<1>0. Types
  BY DEF IInv
<1>1. CASE SendStateFails(c, d)
  <2>1. Flow
    BY <1>0, <1>1 DEF SendStateFails, Unregister, Flow, Threads, wire, Types, Replaying, Serving, Past
  <2> QED
    BY <2>1, FlowKeeps
<1>2. ASSUME NEW e \in Clients, NEW part, Receive(c, e, part, screen[e]),
             DOMAIN pc' = Threads, DOMAIN todo' = Threads,
             UNCHANGED <<history, wiped, dead, clients, sock, replay>>,
             pc'[Emitter] = pc[Emitter], todo'[Emitter] = todo[Emitter],
             \A u \in Clients :
               /\ pc'[u] \in Replaying <=> pc[u] \in Replaying
               /\ pc'[u] \in Serving <=> pc[u] \in Serving
               /\ pc[u] \in Past => pc'[u] \in Past
      PROVE  IInv'
  <2>1. /\ torn \subseteq torn' /\ DOMAIN screen' = Clients
        /\ \A u \in Clients : u \notin torn' => screen'[u] = screen[u]
    BY <1>0, <1>2, Received
  <2>2. Types' /\ OneReset'
    BY <1>2, <2>1 DEF IInv, Types, OneReset
  <2>3. ASSUME NEW u \in Clients PROVE Account(u)'
    <3>1. Account(u)
      BY DEF IInv, Accounted
    <3>2. OnItsWay(u)' = OnItsWay(u)
      BY <1>2 DEF OnItsWay
    <3>3. Owed(u)' => Owed(u) /\ screen'[u] = screen[u]
      BY <1>2, <2>1 DEF Owed, Live
    <3> QED
      BY <1>2, <3>1, <3>2, <3>3 DEF Account
  <2> QED
    BY <2>2, <2>3 DEF IInv, Accounted
<1>3. CASE SendState(c, d)
  <2>1. /\ Receive(c, d, Whole, screen[d]) /\ pc' = pc /\ DOMAIN todo' = Threads
        /\ UNCHANGED <<history, wiped, dead, clients, sock, replay>>
        /\ todo'[Emitter] = todo[Emitter]
    BY <1>0, <1>3 DEF SendState, Threads, Types
  <2> QED
    BY <1>0, <1>2, <2>1 DEF Types
<1>4. CASE SendFirst(c)
  <2>1. /\ Receive(c, c, 1, screen[c]) /\ pc[c] = "first" /\ pc' = [pc EXCEPT ![c] = "second"]
        /\ UNCHANGED <<history, wiped, dead, clients, sock, replay, todo>>
    BY <1>4 DEF SendFirst, Goto
  <2>2. /\ DOMAIN pc' = Threads /\ DOMAIN todo' = Threads
        /\ pc'[Emitter] = pc[Emitter] /\ todo'[Emitter] = todo[Emitter]
        /\ \A u \in Clients :
               /\ pc'[u] \in Replaying <=> pc[u] \in Replaying
               /\ pc'[u] \in Serving <=> pc[u] \in Serving
               /\ pc[u] \in Past => pc'[u] \in Past
    BY <1>0, <2>1 DEF Types, Threads, Replaying, Serving, Past
  <2> QED
    BY <1>2, <2>1, <2>2
<1>5. CASE Pong(c)
  <2>1. /\ Receive(c, c, Whole, screen[c]) /\ pc[c] = "pong" /\ pc' = [pc EXCEPT ![c] = "loop"]
        /\ UNCHANGED <<history, wiped, dead, clients, sock, replay, todo>>
    BY <1>5 DEF Pong, Goto
  <2>2. /\ DOMAIN pc' = Threads /\ DOMAIN todo' = Threads
        /\ pc'[Emitter] = pc[Emitter] /\ todo'[Emitter] = todo[Emitter]
        /\ \A u \in Clients :
               /\ pc'[u] \in Replaying <=> pc[u] \in Replaying
               /\ pc'[u] \in Serving <=> pc[u] \in Serving
               /\ pc[u] \in Past => pc'[u] \in Past
    BY <1>0, <2>1 DEF Types, Threads, Replaying, Serving, Past
  <2> QED
    BY <1>2, <2>1, <2>2
<1> QED
  BY <1>1, <1>3, <1>4, <1>5

-----------------------------------------------------------------------------
(* The replay.  The history that is read has every chunk there is.         *)

LEMMA ReadHistoryStep ==
  ASSUME IInv, NEW c \in Clients, ReadHistory(c)
  PROVE  IInv'
<1> USE Apart DEF ReadHistory, Goto, wire
<1>0. Types
  BY DEF IInv
<1>1. Types'
  BY <1>0 DEF Types
<1>2. /\ pc'[c] = "reset" /\ replay'[c] = history /\ pc[c] = "read" /\ pc'[Emitter] = pc[Emitter]
      /\ \A u \in Clients \ {c} : pc'[u] = pc[u] /\ replay'[u] = replay[u]
  BY <1>0 DEF Types, Threads
<1>3. OneReset'
  BY <1>2 DEF IInv, OneReset, Past, Serving
<1>4. ASSUME NEW u \in Clients PROVE Account(u)'
  <2>1. CASE u = c
    <3>1. \A k \in 1 .. history : k <= history
      BY <1>0 DEF Types
    <3> QED
      BY <2>1, <3>1, <1>2 DEF Account, Replaying
  <2>2. CASE u # c
    <3>1. Account(u) /\ OnItsWay(u)' = OnItsWay(u) /\ (Owed(u)' => Owed(u))
      BY <2>2, <1>2 DEF IInv, Accounted, OnItsWay, Owed, Live
    <3> QED
      BY <2>2, <3>1, <1>2 DEF Account
  <2> QED
    BY <2>1, <2>2
<1> QED
  BY <1>1, <1>3, <1>4 DEF IInv, Accounted

\* The reset wipes what the client shows; nothing had been wiped before.
LEMMA SendResetStep ==
  ASSUME IInv, NEW c \in Clients, SendReset(c)
  PROVE  IInv'
<1> USE Apart
<1>0. Types
  BY DEF IInv
<1>1. /\ pc[c] = "reset" /\ pc' = [pc EXCEPT ![c] = IF replay[c] = 0 THEN "state" ELSE "first"]
      /\ Receive(c, c, Whole, {}) /\ wiped' = [wiped EXCEPT ![c] = screen[c]]
      /\ UNCHANGED <<clients, sock, history, replay, todo, dead>>
  BY DEF SendReset, Goto
<1>2. /\ torn \subseteq torn' /\ DOMAIN screen' = Clients
      /\ \A d \in Clients \ {c} : screen'[d] = screen[d]
  BY <1>0, <1>1, Received
<1>3. /\ pc'[c] = (IF replay[c] = 0 THEN "state" ELSE "first") /\ wiped'[c] = screen[c]
      /\ pc'[Emitter] = pc[Emitter]
      /\ \A u \in Clients \ {c} : pc'[u] = pc[u] /\ wiped'[u] = wiped[u]
  BY <1>0, <1>1 DEF Types, Threads
<1>4. Types'
  BY <1>0, <1>1, <1>2 DEF Types
<1>5. OneReset'
  BY <1>3 DEF IInv, OneReset, Past, Serving
<1>6. ASSUME NEW u \in Clients PROVE Account(u)'
  <2>1. Account(u) /\ OnItsWay(u)' = OnItsWay(u)
    BY <1>1, <1>3 DEF IInv, Accounted, OnItsWay
  <2>2. CASE u # c
    <3>1. Owed(u)' => Owed(u)
      BY <2>2, <1>1, <1>2, <1>3 DEF Owed, Live
    <3> QED
      BY <2>1, <2>2, <3>1, <1>1, <1>2, <1>3 DEF Account
  <2>3. CASE u = c
    <3>1. Owed(c)' => Owed(c)
      BY <1>1, <1>2 DEF Owed, Live, Replaying
    <3>2. wiped[c] = {}
      BY <1>1 DEF IInv, OneReset, Past, Serving
    <3>3. replay[c] = 0 => \A k \in 1 .. history : ~(k <= replay[c])
      BY <1>0 DEF Types
    <3>4. replay[c] # 0 => pc'[c] \in Replaying
      BY <1>3 DEF Replaying
    <3> QED
      BY <2>1, <2>3, <3>1, <3>2, <3>3, <3>4, <1>1, <1>3 DEF Account
  <2> QED
    BY <2>2, <2>3
<1> QED
  BY <1>4, <1>5, <1>6 DEF IInv, Accounted

LEMMA SendSecondStep ==
  ASSUME IInv, NEW c \in Clients, SendSecond(c)
  PROVE  IInv'
<1> USE Apart
<1>0. Types
  BY DEF IInv
<1>1. /\ pc[c] = "second" /\ pc' = [pc EXCEPT ![c] = "state"]
      /\ Receive(c, c, 2, screen[c] \union 1 .. replay[c])
      /\ UNCHANGED <<clients, sock, wiped, history, replay, todo, dead>>
  BY DEF SendSecond, Goto
<1>2. /\ torn \subseteq torn' /\ DOMAIN screen' = Clients
      /\ c \notin torn' => screen'[c] = screen[c] \union 1 .. replay[c]
      /\ \A d \in Clients \ {c} : screen'[d] = screen[d]
  BY <1>0, <1>1, Received
<1>3. /\ pc'[c] = "state" /\ pc'[Emitter] = pc[Emitter]
      /\ \A u \in Clients \ {c} : pc'[u] = pc[u]
  BY <1>0, <1>1 DEF Types, Threads
<1>4. Types'
  BY <1>0, <1>1, <1>2 DEF Types
<1>5. OneReset'
  BY <1>1, <1>3 DEF IInv, OneReset, Past, Serving
<1>6. ASSUME NEW u \in Clients PROVE Account(u)'
  <2>1. Account(u) /\ OnItsWay(u)' = OnItsWay(u)
    BY <1>1, <1>3 DEF IInv, Accounted, OnItsWay
  <2>2. CASE u # c
    <3>1. Owed(u)' => Owed(u)
      BY <2>2, <1>1, <1>2, <1>3 DEF Owed, Live
    <3> QED
      BY <2>1, <2>2, <3>1, <1>1, <1>2, <1>3 DEF Account
  <2>3. CASE u = c
    <3>1. Owed(c)' => Owed(c) /\ screen'[c] = screen[c] \union 1 .. replay[c]
      BY <1>1, <1>2 DEF Owed, Live, Replaying
    <3>2. \A k \in 1 .. history : k <= replay[c] => k \in 1 .. replay[c]
      OBVIOUS
    <3> QED
      BY <2>1, <2>3, <3>1, <3>2, <1>1 DEF Account
  <2> QED
    BY <2>2, <2>3
<1> QED
  BY <1>4, <1>5, <1>6 DEF IInv, Accounted

-----------------------------------------------------------------------------
(* The broadcast.                                                          *)

LEMMA RecordStep == IInv /\ Record => IInv'
<1> SUFFICES ASSUME IInv, Record PROVE IInv'
  OBVIOUS
<1> USE Apart DEF Record, Goto, wire
<1>0. Types
  BY DEF IInv
<1>1. /\ pc[Emitter] = "idle" /\ pc'[Emitter] = "list"
      /\ \A u \in Clients : pc'[u] = pc[u]
  BY <1>0 DEF Types, Threads
<1>2. Types'
  BY <1>0 DEF Types
<1>3. OneReset'
  BY <1>1 DEF IInv, OneReset
<1>4. ASSUME NEW u \in Clients PROVE Account(u)'
  <2>1. Account(u) /\ ~OnItsWay(u) /\ OnItsWay(u)' /\ (Owed(u)' => Owed(u))
    BY <1>1 DEF IInv, Accounted, OnItsWay, Owed, Live
  <2>2. \A k \in 1 .. history' : k \in 1 .. history \/ k = history'
    BY <1>0 DEF Types
  <2> QED
    BY <2>1, <2>2, <1>1 DEF Account
<1> QED
  BY <1>2, <1>3, <1>4 DEF IInv, Accounted

\* Every client that is owed anything is on the list.
LEMMA ListStep == IInv /\ List => IInv'
<1> SUFFICES ASSUME IInv, List PROVE IInv'
  OBVIOUS
<1> USE Apart DEF List, Goto, Snapshot, wire
<1>0. Types
  BY DEF IInv
<1>1. /\ pc'[Emitter] = "send" /\ todo'[Emitter] = clients
      /\ \A u \in Clients : pc'[u] = pc[u]
  BY <1>0 DEF Types, Threads
<1>2. Types'
  BY <1>0 DEF Types
<1>3. OneReset'
  BY <1>1 DEF IInv, OneReset
<1>4. ASSUME NEW u \in Clients PROVE Account(u)'
  <2>1. Account(u) /\ (Owed(u)' => Owed(u) /\ OnItsWay(u)')
    BY <1>1 DEF IInv, Accounted, OnItsWay, Owed, Live
  <2> QED
    BY <2>1, <1>1 DEF Account
<1> QED
  BY <1>2, <1>3, <1>4 DEF IInv, Accounted

LEMMA SendStep ==
  ASSUME IInv, NEW c \in Clients, Send(c)
  PROVE  IInv'
<1> USE Apart
<1>0. Types
  BY DEF IInv
<1>1. /\ pc[Emitter] = "send" /\ todo' = [todo EXCEPT ![Emitter] = @ \ {c}]
      /\ Receive(Emitter, c, Whole, screen[c] \union {history})
      /\ UNCHANGED <<clients, sock, wiped, history, replay, pc, dead>>
  BY DEF Send
<1>2. /\ torn \subseteq torn' /\ DOMAIN screen' = Clients
      /\ c \notin torn' => screen'[c] = screen[c] \union {history}
      /\ \A d \in Clients \ {c} : screen'[d] = screen[d]
  BY <1>0, <1>1, Received
<1>3. Types'
  BY <1>0, <1>1, <1>2 DEF Types
<1>4. OneReset'
  BY <1>1 DEF IInv, OneReset
<1>5. ASSUME NEW u \in Clients PROVE Account(u)'
  <2>1. Account(u) /\ (Owed(u)' => Owed(u))
    BY <1>1, <1>2 DEF IInv, Accounted, Owed, Live
  <2>2. todo'[Emitter] = todo[Emitter] \ {c}
    BY <1>0, <1>1 DEF Types, Threads
  <2>3. CASE u # c
    <3>1. OnItsWay(u)' = OnItsWay(u)
      BY <2>2, <2>3, <1>1 DEF OnItsWay
    <3> QED
      BY <2>1, <2>3, <3>1, <1>1, <1>2 DEF Account
  <2>4. CASE u = c
    <3>1. Owed(c)' => screen'[c] = screen[c] \union {history}
      BY <1>2 DEF Owed, Live
    <3> QED
      BY <2>1, <2>4, <3>1, <1>1 DEF Account
  <2> QED
    BY <2>3, <2>4
<1> QED
  BY <1>3, <1>4, <1>5 DEF IInv, Accounted

LEMMA SendFailsStep ==
  ASSUME IInv, NEW c \in Clients, SendFails(c)
  PROVE  IInv'
<1> USE Apart DEF SendFails, wire
<1>0. Types
  BY DEF IInv
<1>1. /\ todo'[Emitter] = todo[Emitter] \ {c} /\ dead'[Emitter] = dead[Emitter] \union {c}
  BY <1>0 DEF Types, Threads
<1>2. Types' /\ OneReset'
  BY <1>0 DEF IInv, Types, OneReset
<1>3. ASSUME NEW u \in Clients PROVE Account(u)'
  <2>1. Account(u) /\ (Owed(u)' => Owed(u)) /\ (OnItsWay(u) => OnItsWay(u)')
    BY <1>1 DEF IInv, Accounted, Owed, Live, OnItsWay
  <2> QED
    BY <2>1 DEF Account
<1> QED
  BY <1>2, <1>3 DEF IInv, Accounted

\* Those it did not reach are dropped.
LEMMA SentStep == IInv /\ Sent => IInv'
<1> SUFFICES ASSUME IInv, Sent PROVE IInv'
  OBVIOUS
<1> USE Apart DEF Sent, Goto, Unregister, wire
<1>0. Types
  BY DEF IInv
<1>1. /\ pc[Emitter] = "send" /\ todo[Emitter] = {} /\ clients' = clients \ dead[Emitter]
      /\ \A u \in Clients : pc'[u] = pc[u] /\ (sock'[u] = "open" => sock[u] = "open")
  BY <1>0 DEF Types, Threads
<1>2. Types'
  BY <1>0 DEF Types
<1>3. OneReset'
  BY <1>1 DEF IInv, OneReset
<1>4. ASSUME NEW u \in Clients PROVE Account(u)'
  <2>1. Account(u) /\ (Owed(u)' => Owed(u) /\ ~OnItsWay(u))
    BY <1>1 DEF IInv, Accounted, OnItsWay, Owed, Live
  <2> QED
    BY <2>1, <1>1 DEF Account
<1> QED
  BY <1>2, <1>3, <1>4 DEF IInv, Accounted

-----------------------------------------------------------------------------

\* The invariant is inductive.
LEMMA StepInv == IInv /\ [Next]_vars => IInv'
<1> SUFFICES ASSUME IInv, [Next]_vars PROVE IInv'
  OBVIOUS
<1>1. CASE Bind \/ Route \/ Rest
  BY <1>1, StartupSteps
<1>2. ASSUME NEW t \in Clients \union {Server}, Look(t) \/ Create(t) PROVE IInv'
  BY <1>2, ManagerSteps
<1>3. CASE Record
  BY <1>3, RecordStep
<1>4. CASE Broadcast
  BY <1>4, ListStep, SentStep, SendStep, SendFailsStep DEF Broadcast
<1>5. ASSUME NEW c \in Clients, Handler(c) PROVE IInv'
  BY <1>5, ConnectionSteps, PlainSteps, ReadHistoryStep, SendResetStep, SendSecondStep
  DEF Handler
<1>6. ASSUME NEW c \in Clients,
             \/ Accept(c) \/ Refuse(c) \/ Upgrade(c) \/ Hear(c)
             \/ Input(c) \/ Request(c) \/ Ping(c) \/ Drain(c) \/ Leave(c)
      PROVE  IInv'
  BY <1>6, ConnectionSteps
<1>7. CASE UNCHANGED vars
  <2> SUFFICES Flow
    BY FlowKeeps
  <2> QED
    BY <1>7 DEF IInv, Types, Flow, vars, wire, Replaying, Serving
<1> QED
  BY <1>1, <1>2, <1>3, <1>4, <1>5, <1>6, <1>7 DEF Next

\* Every state satisfies the inductive invariant.
THEOREM Invariance == Spec => []IInv
BY InitInv, StepInv, PTL DEF Spec

\* Whatever the interleaving of its handler with the broadcasts, and however
\* many clients come, go, and do not read, a client that is connected and whose
\* replay is through shows every chunk the shell printed, but for those it
\* showed before its own reset (_handle_client registers it before it reads the
\* history).
THEOREM NothingIsMissing == Spec => []NothingMissing
<1>1. IInv => NothingMissing
  <2> SUFFICES ASSUME IInv, pc[Emitter] = "idle", NEW c \in Clients, Caught(c)
               PROVE  1 .. history \subseteq screen[c] \union wiped[c]
    BY DEF NothingMissing
  <2>1. Account(c) /\ ~OnItsWay(c)
    BY DEF IInv, Accounted, OnItsWay
  <2>2. Owed(c) /\ pc[c] \notin Replaying
    BY DEF Caught, Owed, Live, Replaying, Serving
  <2> QED
    BY <2>1, <2>2 DEF Account
<1> QED
  BY <1>1, Invariance, PTL
=============================================================================
