------------------------------ MODULE WsServer ------------------------------
(***************************************************************************)
(* zmux/ws_server.py and the startup in zmux/server.py: run_server binds   *)
(* its ports, starts the websocket server, makes the session manager and   *)
(* routes the input; each client has a handler thread, which upgrades the  *)
(* connection, registers it, replays the terminal and serves messages; the *)
(* reader thread of the active session broadcasts what its shell prints.   *)
(*                                                                         *)
(* What a shell prints is a sequence of chunks 1, 2, ..  The history, the  *)
(* one frame that may exceed what a socket takes at once, is sent in two   *)
(* parts; every other frame is one.  A socket takes Buffer parts that the  *)
(* client has not read; then sendall waits and, after SO_SNDTIMEO, raises. *)
(***************************************************************************)
EXTENDS Naturals, FiniteSets

CONSTANTS
  Clients,      \* connections, each with its handler thread
  Server,       \* the thread that runs run_server
  Emitter,      \* the reader thread of the session on screen
  Buffer,       \* parts a socket holds
  Restricted,   \* ports Chromium refuses, of those run_server may try
  HttpRange,    \* how many ports after the first the HTTP search tries
  WsRange,      \* how many ports above the HTTP port the websocket search tries
  MaxTries,     \* bound: rounds of the search before its deadline
  MaxChunks,    \* bound: chunks the shell prints
  MaxMessages   \* bound: messages of the clients

Threads == Clients \union {Server, Emitter}
Chunks  == 1 .. MaxChunks
Ports   == 1 .. 1 + HttpRange + WsRange   \* port 1 stands for P4A_HTTP_PORT
Nobody  == 0
NoReplay == MaxChunks + 1

ASSUME ThreadsAssumption ==
  Nobody \notin Threads /\ Server # Emitter /\ Clients \intersect {Server, Emitter} = {}
ASSUME BoundsAssumption ==
  /\ {HttpRange, WsRange, MaxTries, MaxChunks, MaxMessages} \subseteq Nat
  /\ Buffer \in Nat \ {0}
  /\ Restricted \subseteq Ports

VARIABLES
  android,     \* _is_android()
  tries,       \* rounds of the search
  http, ws,    \* the ports of the listeners; 0 before they are bound
  published,   \* app.config["WS_PORT"]
  managers,    \* session managers made so far; the last one is _manager
  clients,     \* self.clients
  sock,        \* sock[c]: "none", "open", "gone" (the client left), "closed"
  unread,      \* unread[c]: parts in the socket
  middle,      \* middle[c]: the thread that has sent the first part of a frame
  torn,        \* clients that can no longer tell the frames apart
  history,     \* chunks recorded in the scrollback
  replay,      \* replay[c]: how much of it the client was sent, or NoReplay
  screen,      \* screen[c]: the chunks the client shows
  wiped,       \* wiped[c]: those it showed before its reset
  pc,
  todo, dead,  \* todo[t], dead[t]: clients a broadcast has before it, and failed on
  messages     \* messages the clients have sent

startup == <<android, tries, http, ws, published>>
wire    == <<unread, middle, torn, screen, wiped>>
vars    == <<startup, managers, clients, sock, wire, history, replay, pc, todo, dead, messages>>

Init ==
  /\ android \in BOOLEAN
  /\ tries = 0 /\ http = 0 /\ ws = 0 /\ published = 0
  /\ managers = 0 /\ clients = {} /\ torn = {}
  /\ sock = [c \in Clients |-> "none"] /\ unread = [c \in Clients |-> 0]
  /\ middle = [c \in Clients |-> Nobody]
  /\ history = 0 /\ replay = [c \in Clients |-> NoReplay]
  /\ screen = [c \in Clients |-> {}] /\ wiped = [c \in Clients |-> {}]
  /\ pc = [t \in Threads |-> IF t = Server THEN "http" ELSE "idle"]
  /\ todo = [t \in Threads |-> {}] /\ dead = [t \in Threads |-> {}]
  /\ messages = 0

Goto(t, from, to) == pc[t] = from /\ pc' = [pc EXCEPT ![t] = to]
Others == <<managers, clients, sock, wire, history, replay, todo, dead, messages>>

-----------------------------------------------------------------------------
(* run_server: the listeners.  Any port may be in use by another process.  *)

\* _bind_listener raises for a port that is in use: any of them may be the one.
MayBind(port, ports) == port \in ports

\* The ports a round of _bind_http_socket tries, from the first to the last.
HttpPorts == IF android THEN {1} ELSE 1 .. 1 + HttpRange

BindHttp ==
  /\ 1 \notin Restricted
  /\ MayBind(http', HttpPorts)
  /\ tries' = 0
  /\ Goto(Server, "http", "ws")
  /\ UNCHANGED <<android, ws, published>> /\ UNCHANGED Others

\* On Android the search starts again until its deadline.
RetryHttp ==
  /\ 1 \notin Restricted
  /\ android /\ tries < MaxTries
  /\ tries' = tries + 1
  /\ pc[Server] = "http"
  /\ UNCHANGED <<android, http, ws, published, pc>> /\ UNCHANGED Others

HttpFails ==
  /\ 1 \in Restricted \/ (android => tries = MaxTries)
  /\ Goto(Server, "http", "failed")
  /\ UNCHANGED startup /\ UNCHANGED Others

WsPorts == (http + 1 .. http + WsRange) \ Restricted

BindWs ==
  /\ MayBind(ws', WsPorts)
  /\ published' = ws'
  /\ Goto(Server, "ws", "manager")
  /\ UNCHANGED <<android, tries, http>> /\ UNCHANGED Others

WsFails ==
  /\ Goto(Server, "ws", "failed")
  /\ UNCHANGED startup /\ UNCHANGED Others

Bind == BindHttp \/ RetryHttp \/ HttpFails \/ BindWs \/ WsFails

-----------------------------------------------------------------------------
(* get_manager, from run_server and from every handler.                    *)

AfterManager(t) == IF t = Server THEN "route" ELSE "read"

Look(t) ==
  /\ Goto(t, "manager", IF managers = 0 THEN "create" ELSE AfterManager(t))
  /\ UNCHANGED startup /\ UNCHANGED Others

Create(t) ==
  /\ Goto(t, "create", AfterManager(t))
  /\ managers' = managers + 1
  /\ UNCHANGED startup
  /\ UNCHANGED <<clients, sock, wire, history, replay, todo, dead, messages>>

\* register_callbacks, then serve(); a client's input before it is dropped.
Route ==
  /\ Goto(Server, "route", "serve")
  /\ UNCHANGED startup /\ UNCHANGED Others

-----------------------------------------------------------------------------
(* Sending: what sendall of one part does to the client's stream.          *)

\* Part of a frame by thread t to client c.  A frame that starts inside another
\* thread's frame, or goes on after one, is not understood, nor what follows.
Garbles(t, c, part) ==
  IF part = 2 THEN middle[c] # t ELSE middle[c] # Nobody

Receive(t, c, part, shown) ==
  LET lost == c \in torn \/ Garbles(t, c, part)
  IN  /\ sock[c] = "open" /\ unread[c] < Buffer
      /\ unread' = [unread EXCEPT ![c] = @ + 1]
      /\ torn' = IF lost THEN torn \union {c} ELSE torn
      /\ middle' = [middle EXCEPT ![c] = IF part = 1 THEN t ELSE Nobody]
      /\ screen' = IF lost THEN screen ELSE [screen EXCEPT ![c] = shown]

Whole == 0

\* Mutant: no SO_SNDTIMEO.
SendRaisesNever(c) == sock[c] # "open"

\* sendall raises: the client is gone or dropped, or its socket stays full.
SendRaises(c) == sock[c] # "open" \/ unread[c] = Buffer

\* _unregister_client
Unregister(S) ==
  /\ clients' = clients \ S
  /\ sock' = [c \in Clients |-> IF c \in S \intersect clients THEN "closed" ELSE sock[c]]

\* The list is copied under clients_lock, the frames are sent without it.
Snapshot(t) == todo' = [todo EXCEPT ![t] = clients]

-----------------------------------------------------------------------------
(* broadcast, by the thread that reads the session's shell.                *)

Record ==
  /\ managers > 0 /\ history < MaxChunks
  /\ Goto(Emitter, "idle", "list")
  /\ history' = history + 1
  /\ UNCHANGED startup
  /\ UNCHANGED <<managers, clients, sock, wire, replay, todo, dead, messages>>

List ==
  /\ Goto(Emitter, "list", "send")
  /\ Snapshot(Emitter)
  /\ UNCHANGED startup
  /\ UNCHANGED <<managers, clients, sock, wire, history, replay, dead, messages>>

Send(c) ==
  /\ pc[Emitter] = "send" /\ c \in todo[Emitter]
  /\ Receive(Emitter, c, Whole, screen[c] \union {history})
  /\ todo' = [todo EXCEPT ![Emitter] = @ \ {c}]
  /\ UNCHANGED startup
  /\ UNCHANGED <<managers, clients, sock, wiped, history, replay, pc, dead, messages>>

SendFails(c) ==
  /\ pc[Emitter] = "send" /\ c \in todo[Emitter] /\ SendRaises(c)
  /\ todo' = [todo EXCEPT ![Emitter] = @ \ {c}]
  /\ dead' = [dead EXCEPT ![Emitter] = @ \union {c}]
  /\ UNCHANGED startup
  /\ UNCHANGED <<managers, clients, sock, wire, history, replay, pc, messages>>

\* The clients it could not send to are dropped at the end.
Sent ==
  /\ todo[Emitter] = {}
  /\ Goto(Emitter, "send", "idle")
  /\ Unregister(dead[Emitter])
  /\ dead' = [dead EXCEPT ![Emitter] = {}]
  /\ UNCHANGED startup
  /\ UNCHANGED <<managers, wire, history, replay, todo, messages>>

Broadcast == List \/ Sent \/ \E c \in Clients : Send(c) \/ SendFails(c)

-----------------------------------------------------------------------------
(* _handle_client.                                                         *)

\* The socket is released with the thread's last reference to it.
End(c) ==
  /\ pc' = [pc EXCEPT ![c] = "ended"]
  /\ clients' = clients \ {c}
  /\ sock' = [sock EXCEPT ![c] = "closed"]
  /\ UNCHANGED startup
  /\ UNCHANGED <<managers, wire, history, replay, todo, dead, messages>>

\* start() has been called: the accept loops run.
Started == pc[Server] \in {"manager", "create", "route", "serve"}

Accept(c) ==
  /\ Started
  /\ Goto(c, "idle", "headers")
  /\ sock' = [sock EXCEPT ![c] = "open"]
  /\ UNCHANGED startup
  /\ UNCHANGED <<managers, clients, wire, history, replay, todo, dead, messages>>

\* The connection ends before its headers do; the token is wrong; there is no
\* key.  A client that is refused is told, if it still listens.
NoHeaders(c)  == pc[c] = "headers" /\ End(c)
WrongToken(c) == pc[c] = "headers" /\ End(c)
NoKey(c)      == pc[c] = "headers" /\ End(c)
Refuse(c)     == NoHeaders(c) \/ WrongToken(c) \/ NoKey(c)

Upgrade(c) ==
  /\ sock[c] = "open"
  /\ Goto(c, "headers", "register")
  /\ UNCHANGED startup /\ UNCHANGED Others

\* Mutant: the client joins only after its replay.
RegisterLate(c) ==
  /\ \/ Goto(c, "register", "manager") /\ UNCHANGED clients
     \/ Goto(c, "states", "states") /\ clients' = clients \union {c}
  /\ UNCHANGED startup
  /\ UNCHANGED <<managers, sock, wire, history, replay, todo, dead, messages>>

Register(c) ==
  /\ Goto(c, "register", "manager")
  /\ clients' = clients \union {c}
  /\ UNCHANGED startup
  /\ UNCHANGED <<managers, sock, wire, history, replay, todo, dead, messages>>

ReadHistory(c) ==
  /\ Goto(c, "read", "reset")
  /\ replay' = [replay EXCEPT ![c] = history]
  /\ UNCHANGED startup
  /\ UNCHANGED <<managers, clients, sock, wire, history, todo, dead, messages>>

SendReset(c) ==
  /\ Goto(c, "reset", IF replay[c] = 0 THEN "state" ELSE "first")
  /\ Receive(c, c, Whole, {})
  /\ wiped' = [wiped EXCEPT ![c] = screen[c]]
  /\ UNCHANGED startup
  /\ UNCHANGED <<managers, clients, sock, history, replay, todo, dead, messages>>

SendFirst(c) ==
  /\ Goto(c, "first", "second")
  /\ Receive(c, c, 1, screen[c])
  /\ UNCHANGED startup
  /\ UNCHANGED <<managers, clients, sock, wiped, history, replay, todo, dead, messages>>

SendSecond(c) ==
  /\ Goto(c, "second", "state")
  /\ Receive(c, c, 2, screen[c] \union 1 .. replay[c])
  /\ UNCHANGED startup
  /\ UNCHANGED <<managers, clients, sock, wiped, history, replay, todo, dead, messages>>

\* A replay that fails is reported, and the client stays.
ReplayFails(c) ==
  /\ pc[c] \in {"reset", "first", "second"} /\ SendRaises(c)
  /\ pc' = [pc EXCEPT ![c] = "loop"]
  /\ replay' = [replay EXCEPT ![c] = NoReplay]
  /\ UNCHANGED startup
  /\ UNCHANGED <<managers, clients, sock, wire, history, todo, dead, messages>>

\* _send_sessions_state: clients it cannot send to are dropped at once.
ListState(c) ==
  /\ Goto(c, "state", "states")
  /\ Snapshot(c)
  /\ UNCHANGED startup
  /\ UNCHANGED <<managers, clients, sock, wire, history, replay, dead, messages>>

SendState(c, d) ==
  /\ pc[c] = "states" /\ d \in todo[c]
  /\ Receive(c, d, Whole, screen[d])
  /\ todo' = [todo EXCEPT ![c] = @ \ {d}]
  /\ UNCHANGED startup
  /\ UNCHANGED <<managers, clients, sock, wiped, history, replay, pc, dead, messages>>

SendStateFails(c, d) ==
  /\ pc[c] = "states" /\ d \in todo[c] /\ SendRaises(d)
  /\ todo' = [todo EXCEPT ![c] = @ \ {d}]
  /\ Unregister({d})
  /\ UNCHANGED startup
  /\ UNCHANGED <<managers, wire, history, replay, pc, dead, messages>>

StateSent(c) ==
  /\ todo[c] = {}
  /\ Goto(c, "states", "loop")
  /\ UNCHANGED startup /\ UNCHANGED Others

\* recv() starts; on a socket that was closed before it raises.
Listen(c) ==
  /\ sock[c] # "closed"
  /\ Goto(c, "loop", "recv")
  /\ UNCHANGED startup /\ UNCHANGED Others

\* Messages: data, a request that ends with a push of the tabs, a ping.
Message(c) == sock[c] = "open" /\ messages < MaxMessages /\ messages' = messages + 1

Input(c) ==
  /\ Message(c)
  /\ Goto(c, "recv", "loop")
  /\ UNCHANGED startup
  /\ UNCHANGED <<managers, clients, sock, wire, history, replay, todo, dead>>

Request(c) ==
  /\ Message(c)
  /\ Goto(c, "recv", "state")
  /\ UNCHANGED startup
  /\ UNCHANGED <<managers, clients, sock, wire, history, replay, todo, dead>>

Ping(c) ==
  /\ Message(c)
  /\ Goto(c, "recv", "pong")
  /\ UNCHANGED startup
  /\ UNCHANGED <<managers, clients, sock, wire, history, replay, todo, dead>>

Pong(c) ==
  /\ Goto(c, "pong", "loop")
  /\ Receive(c, c, Whole, screen[c])
  /\ UNCHANGED startup
  /\ UNCHANGED <<managers, clients, sock, wiped, history, replay, todo, dead, messages>>

\* A close frame, or whatever a recv() returns whose socket another thread has
\* closed meanwhile: the rest of the frame cannot be read.  Closing alone does
\* not wake a recv().
Hear(c) == pc[c] = "recv" /\ sock[c] \in {"open", "closed"} /\ End(c)

\* The connection has ended.
Leaves(c) ==
  \/ pc[c] = "recv" /\ sock[c] = "gone" /\ End(c)
  \/ pc[c] = "loop" /\ sock[c] = "closed" /\ End(c)
  \/ pc[c] = "pong" /\ SendRaises(c) /\ End(c)

Handler(c) ==
  \/ Register(c) \/ ReadHistory(c) \/ SendReset(c) \/ SendFirst(c) \/ SendSecond(c)
  \/ ReplayFails(c) \/ ListState(c) \/ StateSent(c) \/ Listen(c) \/ Pong(c) \/ Leaves(c)
  \/ \E d \in Clients : SendState(c, d) \/ SendStateFails(c, d)

-----------------------------------------------------------------------------
(* The clients' side.                                                      *)

Drain(c) ==
  /\ unread[c] > 0
  /\ unread' = [unread EXCEPT ![c] = @ - 1]
  /\ UNCHANGED startup
  /\ UNCHANGED <<managers, clients, sock, middle, torn, screen, wiped, history, replay, pc, todo,
                 dead, messages>>

Leave(c) ==
  /\ sock[c] = "open"
  /\ sock' = [sock EXCEPT ![c] = "gone"]
  /\ UNCHANGED startup
  /\ UNCHANGED <<managers, clients, wire, history, replay, pc, todo, dead, messages>>

Rest ==
  /\ pc[Server] \in {"serve", "failed"} /\ pc[Emitter] = "idle"
  /\ \A c \in Clients : pc[c] \in {"idle", "recv", "ended"}
  /\ UNCHANGED vars

Next ==
  \/ Bind \/ Route \/ Record \/ Broadcast \/ Rest
  \/ \E t \in Clients \union {Server} : Look(t) \/ Create(t)
  \/ \E c \in Clients : \/ Accept(c) \/ Refuse(c) \/ Upgrade(c) \/ Handler(c) \/ Hear(c)
                        \/ Input(c) \/ Request(c) \/ Ping(c) \/ Drain(c) \/ Leave(c)

Spec == Init /\ [][Next]_vars

\* The threads run, and a sendall that cannot go on is timed out.  Clients need
\* not read, send or leave.
FairSpec ==
  /\ Spec
  /\ WF_vars(Bind) /\ WF_vars(Route) /\ WF_vars(Broadcast)
  /\ \A t \in Clients \union {Server} : WF_vars(Look(t) \/ Create(t))
  /\ \A c \in Clients : WF_vars(Handler(c))

-----------------------------------------------------------------------------
(* Properties.                                                             *)

\* The variables have their types; registered clients have a handler that is
\* past the handshake; only a history leaves a frame unfinished.
TypeOK ==
  /\ {http, ws, published} \subseteq Ports \union {0} /\ tries \in 0 .. MaxTries
  /\ managers <= Cardinality(Clients) + 1
  /\ \A c \in clients : pc[c] \notin {"idle", "headers", "register", "ended"}
  /\ \A c \in Clients :
        /\ sock[c] \in {"none", "open", "gone", "closed"}
        /\ unread[c] \in 0 .. Buffer
        /\ middle[c] \in {Nobody, c}
        /\ screen[c] \union wiped[c] \subseteq 1 .. history
        /\ replay[c] \in 0 .. history \union {NoReplay}
  /\ \A t \in Threads : todo[t] \union dead[t] \subseteq Clients

\* A connected client lacks nothing: once its replay is through and the
\* broadcasts are, it shows every chunk the shell printed, except those it
\* showed before the reset that its own replay sends; it is registered before
\* the history is read for that reason (ws_server.py:187-205).
Caught(c) == c \in clients /\ sock[c] = "open" /\ c \notin torn /\ replay[c] # NoReplay
             /\ pc[c] \in {"state", "states", "loop", "recv", "pong"}
NothingMissing ==
  pc[Emitter] = "idle" =>
    \A c \in Clients : Caught(c) => 1 .. history \subseteq screen[c] \union wiped[c]

\* Nothing blocks for ever on a client that does not read: every broadcast and
\* every replay ends (ws_server.py:87-107, 361-383), and so does the startup.
ThreadsGoOn ==
  /\ pc[Emitter] # "idle" ~> pc[Emitter] = "idle"
  /\ <>(pc[Server] \in {"serve", "failed"})
  /\ \A c \in Clients : pc[c] = "register" ~> pc[c] \in {"recv", "ended"}

\* "Replay the active session's scrollback so a reload, rotation or reconnect
\* restores the screen instead of showing a blank terminal" (ws_server.py:191).
ReplayRestoresScreen ==
  pc[Emitter] = "idle" =>
    \A c \in Clients : Caught(c) /\ pc[c] = "recv" => 1 .. history \subseteq screen[c]

\* "Return the process-wide session manager" (sessions.py:216).
OneManager == managers <= 1

\* Frames reach the client whole (RFC 6455, ws_server.py:2).
FramesWhole == torn = {}
=============================================================================
