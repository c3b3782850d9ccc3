--------------------------- MODULE SessionManager ---------------------------
(***************************************************************************)
(* zmux/sessions.py: the tabs of the terminal and the screen they share.   *)
(*                                                                         *)
(* A websocket client has a handler thread (ws_server.py, _handle_client)  *)
(* that serves its messages one at a time; every session has a reader      *)
(* thread that pumps the output of its child into the session's scrollback *)
(* and, while the session is the active one, onto the screen.  All of them *)
(* share one SessionManager.  Its lock protects the tables _sessions and   *)
(* _order, but _active is also read and written outside the lock, and the  *)
(* broadcasts that repaint the screen happen outside it too: each such     *)
(* access is an action of its own here, and everything done in one "with   *)
(* self._lock" block that nobody can observe half-way is one action.       *)
(*                                                                         *)
(* Session ids are the numbers 1, 2, ... in creation order (_new_id); the  *)
(* number 0 stands for None.                                               *)
(***************************************************************************)
EXTENDS Naturals, FiniteSets, SequencesExt

CONSTANTS
  Handlers,      \* handler threads of the connected clients
  NoHandler,     \* "nobody holds the lock"
  MaxSessions,   \* SessionManager.MAX_SESSIONS
  MaxOps,        \* bound: requests the clients send
  MaxChunks      \* bound: pieces of output a session produces

ASSUME HandlersAssumption == NoHandler \notin Handlers
ASSUME MaxSessionsAssumption == MaxSessions \in Nat \ {0}
ASSUME BoundsAssumption == MaxOps \in Nat /\ MaxChunks \in Nat \ {0}

VARIABLES
  lock,       \* the handler inside a "with self._lock" block, or NoHandler
  sessions,   \* keys of _sessions
  order,      \* _order
  active,     \* _active, 0 for None
  geometry,   \* version of (_cols, _rows): how often resize() has set it
  objects,    \* every session object created so far, objects[i] has id i
  screen,     \* what a client displays: chunks received since the last reset
  pc,         \* where each handler thread is
  target,     \* the session its operation is about
  wasActive,  \* close(): the local was_active
  after,      \* where create() returns to
  dims,       \* switch(), resize(): the local geometry
  replay,     \* switch(): number of chunks in the local scrollback
  ops         \* requests sent so far

manager == <<sessions, order, active, geometry>>
locals  == <<pc, target, wasActive, after, dims, replay>>
vars    == <<lock, manager, objects, screen, locals, ops>>

None == 0

ReaderStates == {"reading", "recorded", "cleared"}

\* PTYTerminalSession, as far as the tabs are concerned: how many chunks its
\* scrollback holds, the geometry last passed to resize(), whether start() has
\* run and stop() has not, and what its reader thread is doing.
Session == [chunks : Nat, size : Nat, alive : BOOLEAN, reader : ReaderStates]

NewSession == [chunks |-> 0, size |-> 0, alive |-> FALSE, reader |-> "reading"]

Ids == 1..Len(objects)

\* One piece of output: the k-th of session s.  <<None, 0>> is the text the
\* server itself writes ("[zmux: session limit reached]").
Chunk(s, k) == <<s, k>>
Notice == <<None, 0>>

\* ws_server.broadcast, as the attached client sees it.
Broadcast(text) == screen' = screen \o text
BroadcastReset == screen' = << >>

Scrollback(s, n) == [k \in 1..n |-> Chunk(s, k)]

Free(h) == lock = NoHandler /\ h \in Handlers

Goto(h, from, to) ==
  /\ pc[h] = from
  /\ pc' = [pc EXCEPT ![h] = to]

Index(id) == CHOOSE i \in DOMAIN order : order[i] = id

\* Mutant: the left neighbour takes over.
SuccessorLeft(i, rest) ==
  IF rest = << >> THEN None ELSE rest[IF i > 1 THEN i - 1 ELSE 1]

\* The tab that takes over from a closed one: its right neighbour, or the last.
Successor(i, rest) ==
  IF rest = << >> THEN None
  ELSE rest[IF i <= Len(rest) THEN i ELSE Len(rest)]

(***************************************************************************)
(* get_manager: the manager with the session its first use creates.        *)
(***************************************************************************)
Init ==
  /\ lock = NoHandler
  /\ sessions = {1}
  /\ order = <<1>>
  /\ active = 1
  /\ geometry = 0
  /\ objects = <<[NewSession EXCEPT !.chunks = 1, !.alive = TRUE]>>
  /\ screen = Scrollback(1, 1)
  /\ pc = [h \in Handlers |-> "idle"]
  /\ target = [h \in Handlers |-> None]
  /\ wasActive = [h \in Handlers |-> FALSE]
  /\ after = [h \in Handlers |-> "idle"]
  /\ dims = [h \in Handlers |-> 0]
  /\ replay = [h \in Handlers |-> 0]
  /\ ops = 0

-----------------------------------------------------------------------------
(***************************************************************************)
(* The messages of a client (_handle_client_message).  A client may name   *)
(* any session it ever saw, closed ones included.                          *)
(***************************************************************************)
Request(h, to) ==
  /\ ops < MaxOps
  /\ ops' = ops + 1
  /\ Goto(h, "idle", to)
  /\ UNCHANGED <<lock, manager, objects, screen, wasActive, dims, replay>>

RequestNew(h) ==
  /\ Request(h, "create")
  /\ after' = [after EXCEPT ![h] = "switch"]
  /\ UNCHANGED target

RequestSwitch(h, id) ==
  /\ Request(h, "switch")
  /\ target' = [target EXCEPT ![h] = id]
  /\ UNCHANGED after

RequestClose(h, id) ==
  /\ Request(h, "close")
  /\ target' = [target EXCEPT ![h] = id]
  /\ UNCHANGED after

RequestResize(h) ==
  /\ Request(h, "resize")
  /\ UNCHANGED <<target, after>>

-----------------------------------------------------------------------------
(***************************************************************************)
(* create(): the whole body runs under the lock.                           *)
(***************************************************************************)

\* The cap: create() raises and _handle_session_action tells the clients.
CreateRefused(h) ==
  /\ Free(h)
  /\ Cardinality(sessions) >= MaxSessions
  /\ Goto(h, "create", "idle")
  /\ Broadcast(<<Notice>>)
  /\ UNCHANGED <<lock, manager, objects, target, wasActive, after, dims, replay, ops>>

\* Mutant: the tables name the session before its object exists.
CreateRegisterEarly(h) ==
  LET id == Len(objects) + 1 IN
  /\ Free(h)
  /\ Cardinality(sessions) < MaxSessions
  /\ Goto(h, "create", "create_start")
  /\ lock' = h
  /\ sessions' = sessions \union {id}
  /\ order' = Append(order, id)
  /\ active' = id
  /\ target' = [target EXCEPT ![h] = id]
  /\ UNCHANGED <<geometry, objects, screen, wasActive, after, dims, replay, ops>>

\* Mutant: start() is called after the lock is released.
CreateRegisterUnlocked(h) ==
  LET id == Len(objects) + 1 IN
  /\ Free(h)
  /\ Cardinality(sessions) < MaxSessions
  /\ Goto(h, "create", IF active # None THEN "create_reset" ELSE "create_start")
  /\ objects' = Append(objects, NewSession)
  /\ sessions' = sessions \union {id}
  /\ order' = Append(order, id)
  /\ active' = id
  /\ target' = [target EXCEPT ![h] = id]
  /\ UNCHANGED <<lock, geometry, screen, wasActive, after, dims, replay, ops>>

CreateRegister(h) ==
  LET id == Len(objects) + 1 IN
  /\ Free(h)
  /\ Cardinality(sessions) < MaxSessions
  /\ Goto(h, "create", IF active # None THEN "create_reset" ELSE "create_start")
  /\ lock' = h
  /\ objects' = Append(objects, NewSession)
  /\ sessions' = sessions \union {id}
  /\ order' = Append(order, id)
  /\ active' = id
  /\ target' = [target EXCEPT ![h] = id]
  /\ UNCHANGED <<geometry, screen, wasActive, after, dims, replay, ops>>

CreateReset(h) ==
  /\ Goto(h, "create_reset", "create_start")
  /\ BroadcastReset
  /\ UNCHANGED <<lock, manager, objects, target, wasActive, after, dims, replay, ops>>

\* resize() to the current geometry, then start(): the banner is recorded and,
\* if the session is still the active one, on its way to the screen.
CreateStart(h) ==
  LET id == target[h] IN
  /\ Goto(h, "create_start", IF active = id THEN "create_show" ELSE "create_return")
  /\ objects' = [objects EXCEPT ![id].size = geometry, ![id].chunks = 1]
  /\ UNCHANGED <<lock, manager, screen, target, wasActive, after, dims, replay, ops>>

CreateShow(h) ==
  /\ Goto(h, "create_show", "create_return")
  /\ Broadcast(<<Chunk(target[h], 1)>>)
  /\ UNCHANGED <<lock, manager, objects, target, wasActive, after, dims, replay, ops>>

\* The child and its reader thread run; the lock is released.  For session.new
\* the handler goes on to switch(create()), close() is done.
CreateReturn(h) ==
  /\ Goto(h, "create_return", after[h])
  /\ lock' = NoHandler
  /\ objects' = [objects EXCEPT ![target[h]].alive = TRUE]
  /\ UNCHANGED <<manager, screen, target, wasActive, after, dims, replay, ops>>

-----------------------------------------------------------------------------
(***************************************************************************)
(* switch(): the choice under the lock, the repaint outside it.            *)
(***************************************************************************)
\* Mutant: it waits for the session to appear.
SwitchRefusedWaits(h) ==
  /\ Free(h)
  /\ target[h] \notin sessions \/ target[h] = active
  /\ Goto(h, "switch", "switch")
  /\ UNCHANGED <<lock, manager, objects, screen, target, wasActive, after, dims, replay, ops>>

SwitchRefused(h) ==
  /\ Free(h)
  /\ target[h] \notin sessions \/ target[h] = active
  /\ Goto(h, "switch", "idle")
  /\ UNCHANGED <<lock, manager, objects, screen, target, wasActive, after, dims, replay, ops>>

\* Mutant: the session may have been closed meanwhile.
SwitchActivateClosed(h) ==
  /\ Free(h)
  /\ target[h] # active
  /\ Goto(h, "switch", "switch_reset")
  /\ active' = target[h]
  /\ dims' = [dims EXCEPT ![h] = geometry]
  /\ UNCHANGED <<lock, sessions, order, geometry, objects, screen,
                 target, wasActive, after, replay, ops>>

SwitchActivate(h) ==
  /\ Free(h)
  /\ target[h] \in sessions
  /\ target[h] # active
  /\ Goto(h, "switch", "switch_reset")
  /\ active' = target[h]
  /\ dims' = [dims EXCEPT ![h] = geometry]
  /\ UNCHANGED <<lock, sessions, order, geometry, objects, screen,
                 target, wasActive, after, replay, ops>>

\* session.resize(cols, rows), then the reset.
SwitchReset(h) ==
  /\ Goto(h, "switch_reset", "switch_read")
  /\ objects' = [objects EXCEPT ![target[h]].size = dims[h]]
  /\ BroadcastReset
  /\ UNCHANGED <<lock, manager, target, wasActive, after, dims, replay, ops>>

SwitchRead(h) ==
  /\ Goto(h, "switch_read", "switch_replay")
  /\ replay' = [replay EXCEPT ![h] = objects[target[h]].chunks]
  /\ UNCHANGED <<lock, manager, objects, screen, target, wasActive, after, dims, ops>>

\* Mutant: the reset goes out with the scrollback, after it was read.
SwitchReplayLateReset(h) ==
  /\ Goto(h, "switch_replay", "idle")
  /\ screen' = Scrollback(target[h], replay[h])
  /\ UNCHANGED <<lock, manager, objects, target, wasActive, after, dims, replay, ops>>

SwitchReplay(h) ==
  /\ Goto(h, "switch_replay", "idle")
  /\ Broadcast(Scrollback(target[h], replay[h]))
  /\ UNCHANGED <<lock, manager, objects, target, wasActive, after, dims, replay, ops>>

-----------------------------------------------------------------------------
(***************************************************************************)
(* close(): the tables under the lock, everything after that outside it.   *)
(***************************************************************************)
CloseRefused(h) ==
  /\ Free(h)
  /\ target[h] \notin sessions
  /\ Goto(h, "close", "idle")
  /\ UNCHANGED <<lock, manager, objects, screen, target, wasActive, after, dims, replay, ops>>

\* Mutant: the session leaves _sessions but not _order.
CloseRemoveKeepsOrder(h) ==
  LET id == target[h]
      rest == RemoveAt(order, Index(id))
  IN
  /\ Free(h)
  /\ id \in sessions
  /\ Goto(h, "close", "close_stop")
  /\ sessions' = sessions \ {id}
  /\ active' = IF active = id THEN Successor(Index(id), rest) ELSE active
  /\ wasActive' = [wasActive EXCEPT ![h] = (active = id)]
  /\ UNCHANGED <<lock, order, geometry, objects, screen, target, after, dims, replay, ops>>

CloseRemove(h) ==
  LET id   == target[h]
      rest == RemoveAt(order, Index(id))
  IN
  /\ Free(h)
  /\ id \in sessions
  /\ Goto(h, "close", "close_stop")
  /\ sessions' = sessions \ {id}
  /\ order' = rest
  /\ active' = IF active = id THEN Successor(Index(id), rest) ELSE active
  /\ wasActive' = [wasActive EXCEPT ![h] = (active = id)]
  /\ UNCHANGED <<lock, geometry, objects, screen, target, after, dims, replay, ops>>

CloseStop(h) ==
  /\ Goto(h, "close_stop", "close_check")
  /\ objects' = [objects EXCEPT ![target[h]].alive = FALSE]
  /\ UNCHANGED <<lock, manager, screen, target, wasActive, after, dims, replay, ops>>

\* Mutant: nobody replaces the last tab.
CloseCheckNoRefill(h) ==
  /\ Goto(h, "close_check", IF wasActive[h] THEN "close_take" ELSE "idle")
  /\ after' = [after EXCEPT ![h] = "idle"]
  /\ UNCHANGED <<lock, manager, objects, screen, target, wasActive, dims, replay, ops>>

\* "if self._active is None: create()  elif was_active: ..."
CloseCheck(h) ==
  /\ Goto(h, "close_check", IF active = None THEN "create"
                            ELSE IF wasActive[h] THEN "close_take" ELSE "idle")
  /\ after' = [after EXCEPT ![h] = "idle"]
  /\ UNCHANGED <<lock, manager, objects, screen, target, wasActive, dims, replay, ops>>

\* active = self._active
CloseTake(h) ==
  /\ Goto(h, "close_take", "close_blank")
  /\ target' = [target EXCEPT ![h] = active]
  /\ UNCHANGED <<lock, manager, objects, screen, wasActive, after, dims, replay, ops>>

\* self._active = None, to force switch() to repaint
CloseBlank(h) ==
  /\ Goto(h, "close_blank", "switch")
  /\ active' = None
  /\ UNCHANGED <<lock, sessions, order, geometry, objects, screen,
                 target, wasActive, after, dims, replay, ops>>

-----------------------------------------------------------------------------
(***************************************************************************)
(* resize(): remembered under the lock, applied to the tab outside it.     *)
(***************************************************************************)
ResizeStore(h) ==
  /\ Free(h)
  /\ Goto(h, "resize", IF active = None THEN "idle" ELSE "resize_apply")
  /\ geometry' = geometry + 1
  /\ target' = [target EXCEPT ![h] = active]
  /\ dims' = [dims EXCEPT ![h] = geometry + 1]
  /\ UNCHANGED <<lock, sessions, order, active, objects, screen, wasActive, after, replay, ops>>

ResizeApply(h) ==
  /\ Goto(h, "resize_apply", "idle")
  /\ objects' = [objects EXCEPT ![target[h]].size = dims[h]]
  /\ UNCHANGED <<lock, manager, screen, target, wasActive, after, dims, replay, ops>>

-----------------------------------------------------------------------------
(***************************************************************************)
(* The reader thread of a session: _emit records the chunk, the callback   *)
(* of _emit_for looks at _active without the lock and then broadcasts.     *)
(* stop() ends the reading; a chunk already recorded still goes its way.   *)
(***************************************************************************)
Reader(s, from, to) ==
  /\ objects[s].reader = from
  /\ objects' = [objects EXCEPT ![s].reader = to]

EmitRecord(s) ==
  /\ objects[s].alive
  /\ objects[s].reader = "reading"
  /\ objects[s].chunks < MaxChunks
  /\ objects' = [objects EXCEPT ![s].reader = "recorded", ![s].chunks = @ + 1]
  /\ UNCHANGED <<lock, manager, screen, locals, ops>>

EmitCheck(s) ==
  /\ Reader(s, "recorded", IF active = s THEN "cleared" ELSE "reading")
  /\ UNCHANGED <<lock, manager, screen, locals, ops>>

EmitShow(s) ==
  /\ Reader(s, "cleared", "reading")
  /\ Broadcast(<<Chunk(s, objects[s].chunks)>>)
  /\ UNCHANGED <<lock, manager, locals, ops>>

-----------------------------------------------------------------------------
ClientMessage(h) ==
  \/ RequestNew(h)
  \/ \E id \in Ids : RequestSwitch(h, id) \/ RequestClose(h, id)
  \/ RequestResize(h)

HandlerStep(h) ==
  \/ CreateRefused(h) \/ CreateRegister(h) \/ CreateReset(h)
  \/ CreateStart(h) \/ CreateShow(h) \/ CreateReturn(h)
  \/ SwitchRefused(h) \/ SwitchActivate(h) \/ SwitchReset(h)
  \/ SwitchRead(h) \/ SwitchReplay(h)
  \/ CloseRefused(h) \/ CloseRemove(h) \/ CloseStop(h)
  \/ CloseCheck(h) \/ CloseTake(h) \/ CloseBlank(h)
  \/ ResizeStore(h) \/ ResizeApply(h)

ReaderFinish(s) == EmitCheck(s) \/ EmitShow(s)

HandlersIdle == \A h \in Handlers : pc[h] = "idle"
ReadersIdle  == \A s \in Ids : objects[s].reader = "reading"
Quiet == HandlersIdle /\ ReadersIdle

\* Nobody types and nothing prints: the server just waits.
Rest == Quiet /\ UNCHANGED vars

Next ==
  \/ \E h \in Handlers : ClientMessage(h) \/ HandlerStep(h)
  \/ \E s \in Ids : EmitRecord(s) \/ ReaderFinish(s)
  \/ Rest

Spec == Init /\ [][Next]_vars

\* A thread that can run eventually does; clients owe nobody a message and
\* programs owe nobody any output.
FairSpec == Spec /\ \A h \in Handlers : WF_vars(HandlerStep(h))

-----------------------------------------------------------------------------
(***************************************************************************)
(* Invariants, whatever the number of handlers.                            *)
(***************************************************************************)
CreateSteps == {"create_reset", "create_start", "create_show", "create_return"}
Steps == CreateSteps \union
         {"idle", "create", "switch", "switch_reset", "switch_read", "switch_replay",
          "close", "close_stop", "close_check", "close_take", "close_blank",
          "resize", "resize_apply"}

\* Every variable has its type; ids that are used name existing sessions.
TypeOK ==
  /\ lock \in Handlers \union {NoHandler}
  /\ objects \in Seq(Session)
  /\ sessions \in SUBSET Ids
  /\ order \in Seq(Nat)
  /\ active \in Ids \union {None}
  /\ geometry \in Nat
  /\ screen \in Seq(Nat \X Nat)
  /\ pc \in [Handlers -> Steps]
  /\ target \in [Handlers -> Ids \union {None}]
  /\ wasActive \in [Handlers -> BOOLEAN]
  /\ after \in [Handlers -> {"idle", "switch"}]
  /\ dims \in [Handlers -> Nat]
  /\ replay \in [Handlers -> Nat]
  /\ ops \in Nat

\* The two tables agree and the strip is in creation order, within the cap:
\* _order lists the keys of _sessions, each once, oldest first.
TabsWellFormed ==
  /\ sessions = {order[i] : i \in DOMAIN order}
  /\ \A i, j \in DOMAIN order : i < j => order[i] < order[j]
  /\ Len(order) <= MaxSessions

\* Although close() and switch() leave the lock between choosing a session and
\* making it active, the session on screen is never one that was closed.
ActiveIsOpen == active # None => active \in sessions

\* "never leaves zero" (close): whatever closes race with each other, once
\* every request is served there is a session.
NeverZero == HandlersIdle => sessions # {}

\* Every open tab has a running session and no closed one keeps its child
\* running behind the user's back, once every request is served.
NoOrphans == HandlersIdle => \A s \in Ids : objects[s].alive <=> s \in sessions

-----------------------------------------------------------------------------
(***************************************************************************)
(* The screen, for one client.                                             *)
(***************************************************************************)

\* Nothing the visible session printed is lost: every chunk of its scrollback
\* is on the screen.  A chunk is either in what switch() replays or is shown
\* live after the reset, whatever way the reader thread and the switch
\* interleave.
NothingMissing ==
  Quiet => \A k \in 1..objects[active].chunks :
             \E i \in DOMAIN screen : screen[i] = Chunk(active, k)

\* "Apply the latest geometry when that tab becomes visible again": once all
\* requests are served the visible session has the size of the window.
GeometryApplied ==
  HandlersIdle /\ active # None => objects[active].size = geometry

\* "so switching never shows a mix of two sessions": every chunk on the screen
\* belongs to the session on screen.
NoMix ==
  Quiet => \A i \in DOMAIN screen : screen[i][1] \in {active, None}

\* "rather than leaving the user staring at a dead terminal": once every
\* request is served some session is on screen.
SomeTabOnScreen == HandlersIdle => active # None

\* No request waits for ever, for the lock or for anything else.
RequestsFinish == \A h \in Handlers : pc[h] # "idle" ~> pc[h] = "idle"

(***************************************************************************)
(* With one client the manager implements TabStrip.  Between the moment    *)
(* close() empties the strip and the moment its create() refills it, the   *)
(* strip still is the closed tab; while _active is None to force a repaint *)
(* the tab on screen is the one about to be repainted.                     *)
(***************************************************************************)
Client == CHOOSE h \in Handlers : TRUE

StripTabs == IF order = << >> THEN <<target[Client]>> ELSE order
StripShown == IF active = None THEN target[Client] ELSE active

Strip == INSTANCE TabStrip WITH
  MaxTabs <- MaxSessions, tabs <- StripTabs, shown <- StripShown, opened <- Len(objects)

\* Every step of the one client's operations is a step of TabStrip or leaves
\* the strip alone.
ImplementsTabStrip == Strip!Spec

=============================================================================
