----------------------------- MODULE PtySession -----------------------------
(***************************************************************************)
(* zmux/realpty.py and the part of zmux/pty_session.py that owns it: the   *)
(* Alpine shell of a session as a child on a pseudo-terminal, its reader   *)
(* thread, and the threads that open, write to, resize and kill it.  The   *)
(* probe zmux-pty-probe drives children of its own.                        *)
(*                                                                         *)
(* Descriptors are numbers, reused as soon as they are closed.  A system   *)
(* call that is under way keeps the file it started with, also when its    *)
(* number is closed; one that has not started yet takes the file that has  *)
(* the number then.  A descendant that left the process group may hold the *)
(* terminal's other side open after the shell is dead.                     *)
(***************************************************************************)
EXTENDS Naturals, FiniteSets

CONSTANTS
  Users,       \* threads that handle clients of the session
  Worker,      \* the session's command worker
  Prober,      \* the thread that runs zmux-pty-probe
  MaxSpawns,   \* bound: children
  MaxProbes,   \* bound: checks of the probe
  MaxOps,      \* bound: operations of the users
  MaxOutputs,  \* bound: chunks the children print
  MaxOpens,    \* bound: descriptors the rest of the program opens
  Descriptors  \* how many descriptor numbers there are

Children == 1 .. MaxSpawns
Fds      == 1 .. Descriptors
Threads  == Users \union {Worker, Prober} \union Children  \* a child stands for its reader
Nobody   == 0

ASSUME ThreadsAssumption ==
  /\ (Users \union {Worker, Prober}) \intersect Nat = {}
  /\ Worker # Prober /\ {Worker, Prober} \intersect Users = {}
ASSUME BoundsAssumption == {MaxSpawns, MaxProbes, MaxOps, MaxOutputs, MaxOpens, Descriptors} \subseteq Nat

VARIABLES
  running,    \* is_running
  installed,  \* Alpine is ready to start
  pty,        \* self.pty: a child or Nobody
  lock,       \* who holds self.lock, an RLock
  pc, on,     \* where each thread is, and the child it deals with
  proc,       \* proc[c]: "none", "alive", "signalled", "dead" or "reaped"
  held,       \* children whose terminal a descendant holds open
  exited,     \* the children whose _exited is set
  bound,      \* the children whose on_exit finds its holder
  master,     \* master[c]: the number of its descriptor
  file,       \* file[n]: Nobody, a child's terminal, or Stranger
  reading,    \* reading[c]: the file that the read under way has
  strays,     \* <<call, thread>>: the calls that reached a file of someone else
  probes,     \* the children of the probe
  failed,     \* the probe's check failed, and it kills its shell twice
  spawned, ops, outputs, opens

Stranger == MaxSpawns + 1
system  == <<proc, held, file, reading, strays>>
objects == <<exited, bound, master, spawned, probes, failed>>
session == <<running, installed, pty>>
vars    == <<session, lock, pc, on, system, objects, ops, outputs, opens>>

Init ==
  /\ running = FALSE /\ installed \in BOOLEAN
  /\ pty = Nobody /\ lock = Nobody
  /\ pc = [t \in Threads |-> "idle"] /\ on = [t \in Threads |-> Nobody]
  /\ proc = [c \in Children |-> "none"]
  /\ held = {} /\ exited = {} /\ bound = {} /\ strays = {} /\ probes = {}
  /\ failed = FALSE
  /\ master = [c \in Children |-> 1]
  /\ file = [n \in Fds |-> Nobody]
  /\ reading = [c \in Children |-> Nobody]
  /\ spawned = 0 /\ ops = 0 /\ outputs = 0 /\ opens = 0

Goto(t, from, to) == pc[t] = from /\ pc' = [pc EXCEPT ![t] = to]
Free(t) == lock \in {Nobody, t}
Lowest(S) == CHOOSE n \in S : \A m \in S : n <= m
FreeFds == {n \in Fds : file[n] = Nobody}

\* A call by thread t on the descriptor of child c: whose file does it reach?
Strays(call, t, c) ==
  IF file[master[c]] \in {c, Nobody} THEN strays ELSE strays \union {<<call, t>>}

-----------------------------------------------------------------------------
(* _enter_linux_pty, for any thread that calls it.                         *)

EnterRefused(t) ==
  /\ Free(t)
  /\ ~running \/ pty # Nobody \/ ~installed
  /\ Goto(t, "enter", "idle")
  /\ lock' = Nobody
  /\ UNCHANGED <<session, on, system, objects, ops, outputs, opens>>

Enter(t) ==
  /\ Free(t)
  /\ running /\ pty = Nobody /\ installed
  /\ Goto(t, "enter", "spawn")
  /\ lock' = t
  /\ UNCHANGED <<session, on, system, objects, ops, outputs, opens>>

\* RealPtyProcess(): openpty, fork, the slave closed, the reader started.
Fork(t, to) ==
  LET c == spawned + 1
      n == Lowest(FreeFds)
  IN  /\ spawned < MaxSpawns
      /\ Cardinality(FreeFds) >= 2
      /\ pc[t] = "spawn"
      /\ pc' = [pc EXCEPT ![t] = to, ![c] = "check"]
      /\ on' = [on EXCEPT ![t] = c]
      /\ proc' = [proc EXCEPT ![c] = "alive"]
      /\ file' = [file EXCEPT ![n] = c]
      /\ master' = [master EXCEPT ![c] = n]
      /\ spawned' = c
      /\ probes' = IF t = Prober THEN probes \union {c} ELSE probes
      /\ UNCHANGED <<held, reading, strays, exited, bound, failed>>

Spawn(t) ==
  /\ t # Prober
  /\ Fork(t, "bind")
  /\ UNCHANGED <<session, lock, ops, outputs, opens>>

\* fork() fails with a RuntimeError, which is printed, or openpty() with an
\* OSError, which leaves the method and ends in the caller's except clause.
SpawnFails(t) ==
  /\ spawned = MaxSpawns \/ Cardinality(FreeFds) < 2
  /\ Goto(t, "spawn", "idle")
  /\ lock' = IF t = Prober THEN lock ELSE Nobody
  /\ UNCHANGED <<session, on, system, objects, ops, outputs, opens>>

\* holder["pty"] = pty
Bind(t) ==
  /\ Goto(t, "bind", "publish")
  /\ bound' = bound \union {on[t]}
  /\ UNCHANGED <<session, lock, on, system, exited, master, spawned, probes, failed,
                 ops, outputs, opens>>

\* self.pty = pty; install_guest_wrappers writes into the rootfs only.
Publish(t) ==
  /\ Goto(t, "publish", "idle")
  /\ pty' = on[t]
  /\ lock' = Nobody
  /\ on' = [on EXCEPT ![t] = Nobody]
  /\ UNCHANGED <<running, installed,system, objects, ops, outputs, opens>>

-----------------------------------------------------------------------------
(* What the clients do.                                                    *)

Operation == ops < MaxOps /\ ops' = ops + 1

\* start(); without Alpine the session waits for linux-setup.
Start(u) ==
  /\ Free(u) /\ ~running /\ ops = 0
  /\ running' = TRUE
  /\ IF installed THEN Goto(u, "idle", "enter") /\ lock' = u
     ELSE pc[u] = "idle" /\ UNCHANGED <<pc, lock>>
  /\ UNCHANGED <<installed, pty, on, system, objects, ops, outputs, opens>>

\* _finish_command after the linux-setup that installed Alpine.
OpenAlpine ==
  /\ running /\ ~installed
  /\ installed' = TRUE
  /\ Goto(Worker, "idle", "enter")
  /\ UNCHANGED <<running, pty, lock, on, system, objects, ops, outputs, opens>>

\* Mutant: only the look at self.pty is under the lock.
WriteBeginUnlocked(u) ==
  /\ lock = Nobody /\ running /\ pty # Nobody /\ pty \notin exited /\ Operation
  /\ Goto(u, "idle", "write")
  /\ on' = [on EXCEPT ![u] = pty]
  /\ UNCHANGED <<session, lock, system, objects, outputs, opens>>

\* write_input: the lock is held until the bytes are written.
WriteBegin(u) ==
  /\ lock = Nobody /\ running /\ pty # Nobody /\ pty \notin exited /\ Operation
  /\ Goto(u, "idle", "write")
  /\ on' = [on EXCEPT ![u] = pty]
  /\ lock' = u
  /\ UNCHANGED <<session, system, objects, outputs, opens>>

WriteEnd(u) ==
  /\ Goto(u, "write", "idle")
  /\ strays' = Strays("write", u, on[u])
  /\ lock' = IF lock = u THEN Nobody ELSE lock
  /\ on' = [on EXCEPT ![u] = Nobody]
  /\ UNCHANGED <<session,proc, held, file, reading, objects, ops, outputs, opens>>

\* resize() takes no lock.
ResizeBegin(u) ==
  /\ pty # Nobody /\ pty \notin exited /\ Operation
  /\ Goto(u, "idle", "resize")
  /\ on' = [on EXCEPT ![u] = pty]
  /\ UNCHANGED <<session, lock, system, objects, outputs, opens>>

ResizeEnd(u) ==
  /\ Goto(u, "resize", "idle")
  /\ strays' = Strays("resize", u, on[u])
  /\ on' = [on EXCEPT ![u] = Nobody]
  /\ UNCHANGED <<session, lock,proc, held, file, reading, objects, ops, outputs, opens>>

\* toggle_pty: detach and kill, or open.
Toggle(u) ==
  /\ lock = Nobody /\ running /\ Operation
  /\ lock' = u
  /\ Goto(u, "idle", IF pty = Nobody THEN "enter" ELSE "signal")
  /\ on' = [on EXCEPT ![u] = pty]
  /\ pty' = Nobody
  /\ UNCHANGED <<running, installed, system, objects, outputs, opens>>

Stop(u) ==
  /\ lock = Nobody /\ running /\ Operation
  /\ running' = FALSE
  /\ on' = [on EXCEPT ![u] = pty]
  /\ IF pty = Nobody THEN pc[u] = "idle" /\ UNCHANGED <<pc, lock>>
     ELSE Goto(u, "idle", "signal") /\ lock' = u
  /\ pty' = Nobody
  /\ UNCHANGED <<installed, system, objects, outputs, opens>>

-----------------------------------------------------------------------------
(* kill(): SIGKILL to the group, the master closed, _exited set.           *)

Signalled(c) == [proc EXCEPT ![c] = IF @ = "alive" THEN "signalled" ELSE @]

Signal(t) ==
  /\ Goto(t, "signal", "close")
  /\ proc' = Signalled(on[t])
  /\ UNCHANGED <<session, lock, on, held, file, reading, strays, objects, ops, outputs,
                 opens>>

Close(t) ==
  /\ Goto(t, "close", "mark")
  /\ strays' = Strays("close", t, on[t])
  /\ file' = [file EXCEPT ![master[on[t]]] = Nobody]
  /\ UNCHANGED <<session, lock, on, proc, held, reading, objects, ops, outputs, opens>>

Mark(t) ==
  /\ Goto(t, "mark", IF t = Prober /\ failed THEN "signal" ELSE "idle")
  /\ failed' = (t # Prober /\ failed)
  /\ exited' = exited \union {on[t]}
  /\ lock' = IF lock = t THEN Nobody ELSE lock
  /\ on' = [on EXCEPT ![t] = IF t = Prober /\ failed THEN @ ELSE Nobody]
  /\ UNCHANGED <<session,system, bound, master, spawned, probes, ops, outputs, opens>>

-----------------------------------------------------------------------------
(* The reader thread of a child: _read_loop, _reap and on_exit.            *)

ReadCheck(c) ==
  /\ Goto(c, "check", IF c \in exited THEN "out" ELSE "read")
  /\ UNCHANGED <<session, lock, on, system, objects, ops, outputs, opens>>

\* os.read() starts; a closed number is an error.
ReadCall(c) ==
  /\ LET f == file[master[c]]
     IN /\ Goto(c, "read", IF f = Nobody THEN "out" ELSE "reading")
        /\ reading' = [reading EXCEPT ![c] = f]
        /\ strays' = Strays("read", c, c)
  /\ UNCHANGED <<session, lock, on, proc, held, file, objects, ops, outputs, opens>>

SlaveClosed(c) == proc[c] \in {"dead", "reaped"} /\ c \notin held

\* It returns data, which is emitted; a sink that raises ends the loop.
ReadData(c) ==
  /\ LET f == reading[c]
     IN /\ f = Stranger \/ (f \in Children /\ ~SlaveClosed(f))
        /\ \E next \in {"check", "out"} : Goto(c, "reading", next)
        /\ reading' = [reading EXCEPT ![c] = Nobody]
        /\ IF f = Stranger THEN UNCHANGED outputs
           ELSE outputs < MaxOutputs /\ outputs' = outputs + 1
  /\ UNCHANGED <<session, lock, on, proc, held, file, strays, objects, ops, opens>>

\* It fails when nobody has the other side open any more.
ReadEnd(c) ==
  /\ reading[c] \in Children /\ SlaveClosed(reading[c])
  /\ Goto(c, "reading", "out")
  /\ reading' = [reading EXCEPT ![c] = Nobody]
  /\ UNCHANGED <<session, lock, on, proc, held, file, strays, objects, ops, outputs, opens>>

ReadOut(c) ==
  /\ Goto(c, "out", "reap")
  /\ exited' = exited \union {c}
  /\ UNCHANGED <<session, lock, on, system, bound, master, spawned, probes, failed,
                 ops, outputs, opens>>

\* waitpid(WNOHANG) finds it running: the group is killed.
ReapKill(c) ==
  /\ pc[c] = "reap" /\ proc[c] = "alive"
  /\ proc' = Signalled(c)
  /\ UNCHANGED <<session, lock, pc, on, held, file, reading, strays, objects, ops,
                 outputs, opens>>

\* Mutant: no second, blocking waitpid.
ReapOnce(c) ==
  /\ Goto(c, "reap", "callback")
  /\ proc' = [proc EXCEPT ![c] = IF @ = "dead" THEN "reaped" ELSE @]
  /\ UNCHANGED <<session, lock, on, held, file, reading, strays, objects, ops, outputs,
                 opens>>

Reap(c) ==
  /\ Goto(c, "reap", "callback")
  /\ proc[c] = "dead"
  /\ proc' = [proc EXCEPT ![c] = "reaped"]
  /\ UNCHANGED <<session, lock, on, held, file, reading, strays, objects, ops, outputs,
                 opens>>

\* on_exit() without its holder is a KeyError that nobody sees.
ExitLost(c) ==
  /\ c \notin bound
  /\ Goto(c, "callback", "done")
  /\ UNCHANGED <<session, lock, on, system, objects, ops, outputs, opens>>

\* _pty_exited: someone else's exit by now?  The current shell is replaced; its
\* look at is_running and at Alpine is repeated by _enter_linux_pty.
ExitStale(c) ==
  /\ c \in bound /\ Free(c) /\ pty # c
  /\ Goto(c, "callback", "done")
  /\ UNCHANGED <<session, lock, on, system, objects, ops, outputs, opens>>

\* Mutant: any exit clears self.pty.
ExitAny(c) ==
  /\ c \in bound /\ Free(c)
  /\ Goto(c, "callback", "enter")
  /\ pty' = Nobody
  /\ UNCHANGED <<running, installed, lock, on, system, objects, ops, outputs, opens>>

ExitCurrent(c) ==
  /\ c \in bound /\ Free(c) /\ pty = c
  /\ Goto(c, "callback", "enter")
  /\ pty' = Nobody
  /\ UNCHANGED <<running, installed, lock, on, system, objects, ops, outputs, opens>>

Reader(c) ==
  \/ ReadCheck(c) \/ ReadCall(c) \/ ReadData(c) \/ ReadEnd(c) \/ ReadOut(c)
  \/ ReapKill(c) \/ Reap(c) \/ ExitLost(c) \/ ExitStale(c) \/ ExitCurrent(c)

-----------------------------------------------------------------------------
(***************************************************************************)
(* zmux-pty-probe: each check starts a shell of its own, talks to it,      *)
(* waits for an answer and for its end, both with a timeout, and kills it. *)
(***************************************************************************)
ProbeBegin ==
  /\ Goto(Prober, "idle", "spawn")
  /\ spawned < MaxSpawns /\ Cardinality(probes) < MaxProbes
  /\ UNCHANGED <<session, lock, on, system, objects, ops, outputs, opens>>

ProbeSpawn ==
  /\ Fork(Prober, "send")
  /\ UNCHANGED <<session, lock, ops, outputs, opens>>

ProbeSend ==
  /\ Goto(Prober, "send", "answer")
  /\ strays' = IF on[Prober] \in exited THEN strays ELSE Strays("write", Prober, on[Prober])
  /\ UNCHANGED <<session, lock, on, proc, held, file, reading, objects, ops, outputs, opens>>

\* The answer and the end come, or a timeout: a shell that was not reaped in
\* time is killed by the check and then again by its finally clause.
ProbeAnswer ==
  /\ Goto(Prober, "answer", "signal")
  /\ failed' \in {FALSE, proc[on[Prober]] # "reaped"}
  /\ UNCHANGED <<session, lock, on, system, exited, bound, master, spawned, probes,
                 ops, outputs, opens>>

-----------------------------------------------------------------------------
(* The processes, and the rest of the program.                             *)

\* The shell exits or dies from the signal, with or without such a descendant.
Die(c) ==
  /\ proc[c] \in {"alive", "signalled"}
  /\ proc' = [proc EXCEPT ![c] = "dead"]
  /\ held' \in {held, held \union {c}}
  /\ UNCHANGED <<session, lock, pc, on, file, reading, strays, objects, ops, outputs, opens>>

LetGo(c) ==
  /\ c \in held
  /\ held' = held \ {c}
  /\ UNCHANGED <<session, lock, pc, on, proc, file, reading, strays, objects, ops, outputs,
                 opens>>

OpenFile ==
  /\ opens < MaxOpens /\ opens' = opens + 1
  /\ FreeFds # {}
  /\ file' = [file EXCEPT ![Lowest(FreeFds)] = Stranger]
  /\ UNCHANGED <<session, lock, pc, on, proc, held, reading, strays, objects, ops, outputs>>

\* Nothing is under way.
Rest == (\A t \in Threads : pc[t] \in {"idle", "done"}) /\ UNCHANGED vars

Opener(t) == Enter(t) \/ EnterRefused(t) \/ Spawn(t) \/ SpawnFails(t) \/ Bind(t) \/ Publish(t)
Killer(t) == Signal(t) \/ Close(t) \/ Mark(t)
Probe     == ProbeSpawn \/ ProbeSend \/ ProbeAnswer

Next ==
  \/ \E u \in Users : \/ Start(u) \/ Toggle(u) \/ Stop(u)
                      \/ WriteBegin(u) \/ WriteEnd(u) \/ ResizeBegin(u) \/ ResizeEnd(u)
  \/ OpenAlpine \/ ProbeBegin \/ Probe \/ OpenFile \/ Rest
  \/ \E t \in Threads : Opener(t) \/ Killer(t)
  \/ \E c \in Children : Reader(c) \/ Die(c) \/ LetGo(c)

Spec == Init /\ [][Next]_vars

\* The threads run and a process that was sent SIGKILL dies.  Nothing makes
\* a shell exit, a descendant let go of the terminal, or someone else's file
\* deliver data to the reader that reads it by mistake.
FairSpec ==
  /\ Spec
  /\ \A t \in Threads : WF_vars(Opener(t)) /\ WF_vars(Killer(t))
  /\ \A u \in Users : WF_vars(WriteEnd(u)) /\ WF_vars(ResizeEnd(u))
  /\ WF_vars(Probe)
  /\ \A c \in Children : /\ WF_vars(reading[c] # Stranger /\ Reader(c))
                        /\ WF_vars(proc[c] = "signalled" /\ Die(c))

-----------------------------------------------------------------------------
(* Properties.                                                             *)

\* The variables have their types, and a lock is only held by a thread that
\* is opening, writing to or killing a child.
TypeOK ==
  /\ running \in BOOLEAN /\ installed \in BOOLEAN /\ failed \in BOOLEAN
  /\ pty \in Children \union {Nobody}
  /\ lock = Nobody \/ pc[lock] \in {"enter", "spawn", "bind", "publish", "write", "signal", "close",
                                    "mark"}
  /\ \A c \in Children :
        /\ proc[c] \in {"none", "alive", "signalled", "dead", "reaped"}
        /\ proc[c] = "none" <=> c > spawned
        /\ pc[c] = "done" => proc[c] = "reaped"
  /\ UNION {held, exited, bound, probes} \subseteq 1 .. spawned
  /\ file \in [Fds -> {Nobody, Stranger} \union Children]

\* Bytes typed for the shell and the close of a killed shell never reach a
\* file of somebody else: write_input and the callers of kill() hold the
\* session's lock (pty_session.py:387-400, 263-272, 617-638) over the check
\* and the call on the descriptor, though the descriptor is reused at once.
\* (Once the probe closed what is not its own, the shell's descriptor is lost.)
SessionCallsReachItsShell ==
  \/ <<"close", Prober>> \in strays
  \/ {"write", "close"} \X (Users \union {Worker}) \intersect strays = {}

SessionShells == {c \in 1 .. spawned \ probes : proc[c] = "alive"}

\* A session never has two running shells, whoever opened them (a client, the
\* worker after linux-setup, a reader that replaces an exited shell); and when
\* stop() is through with it, none is left behind (pty_session.py:548, 604-606).
OneShell ==
  /\ Cardinality(SessionShells) <= 1
  /\ ~running /\ lock = Nobody => SessionShells = {}

\* A shell that ends by itself and leaves nothing on its terminal is reaped,
\* while its descriptor stays its own (realpty.py:143-186): no zombie stays.
ExitedShellIsReaped ==
  \A c \in Children :
     (proc[c] = "dead" /\ c \notin held /\ file[master[c]] = c)
        ~> (proc[c] = "reaped" \/ file[master[c]] # c)

\* "replace the exited Alpine shell with a fresh PTY" (pty_session.py:611-613):
\* once the reader of a shell is through, the session does not keep it.
ExitedShellIsReplaced == \A c \in Children : pc[c] = "done" => pty # c

\* "Closing the master is safe after SIGKILL" (realpty.py:221-222): no call on
\* the descriptor of a child reaches a file of somebody else.
ClosingIsSafe == strays = {}

\* ".. and guarantees the reader reaches its reap path" (realpty.py:222): what
\* is killed is reaped.
KilledShellIsReaped == \A c \in Children : proc[c] = "signalled" ~> proc[c] = "reaped"
=============================================================================
