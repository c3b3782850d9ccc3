----------------------------- MODULE CommandLoop -----------------------------
(***************************************************************************)
(* zmux/pty_session.py and zmux/python_shell.py: the host console of one   *)
(* session.                                                                *)
(*                                                                         *)
(* Two threads meet here.  The websocket side calls write_input, toggle_pty*)
(* and stop, always with the session's lock (RLock) held: together they    *)
(* are one actor, the typist.  The worker (_exec_loop) runs queued lines   *)
(* one at a time and never holds the lock, except to open Alpine.  They    *)
(* share two queues, the _busy event, the Ctrl+C latch of PythonShell with *)
(* its epoch, and the KeyboardInterrupt that PyThreadState_SetAsyncExc     *)
(* leaves pending in the worker, which CPython raises between any two of   *)
(* the worker's bytecodes, whatever the worker is doing by then.           *)
(*                                                                         *)
(* Lines are numbered as they are typed.  Their kinds: "command" is run by *)
(* the worker, "setup" is linux-setup, "linux" opens Alpine and "inline"   *)
(* is answered by _submit_line itself (blank, python, exit()).             *)
(***************************************************************************)
EXTENDS Naturals, SequencesExt

CONSTANTS
  MaxLines,       \* bound: lines the user types
  MaxInterrupts,  \* bound: times Ctrl+C or stop() raises the latch
  MaxInputs,      \* bound: both together
  Kinds           \* kinds of lines the user types

AllKinds == {"command", "setup", "linux", "inline"}

ASSUME KindsAssumption == Kinds \subseteq AllKinds
ASSUME BoundsAssumption == {MaxLines, MaxInterrupts, MaxInputs} \subseteq Nat

VARIABLES
  kinds,      \* kind of every line typed so far
  commands,   \* _command_queue
  stdin,      \* _stdin_queue
  busy,       \* _busy
  latch,      \* PythonShell._interrupt
  epoch,      \* PythonShell._interrupt_epoch
  pipeline,   \* _subprocess_depth > 0
  signalled,  \* the child of the running command was sent SIGINT
  pending,    \* a KeyboardInterrupt waits to be raised in the worker
  running,    \* is_running
  awaiting,   \* _awaiting_alpine: nothing but linux-setup is accepted
  setup,      \* _start_alpine_after_command
  alpine,     \* pty is not None: input goes to the Alpine shell
  worker,     \* where the worker is
  item,       \* the line it took, 0 for the poison pill and before the first
  snapshot,   \* _exec_loop: the local epoch
  interrupted,\* _finish_command: the local interrupted
  leftovers,  \* _finish_command: lines drained but not yet resubmitted
  dying,      \* _finish_command runs because of an exception nobody handles
  typist,     \* where the thread that holds the lock is, "idle" if nobody does
  started,    \* history: lines the worker started to run, in that order
  settled,    \* history: lines answered inline or read by a program
  ahead       \* history: lines that went through _stdin_queue

queues  == <<commands, stdin, leftovers>>
signals == <<latch, epoch, signalled, pending>>
console == <<awaiting, setup, alpine>>
history == <<started, settled, ahead>>
runtime == <<item, snapshot, interrupted, dying>>
vars == <<kinds, queues, busy, signals, pipeline, running, console,
          worker, runtime, typist, history>>

Pill == 0  \* _command_queue.put(None)
LastLine == Len(kinds)

\* The gate of _submit_line: a line the worker runs.
ForWorker(l) == IF awaiting THEN kinds[l] = "setup" ELSE kinds[l] \in {"command", "setup"}
OpensAlpine(l) == ~ awaiting /\ kinds[l] = "linux"

\* Mutant: is_running is not looked at.
EnterStopped == alpine' = (alpine \/ (~ awaiting /\ ~ busy))

\* _enter_linux_pty, once Alpine is installed.
Enter == alpine' = (alpine \/ (running /\ ~ awaiting /\ ~ busy))

(***************************************************************************)
(* start() opens Alpine if it is installed, and waits for linux-setup      *)
(* otherwise.                                                              *)
(***************************************************************************)
Init ==
  /\ kinds = << >> /\ commands = << >> /\ stdin = << >> /\ leftovers = << >>
  /\ busy = FALSE /\ latch = FALSE /\ epoch = 0 /\ pipeline = FALSE
  /\ signalled = FALSE /\ pending = FALSE /\ running = TRUE
  /\ awaiting \in BOOLEAN /\ setup = FALSE /\ alpine = ~ awaiting
  /\ worker = "get" /\ item = Pill /\ snapshot = 0
  /\ interrupted = FALSE /\ dying = FALSE
  /\ typist = "idle"
  /\ started = << >> /\ settled = {} /\ ahead = {}

-----------------------------------------------------------------------------
(***************************************************************************)
(* The typist.                                                             *)
(***************************************************************************)
Goes(from, to) == typist = from /\ typist' = to

\* The rest of a chunk follows, or write_input returns.
Typed(from) == typist = from /\ typist' \in {"more", "idle"}

\* pty is looked at once for a whole chunk of input.
AtConsole == typist = "more" \/ (typist = "idle" /\ running /\ ~ alpine)

\* A line of input, up to the look at _busy in _submit_line.
TypeLine(k) ==
  /\ AtConsole
  /\ LastLine < MaxLines /\ LastLine + epoch < MaxInputs
  /\ kinds' = Append(kinds, k)
  /\ typist' = IF busy THEN "put_stdin" ELSE "submit"
  /\ UNCHANGED <<queues, busy, signals, pipeline, running, console,
                 worker, runtime, history>>

PutStdin ==
  /\ Typed("put_stdin")
  /\ stdin' = Append(stdin, LastLine)
  /\ ahead' = ahead \union {LastLine}
  /\ UNCHANGED <<kinds, commands, leftovers, busy, signals, pipeline, running, console,
                 worker, runtime, started, settled>>

PutCommand ==
  /\ Typed("submit")
  /\ ForWorker(LastLine)
  /\ commands' = Append(commands, LastLine)
  /\ UNCHANGED <<kinds, stdin, leftovers, busy, signals, pipeline, running, console,
                 worker, runtime, history>>

Answer ==
  /\ Typed("submit")
  /\ ~ ForWorker(LastLine)
  /\ IF OpensAlpine(LastLine) THEN Enter ELSE UNCHANGED alpine
  /\ settled' = settled \union {LastLine}
  /\ UNCHANGED <<kinds, queues, busy, signals, pipeline, running, awaiting, setup,
                 worker, runtime, started, ahead>>

\* Ctrl+C while a command runs (_interrupt_running); at a prompt it does nothing.
CtrlC ==
  /\ AtConsole /\ busy
  /\ epoch < MaxInterrupts /\ LastLine + epoch < MaxInputs
  /\ typist' = "interrupt"
  /\ UNCHANGED <<kinds, queues, busy, signals, pipeline, running, console,
                 worker, runtime, history>>

\* PythonShell.interrupt: the epoch, the latch, and the children it finds.
RaiseLatch ==
  /\ epoch' = epoch + 1
  /\ latch' = TRUE
  /\ signalled' = (signalled \/ worker = "wait")

Interrupt ==
  /\ Goes("interrupt", "probe")
  /\ RaiseLatch
  /\ UNCHANGED <<kinds, queues, busy, pending, pipeline, running, console,
                 worker, runtime, history>>

\* has_running_processes
Probe ==
  /\ Goes("probe", IF pipeline THEN "idle" ELSE "inject")
  /\ UNCHANGED <<kinds, queues, busy, signals, pipeline, running, console,
                 worker, runtime, history>>

Inject ==
  /\ Goes("inject", "idle")
  /\ pending' = (worker \notin {"dead", "stopped"})
  /\ UNCHANGED <<kinds, queues, busy, latch, epoch, signalled, pipeline, running, console,
                 worker, runtime, history>>

EndWrite ==
  /\ Goes("more", "idle")
  /\ UNCHANGED <<kinds, queues, busy, signals, pipeline, running, console,
                 worker, runtime, history>>

Toggle ==
  /\ typist = "idle" /\ running
  /\ IF alpine THEN alpine' = FALSE ELSE Enter
  /\ UNCHANGED <<kinds, queues, busy, signals, pipeline, running, awaiting, setup,
                 worker, runtime, typist, history>>

\* stop(): the flag and the Alpine child, then interrupt(), then the poison pill.
Stop ==
  /\ running
  /\ epoch < MaxInterrupts /\ LastLine + epoch < MaxInputs
  /\ Goes("idle", "stop")
  /\ running' = FALSE
  /\ alpine' = FALSE
  /\ UNCHANGED <<kinds, queues, busy, signals, pipeline, awaiting, setup,
                 worker, runtime, history>>

StopInterrupt ==
  /\ Goes("stop", "poison")
  /\ RaiseLatch
  /\ UNCHANGED <<kinds, queues, busy, pending, pipeline, running, console,
                 worker, runtime, history>>

StopPoison ==
  /\ Goes("poison", "idle")
  /\ commands' = Append(commands, Pill)
  /\ UNCHANGED <<kinds, stdin, leftovers, busy, signals, pipeline, running, console,
                 worker, runtime, history>>

-----------------------------------------------------------------------------
(***************************************************************************)
(* The worker, up to the moment it runs a line.                            *)
(***************************************************************************)
Works(from, to) == worker = from /\ worker' = to

\* Mutant: the worker waits while Alpine owns the screen.
PopAtConsole ==
  /\ Works("get", "popped")
  /\ commands # << >> /\ ~ alpine
  /\ item' = Head(commands)
  /\ commands' = Tail(commands)
  /\ UNCHANGED <<kinds, stdin, leftovers, busy, signals, pipeline, running, console,
                 snapshot, interrupted, dying, typist, history>>

Pop ==
  /\ Works("get", "popped")
  /\ commands # << >>
  /\ item' = Head(commands)
  /\ commands' = Tail(commands)
  /\ UNCHANGED <<kinds, stdin, leftovers, busy, signals, pipeline, running, console,
                 snapshot, interrupted, dying, typist, history>>

\* The end of "try: item = get()".
Take ==
  /\ Works("popped", "taken")
  /\ UNCHANGED <<kinds, queues, busy, signals, pipeline, running, console,
                 runtime, typist, history>>

CheckRunning ==
  /\ Works("taken", IF item = Pill \/ ~ running THEN "stopped" ELSE "checked")
  /\ UNCHANGED <<kinds, queues, busy, signals, pipeline, running, console,
                 runtime, typist, history>>

\* Mutant: the snapshot is one ahead.
SnapshotEpochAhead ==
  /\ Works("checked", "marking")
  /\ snapshot' = epoch + 1
  /\ UNCHANGED <<kinds, queues, busy, signals, pipeline, running, console,
                 item, interrupted, dying, typist, history>>

SnapshotEpoch ==
  /\ Works("checked", "marking")
  /\ snapshot' = epoch
  /\ UNCHANGED <<kinds, queues, busy, signals, pipeline, running, console,
                 item, interrupted, dying, typist, history>>

SetBusy ==
  /\ Works("marking", "comparing")
  /\ busy' = TRUE
  /\ UNCHANGED <<kinds, queues, signals, pipeline, running, console,
                 runtime, typist, history>>

\* Mutant: the latch of the previous command is left set.
CompareEpochNever ==
  /\ Works("comparing", "run")
  /\ UNCHANGED <<kinds, queues, busy, signals, pipeline, running, console,
                 runtime, typist, history>>

\* clear_interrupt(epoch): the comparison, then the clear.
CompareEpoch ==
  /\ Works("comparing", IF snapshot = epoch THEN "wiping" ELSE "run")
  /\ UNCHANGED <<kinds, queues, busy, signals, pipeline, running, console,
                 runtime, typist, history>>

WipeLatch ==
  /\ Works("wiping", "run")
  /\ latch' = FALSE
  /\ UNCHANGED <<kinds, queues, busy, epoch, signalled, pending, pipeline, running, console,
                 runtime, typist, history>>

-----------------------------------------------------------------------------
(***************************************************************************)
(* Running a line (_run_line): embedded Python, or a child process.        *)
(***************************************************************************)
StartPython ==
  /\ Works("run", "python")
  /\ started' = Append(started, item)
  /\ UNCHANGED <<kinds, queues, busy, signals, pipeline, running, console,
                 runtime, typist, settled, ahead>>

\* A program in input(): _QueueInput.readline takes the next line typed.
ReadStdin ==
  /\ worker = "python"
  /\ ~ latch /\ running
  /\ stdin # << >>
  /\ settled' = settled \union {Head(stdin)}
  /\ stdin' = Tail(stdin)
  /\ UNCHANGED <<kinds, commands, leftovers, busy, signals, pipeline, running, console,
                 worker, runtime, typist, started, ahead>>

EndPython ==
  /\ Works("python", "render")
  /\ UNCHANGED <<kinds, queues, busy, signals, pipeline, running, console,
                 runtime, typist, history>>

\* The line leaves a compound statement open: "..." and no longer busy.
AwaitMore ==
  /\ Works("run", "finish")
  /\ started' = Append(started, item)
  /\ busy' = FALSE
  /\ UNCHANGED <<kinds, queues, signals, pipeline, running, console,
                 runtime, typist, settled, ahead>>

\* _exec_subprocess: the depth, then the child, then its registration.
StartPipeline ==
  /\ Works("run", "spawn")
  /\ started' = Append(started, item)
  /\ pipeline' = TRUE
  /\ UNCHANGED <<kinds, queues, busy, signals, running, console,
                 runtime, typist, settled, ahead>>

\* Mutant: the spawn race is open.
SpawnUnchecked ==
  /\ Works("spawn", "wait")
  /\ signalled' = FALSE
  /\ UNCHANGED <<kinds, queues, busy, latch, epoch, pending, pipeline, running, console,
                 runtime, typist, history>>

\* The child is registered; a Ctrl+C that came before it is delivered now.
Spawn ==
  /\ Works("spawn", "wait")
  /\ signalled' = latch
  /\ UNCHANGED <<kinds, queues, busy, latch, epoch, pending, pipeline, running, console,
                 runtime, typist, history>>

EndPipeline ==
  /\ Works("wait", "render")
  /\ pipeline' = FALSE
  /\ signalled' = FALSE
  /\ UNCHANGED <<kinds, queues, busy, latch, epoch, pending, running, console,
                 runtime, typist, history>>

\* _execute_and_render: the output, and the end of the setup gate.
Render ==
  /\ Works("render", "finish")
  /\ IF awaiting
     THEN \E installed \in BOOLEAN : awaiting' = ~ installed /\ setup' = installed
     ELSE UNCHANGED <<awaiting, setup>>
  /\ UNCHANGED <<kinds, queues, busy, signals, pipeline, running, alpine,
                 runtime, typist, history>>

\* The handler of KeyboardInterrupt in _exec_loop.
Caught ==
  /\ Works("caught", "finish")
  /\ latch' = TRUE
  /\ UNCHANGED <<kinds, queues, busy, epoch, signalled, pending, pipeline, running, console,
                 runtime, typist, history>>

-----------------------------------------------------------------------------
(***************************************************************************)
(* _finish_command                                                         *)
(***************************************************************************)
ReadLatch ==
  /\ Works("finish", "unbusy")
  /\ interrupted' = latch
  /\ UNCHANGED <<kinds, queues, busy, signals, pipeline, running, console,
                 item, snapshot, dying, typist, history>>

\* Mutant: type-ahead is discarded after every command.
ClearBusyDiscards ==
  /\ Works("unbusy", "discard")
  /\ busy' = FALSE
  /\ UNCHANGED <<kinds, queues, signals, pipeline, running, console,
                 runtime, typist, history>>

\* Mutant: an interrupted command leaves _busy set.
ClearBusyUnlessInterrupted ==
  /\ Works("unbusy", IF interrupted THEN "discard" ELSE IF setup THEN "open" ELSE "drain")
  /\ busy' = (busy /\ interrupted)
  /\ UNCHANGED <<kinds, queues, signals, pipeline, running, console,
                 runtime, typist, history>>

ClearBusy ==
  /\ Works("unbusy", IF interrupted THEN "discard" ELSE IF setup THEN "open" ELSE "drain")
  /\ busy' = FALSE
  /\ UNCHANGED <<kinds, queues, signals, pipeline, running, console,
                 runtime, typist, history>>

\* Where the thread goes after _finish_command.
Loops == IF dying THEN "dead" ELSE "get"

Discard ==
  /\ Works("discard", "unlatch")
  /\ stdin' = << >>
  /\ UNCHANGED <<kinds, commands, leftovers, busy, signals, pipeline, running, console,
                 runtime, typist, history>>

Unlatch ==
  /\ Works("unlatch", Loops)
  /\ latch' = FALSE
  /\ UNCHANGED <<kinds, queues, busy, epoch, signalled, pending, pipeline, running, console,
                 runtime, typist, history>>

\* After linux-setup: Alpine opens, the type-ahead stays where it is.
OpenAlpine ==
  /\ Works("open", Loops)
  /\ typist = "idle"
  /\ setup' = FALSE
  /\ Enter
  /\ UNCHANGED <<kinds, queues, busy, signals, pipeline, running, awaiting,
                 runtime, typist, history>>

\* Mutant: the lines are copied, not taken.
DrainCopies ==
  /\ Works("drain", "resubmit")
  /\ leftovers' = stdin
  /\ UNCHANGED <<kinds, commands, stdin, busy, signals, pipeline, running, console,
                 runtime, typist, history>>

Drain ==
  /\ Works("drain", "resubmit")
  /\ leftovers' = stdin
  /\ stdin' = << >>
  /\ UNCHANGED <<kinds, commands, busy, signals, pipeline, running, console,
                 runtime, typist, history>>

\* Mutant: type-ahead goes to the front of the queue.
ResubmitFirst ==
  LET l == Head(leftovers) IN
  /\ worker = "resubmit"
  /\ leftovers # << >>
  /\ leftovers' = Tail(leftovers)
  /\ commands' = IF ForWorker(l) THEN <<l>> \o commands ELSE commands
  /\ UNCHANGED <<kinds, stdin, busy, signals, pipeline, running, console,
                 worker, runtime, typist, history>>

\* _submit_line of the next leftover, by the worker: _busy is clear.
Resubmit ==
  LET l == Head(leftovers) IN
  /\ worker = "resubmit"
  /\ leftovers # << >>
  /\ leftovers' = Tail(leftovers)
  /\ IF ForWorker(l)
     THEN commands' = Append(commands, l) /\ UNCHANGED <<settled, alpine>>
     ELSE /\ settled' = settled \union {l}
          /\ IF OpensAlpine(l) THEN typist = "idle" /\ Enter ELSE UNCHANGED alpine
          /\ UNCHANGED commands
  /\ UNCHANGED <<kinds, stdin, busy, signals, pipeline, running, awaiting, setup,
                 worker, runtime, typist, started, ahead>>

Resubmitted ==
  /\ Works("resubmit", Loops)
  /\ leftovers = << >>
  /\ UNCHANGED <<kinds, queues, busy, signals, pipeline, running, console,
                 runtime, typist, history>>

-----------------------------------------------------------------------------
(***************************************************************************)
(* The pending KeyboardInterrupt is raised where the worker happens to be. *)
(***************************************************************************)
Raise(to) ==
  /\ pending
  /\ pending' = FALSE
  /\ worker' = to
  /\ UNCHANGED <<kinds, queues, busy, epoch, running, console,
                 item, snapshot, interrupted, typist, history>>

\* In get(): swallowed, with the line if get() had already taken it.
RaiseIdle ==
  /\ worker \in {"get", "popped"}
  /\ Raise("get")
  /\ UNCHANGED <<latch, signalled, pipeline, dying>>

\* In embedded Python: _exec_python reports it.
RaisePython ==
  /\ worker = "python"
  /\ Raise("render")
  /\ UNCHANGED <<latch, signalled, pipeline, dying>>

\* Elsewhere in _run_line: the handler of _exec_loop.
RaiseRunning ==
  /\ worker \in {"run", "spawn", "wait", "render"}
  /\ Raise("caught")
  /\ pipeline' = FALSE /\ signalled' = FALSE
  /\ UNCHANGED <<latch, dying>>

\* In that handler: _finish_command still runs, then the thread ends.
RaiseCaught ==
  /\ worker = "caught"
  /\ Raise("finish")
  /\ latch' \in {latch, TRUE}
  /\ dying' = TRUE
  /\ UNCHANGED <<signalled, pipeline>>

\* Outside every try, or inside _finish_command: the thread ends.
RaiseFatal ==
  /\ worker \in {"taken", "checked", "marking", "comparing", "wiping", "finish", "unbusy",
                 "discard", "unlatch", "open", "drain", "resubmit"}
  /\ Raise("dead")
  /\ UNCHANGED <<latch, signalled, pipeline, dying>>

-----------------------------------------------------------------------------
TypistStep ==
  \/ PutStdin \/ PutCommand \/ Answer \/ EndWrite
  \/ Interrupt \/ Probe \/ Inject
  \/ StopInterrupt \/ StopPoison

UserAction ==
  \/ \E k \in Kinds : TypeLine(k)
  \/ CtrlC \/ Toggle \/ Stop

WorkerStep ==
  \/ Pop \/ Take \/ CheckRunning \/ SnapshotEpoch \/ SetBusy \/ CompareEpoch \/ WipeLatch
  \/ StartPython \/ EndPython \/ AwaitMore \/ StartPipeline \/ Spawn \/ EndPipeline
  \/ Render \/ Caught
  \/ ReadLatch \/ ClearBusy \/ Discard \/ Unlatch \/ OpenAlpine
  \/ Drain \/ Resubmit \/ Resubmitted
  \/ RaiseIdle \/ RaisePython \/ RaiseRunning \/ RaiseCaught \/ RaiseFatal

Next == UserAction \/ TypistStep \/ ReadStdin \/ WorkerStep

Spec == Init /\ [][Next]_vars

\* The threads run, and the programs the user starts come to an end.
FairSpec == Spec /\ WF_vars(TypistStep) /\ WF_vars(WorkerStep)

-----------------------------------------------------------------------------
TypistSteps == {"idle", "more", "put_stdin", "submit", "interrupt", "probe", "inject",
                "stop", "poison"}
GetSteps == {"get", "popped", "taken", "checked", "marking"}
RunSteps == {"run", "python", "spawn", "wait"}
FinishSteps == {"finish", "unbusy", "discard", "unlatch", "open", "drain", "resubmit"}
WorkerSteps == GetSteps \union RunSteps \union FinishSteps \union
               {"comparing", "wiping", "render", "caught", "dead", "stopped"}

Lines == 1..LastLine

\* Every variable has its type; the queues hold lines that were typed.
TypeOK ==
  /\ kinds \in Seq(AllKinds)
  /\ commands \in Seq(Lines \union {Pill})
  /\ stdin \in Seq(Lines) /\ leftovers \in Seq(Lines)
  /\ busy \in BOOLEAN /\ latch \in BOOLEAN /\ epoch \in Nat /\ pipeline \in BOOLEAN
  /\ signalled \in BOOLEAN /\ pending \in BOOLEAN /\ running \in BOOLEAN
  /\ awaiting \in BOOLEAN /\ setup \in BOOLEAN /\ alpine \in BOOLEAN
  /\ worker \in WorkerSteps
  /\ item \in Lines \union {Pill} /\ snapshot \in 0..epoch
  /\ interrupted \in BOOLEAN /\ dying \in BOOLEAN
  /\ typist \in TypistSteps
  /\ started \in Seq(Lines) /\ settled \in SUBSET Lines /\ ahead \in SUBSET Lines

\* The line in the worker's hands, not yet started.
Taken == IF worker \in {"popped", "taken", "checked", "marking", "comparing", "wiping", "run"}
            /\ item # Pill
         THEN <<item>> ELSE << >>

\* The line in the typist's hands.
InHand == IF typist \in {"submit", "put_stdin"} THEN {LastLine} ELSE {}

\* Lines that wait to be run or were started.
Held == commands \o stdin \o leftovers \o Taken \o started

\* Until the first Ctrl+C or stop() no line gets lost between the queues: a
\* typed line waits somewhere, was started, or was answered or read.
NoLineLost ==
  running /\ epoch = 0 =>
    Lines = ToSet(Held) \union settled \union InHand

\* No line is run twice or both run and read as input, whatever moves between
\* the two queues and whatever Ctrl+C interrupts.
RunsOnce ==
  /\ \A i, j \in DOMAIN Held : Held[i] = Held[j] /\ Held[i] # Pill => i = j
  /\ ToSet(stdin \o leftovers \o started) \intersect settled = {}

\* "lines typed while the command ran become the next commands, in order":
\* among themselves they do.
TypeAheadInOrder ==
  \A i, j \in DOMAIN started :
    i < j /\ started[i] \in ahead /\ started[j] \in ahead => started[i] < started[j]

\* _submit_line and Ctrl+C decide by _busy: the prompt is busy exactly while a
\* command runs, so a waiting worker never leaves a line unread.
BusyMeansWorking ==
  /\ worker \in GetSteps => ~ busy
  /\ worker \in RunSteps => busy

\* A Ctrl+C that came too late for one command never cancels the next: when a
\* command runs with the latch set, the latch was raised after it was marked.
InterruptIsFresh == worker \in RunSteps /\ latch => epoch > snapshot

\* A latch that is set while a child runs has reached the child: it is
\* signalled by interrupt() or, if it was not registered yet, after the spawn.
LatchReachesChild == worker = "wait" /\ latch => signalled

\* No Alpine child is started, or left, once the session is stopped.
NoChildAfterStop == ~ running => ~ alpine

\* A queued line is run, whatever the Alpine shell does meanwhile, as long as
\* programs end and nobody interrupts or stops the session.
QueuedLineRuns ==
  \A l \in 1..MaxLines : l \in ToSet(commands) ~> l \in ToSet(started) \/ epoch > 0 \/ ~ running

-----------------------------------------------------------------------------
\* "Real-terminal type-ahead: lines typed while the command ran become the next
\* commands": once the worker waits for a command and nobody is typing, no line
\* is left behind in the input queue.
NothingStranded ==
  worker = "get" /\ commands = << >> /\ typist = "idle" => stdin = << >>

\* "it must never kill the worker thread": Ctrl+C never ends the worker.
WorkerSurvives == worker # "dead"

=============================================================================
