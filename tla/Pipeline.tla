------------------------------ MODULE Pipeline ------------------------------
(***************************************************************************)
(* zmux/python_shell.py, _exec_subprocess: one command line of one or more *)
(* programs, each with its standard output piped to the next.  The command *)
(* runs in the session's worker; Ctrl+C and stop() call interrupt() from   *)
(* another thread; a thread of its own reads the last program's output,    *)
(* and one the errors of each program.                                     *)
(*                                                                         *)
(* Programs are arbitrary: they compute, read, write or end as they like,  *)
(* but in a read or a write they stay until the pipe lets them go on.      *)
(* CommandLoop takes all of this for one step between spawn and end.       *)
(***************************************************************************)
EXTENDS Naturals, FiniteSets

CONSTANTS
  Last,          \* number of programs
  Capacity,      \* writes that a pipe holds
  MaxWrites,     \* bound: writes of a program
  MaxInterrupts  \* bound: calls of interrupt()

ASSUME LastAssumption == Last \in Nat \ {0}
ASSUME BoundsAssumption == Capacity \in Nat \ {0} /\ {MaxWrites, MaxInterrupts} \subseteq Nat

Stages == 1 .. Last

VARIABLES
  pc,          \* where the worker is
  stage,       \* the program it starts
  limited,     \* a timeout is given
  failed,      \* a program could not be started
  proc,        \* what each program does
  stubborn,    \* programs that ignore SIGINT
  writes,      \* writes of each program so far
  out, err,    \* what its pipes hold
  held,        \* stages whose output the worker's own descriptor still reads
  linger,      \* a descendant of the last program holds its output open
  registered,  \* _procs
  latch,       \* _interrupt
  int,         \* programs that were sent SIGINT
  timers,      \* victims of each timer of interrupt() that has not gone off
  interrupts   \* calls of interrupt()

worker   == <<pc, stage, limited, failed, held, registered>>
programs == <<proc, stubborn, writes, out, err, linger>>
signals  == <<latch, int, timers, interrupts>>
vars     == <<worker, programs, signals>>

Alive(s) == proc[s] \notin {"none", "dead"}

Init ==
  /\ pc = "parse" /\ stage = 1 /\ limited \in BOOLEAN /\ failed = FALSE
  /\ proc = [s \in Stages |-> "none"] /\ stubborn \in SUBSET Stages
  /\ writes = [s \in Stages |-> 0]
  /\ out = [s \in Stages |-> 0] /\ err = [s \in Stages |-> 0]
  /\ held = {} /\ linger = FALSE /\ registered = {}
  /\ latch = FALSE /\ int = {} /\ timers = {} /\ interrupts = 0

Goto(from, to) == pc = from /\ pc' = to

-----------------------------------------------------------------------------
(* The worker.                                                             *)

\* The line does not parse, or the input file cannot be opened.
Refuse ==
  /\ Goto("parse", "done")
  /\ failed' = TRUE
  /\ UNCHANGED <<stage, limited, held, registered, programs, signals>>

Parse ==
  /\ Goto("parse", "spawn")
  /\ UNCHANGED <<stage, limited, failed, held, registered, programs, signals>>

\* Popen; the program has the read end now, the worker closes its own.
Spawn ==
  /\ Goto("spawn", "register")
  /\ proc' = [proc EXCEPT ![stage] = "running"]
  /\ held' = (held \ {stage - 1}) \union {stage}
  /\ UNCHANGED <<stage, limited, failed, registered, stubborn, writes, out, err, linger, signals>>

\* "command not found", or Popen raises: the programs before it are left alone.
SpawnFails ==
  /\ Goto("spawn", "done")
  /\ failed' = TRUE
  /\ registered' = {}
  /\ UNCHANGED <<stage, limited, held, programs, signals>>

Register ==
  /\ Goto("register", "check")
  /\ registered' = registered \union {stage}
  /\ UNCHANGED <<stage, limited, failed, held, programs, signals>>

\* Mutant: the latch is not looked at after the spawn.
CheckNothing ==
  /\ Goto("check", IF stage < Last THEN "spawn" ELSE "wait")
  /\ stage' = IF stage < Last THEN stage + 1 ELSE stage
  /\ UNCHANGED <<limited, failed, held, registered, programs, signals>>

\* A Ctrl+C that came between the spawn and the registration.
Check ==
  /\ Goto("check", IF stage < Last THEN "spawn" ELSE "wait")
  /\ stage' = IF stage < Last THEN stage + 1 ELSE stage
  /\ int' = IF latch /\ Alive(stage) THEN int \union {stage} ELSE int
  /\ UNCHANGED <<limited, failed, held, registered, programs, latch, timers, interrupts>>

\* _read_stdout_streaming waits for the last program, then for the reader.
LastEnded ==
  /\ ~ Alive(Last)
  /\ Goto("wait", "join")
  /\ UNCHANGED <<stage, limited, failed, held, registered, programs, signals>>

\* Mutant: join() without a timeout.
JoinedAtEnd ==
  /\ out[Last] = 0 /\ ~ linger
  /\ Goto("join", "upstream")
  /\ UNCHANGED <<stage, limited, failed, held, registered, programs, signals>>

\* The reader has seen the end, or has read all there is for a second.
Joined ==
  /\ out[Last] = 0
  /\ Goto("join", "upstream")
  /\ UNCHANGED <<stage, limited, failed, held, registered, programs, signals>>

\* Mutant: only the last program is waited for.
UpstreamNotAwaited ==
  /\ Goto("upstream", "errors")
  /\ UNCHANGED <<stage, limited, failed, held, registered, programs, signals>>

UpstreamEnded ==
  /\ \A s \in 1 .. Last - 1 : ~ Alive(s)
  /\ Goto("upstream", "errors")
  /\ UNCHANGED <<stage, limited, failed, held, registered, programs, signals>>

\* The error threads are joined with a timeout as well.
ErrorsRead ==
  /\ \A s \in Stages : err[s] = 0
  /\ Goto("errors", "done")
  /\ registered' = {}
  /\ UNCHANGED <<stage, limited, failed, held, programs, signals>>

\* SIGKILL to each program, not to its group.
TimedOut ==
  /\ limited
  /\ \/ Goto("wait", "done") /\ Alive(Last)
     \/ Goto("upstream", "done") /\ \E s \in 1 .. Last - 1 : Alive(s)
  /\ proc' = [s \in Stages |-> "dead"]
  /\ registered' = {}
  /\ UNCHANGED <<stage, limited, failed, held, stubborn, writes, out, err, linger, signals>>

Worker ==
  \/ Parse \/ Spawn \/ Register \/ Check
  \/ LastEnded \/ Joined \/ UpstreamEnded \/ ErrorsRead

-----------------------------------------------------------------------------
(* The threads that read, and interrupt().                                 *)

Pump ==
  /\ pc \notin {"parse", "spawn", "register", "check"} /\ ~ failed
  /\ out[Last] > 0
  /\ out' = [out EXCEPT ![Last] = @ - 1]
  /\ UNCHANGED <<worker, proc, stubborn, writes, err, linger, signals>>

\* The thread of a program starts when the worker is through with its start.
Started(s) == s < stage \/ pc \in {"wait", "join", "upstream", "errors", "done"}

Drain(s) ==
  /\ Started(s) /\ err[s] > 0
  /\ err' = [err EXCEPT ![s] = @ - 1]
  /\ UNCHANGED <<worker, proc, stubborn, writes, out, linger, signals>>

Interrupt ==
  LET victims == {s \in registered : Alive(s)}
  IN  /\ interrupts < MaxInterrupts
      /\ interrupts' = interrupts + 1
      /\ latch' = TRUE
      /\ int' = int \union victims
      /\ timers' = timers \union {victims}
      /\ UNCHANGED <<worker, programs>>

\* Mutant: the escalation is another SIGINT.
EscalateAgain(victims) ==
  /\ victims \in timers
  /\ timers' = timers \ {victims}
  /\ int' = int \union {s \in victims : Alive(s)}
  /\ UNCHANGED <<worker, programs, latch, interrupts>>

\* _escalate, 1.5 seconds later: SIGKILL to the groups whose leader still runs.
Escalate(victims) ==
  /\ victims \in timers
  /\ timers' = timers \ {victims}
  /\ proc' = [s \in Stages |-> IF s \in victims /\ Alive(s) THEN "dead" ELSE proc[s]]
  /\ UNCHANGED <<worker, stubborn, writes, out, err, linger, latch, int, interrupts>>

-----------------------------------------------------------------------------
(* The programs and the kernel.                                            *)

Does(s, from, to) ==
  /\ proc[s] = from /\ proc' = [proc EXCEPT ![s] = to]
  /\ UNCHANGED <<worker, stubborn, signals>>

Write(s, to) ==
  /\ Does(s, "running", to)
  /\ writes[s] < MaxWrites /\ writes' = [writes EXCEPT ![s] = @ + 1]
  /\ UNCHANGED <<out, err, linger>>

HasReader(s) == s < Last => s \in held \/ Alive(s + 1)

Wrote(s) ==
  /\ out[s] < Capacity /\ HasReader(s)
  /\ Does(s, "out", "running")
  /\ out' = [out EXCEPT ![s] = @ + 1]
  /\ UNCHANGED <<writes, err, linger>>

\* SIGPIPE
Broken(s) ==
  /\ ~ HasReader(s)
  /\ Does(s, "out", "dead")
  /\ UNCHANGED <<writes, out, err, linger>>

WroteError(s) ==
  /\ err[s] < Capacity
  /\ Does(s, "err", "running")
  /\ err' = [err EXCEPT ![s] = @ + 1]
  /\ UNCHANGED <<writes, out, linger>>

Ended(s) == out[s] = 0 /\ ~ Alive(s)

\* The first program's input is a file or not read.
Read(s) ==
  /\ s > 1 /\ ~ Ended(s - 1)
  /\ Does(s, "running", "in")
  /\ UNCHANGED <<writes, out, err, linger>>

WasRead(s) ==
  /\ Does(s, "in", "running")
  /\ \/ out[s - 1] > 0 /\ out' = [out EXCEPT ![s - 1] = @ - 1]
     \/ Ended(s - 1) /\ UNCHANGED out
  /\ UNCHANGED <<writes, err, linger>>

\* The last program may leave a helper behind that keeps its output open.
Exit(s) ==
  /\ Does(s, "running", "dead")
  /\ linger' \in (IF s = Last THEN BOOLEAN ELSE {linger})
  /\ UNCHANGED <<writes, out, err>>

\* SIGINT ends a program whatever it does, unless it ignores it.
Die(s) ==
  /\ Alive(s) /\ s \in int \ stubborn
  /\ Does(s, proc[s], "dead")
  /\ UNCHANGED <<writes, out, err, linger>>

HelperEnds ==
  /\ linger
  /\ linger' = FALSE
  /\ UNCHANGED <<worker, proc, stubborn, writes, out, err, signals>>

Kernel(s) == Wrote(s) \/ Broken(s) \/ WroteError(s) \/ WasRead(s) \/ Die(s)

Rest == pc = "done" /\ UNCHANGED vars

Next ==
  \/ Worker \/ Refuse \/ SpawnFails \/ TimedOut \/ Pump \/ Interrupt \/ HelperEnds \/ Rest
  \/ \E victims \in timers : Escalate(victims)
  \/ \E s \in Stages : \/ Drain(s) \/ Write(s, "out") \/ Write(s, "err") \/ Read(s) \/ Exit(s)
                       \/ Kernel(s)

Spec == Init /\ [][Next]_vars

\* Threads, timers and the kernel go on; programs need not end, nor helpers.
FairSpec ==
  /\ Spec
  /\ WF_vars(Worker) /\ WF_vars(Pump)
  /\ \A s \in Stages : WF_vars(Drain(s)) /\ WF_vars(Kernel(s))
  /\ \A victims \in SUBSET Stages : WF_vars(Escalate(victims))

-----------------------------------------------------------------------------
(* Properties.                                                             *)

\* A program that was interrupted is not forgotten: once the worker waits, each
\* program that still runs after a Ctrl+C has been sent SIGINT, whether it was
\* registered in time or not (python_shell.py:1042-1049).
InterruptReachesAll ==
  pc \in {"wait", "join", "upstream"} /\ latch => \A s \in Stages : Alive(s) => s \in int

\* A command that comes to its end leaves no program behind, in particular none
\* that Ctrl+C can no longer reach: every program has ended when the command
\* has, with or without a timeout, if all of them could be started.
NothingLeftRunning == pc = "done" /\ ~ failed => \A s \in Stages : ~ Alive(s)

\* Pipes never block a command for good: if no program computes for ever, the
\* command ends, however much its programs write to either stream, however
\* little they read, and whatever they leave behind (python_shell.py:963-978,
\* 1037, 1050-1067).
PipelineEnds ==
  (\A s \in Stages : []<>(proc[s] # "running")) => <>(pc = "done")

\* Ctrl+C ends a command that waits for its programs even if they ignore SIGINT
\* and never end: interrupt() escalates to SIGKILL.
InterruptEnds == (pc = "wait" /\ \E v \in timers : \A s \in Stages : Alive(s) => s \in v) ~> pc = "done"

\* interrupt() "forwards SIGINT to any in-flight pipeline process group,
\* escalating to SIGKILL" (python_shell.py:115-116): after a Ctrl+C the command
\* ends.  A program that was signalled after its spawn is on no timer.
EveryInterruptEnds == latch ~> pc = "done"
=============================================================================
