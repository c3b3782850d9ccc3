------------------------------ MODULE PythonRun ------------------------------
(***************************************************************************)
(* Python in the app's process: PythonShell._exec_python, called by the    *)
(* worker of each host console and, through zmux/terminal.py, by the REST  *)
(* handlers of zmux/server.py.  Every execution points the stdout, the     *)
(* stdin and the working directory of the whole process to its own and     *)
(* puts back what it found; nothing keeps two of them apart.               *)
(*                                                                         *)
(* Executions are numbered as they start, and so are their writers (of     *)
(* zmux/streams.py for a console, StringIO for REST; a second writer, for  *)
(* stderr, behaves like the first).  A print is a pair <<execution, n>>.   *)
(***************************************************************************)
EXTENDS Naturals, FiniteSets

CONSTANTS
  Consoles,    \* sessions: they have a sink for output and an input of their own
  Requests,    \* REST handler threads
  Folders,     \* directories
  Start,       \* the directory of the process and of every shell at first
  MaxRuns,     \* bound: executions
  MaxPrints,   \* bound: prints of an execution
  MaxCds       \* bound: cd commands

Callers == Consoles \union Requests
Runs    == 1 .. MaxRuns
Process == 0   \* what stdout and stdin are before any execution

ASSUME FoldersAssumption == Start \in Folders
ASSUME RunsAssumption == {MaxRuns, MaxPrints, MaxCds} \subseteq Nat

VARIABLES
  stdout, stdin, folder,  \* of the process
  at,        \* at[t]: where the thread is
  run,       \* run[t]: the execution it is in, or had last
  saved,     \* saved[t]: what it found
  runs,      \* executions so far
  prints,    \* prints[r]: how much it has printed
  text,      \* text[r]: what its writer was given
  pending,   \* pending[r]: of that, the unfinished line
  sent,      \* sent[r]: what its writer passed on to the terminal
  result,    \* result[r]: the text of the result
  ended,     \* executions whose result is made
  mixed,     \* executions during which another one ran
  cwds,      \* cwds[s]: the directory of each shell
  terminals, \* TerminalSessions made so far; _terminal_session is the last one
  terminal,  \* terminal[t]: the one the request uses, 0 for none
  remembered,\* remembered[s]: TerminalSession._cwd
  cds        \* cd commands so far

process  == <<stdout, stdin, folder>>
writers  == <<text, pending, sent, result, ended>>
rest     == <<terminals, terminal, remembered>>
runVars  == <<process, at, run, saved, runs, prints, writers, mixed, cwds, rest, cds>>

\* Each console has a shell, and each TerminalSession has one.
Shells == Consoles \union 1 .. Cardinality(Requests)
Shell(t) == IF t \in Consoles THEN t ELSE terminal[t]

RunInit ==
  /\ stdout = Process /\ stdin = Process /\ folder = Start
  /\ at = [t \in Callers |-> "idle"] /\ run = [t \in Callers |-> 0]
  /\ saved = [t \in Callers |-> [out |-> Process, in |-> Process, dir |-> Start]]
  /\ runs = 0 /\ prints = [r \in Runs |-> 0]
  /\ text = [r \in Runs |-> {}] /\ pending = [r \in Runs |-> {}]
  /\ sent = [r \in Runs |-> {}] /\ result = [r \in Runs |-> {}]
  /\ ended = {} /\ mixed = {}
  /\ cwds = [s \in Shells |-> Start] /\ cds = 0
  /\ terminals = 0 /\ terminal = [t \in Requests |-> 0]
  /\ remembered = [s \in 1 .. Cardinality(Requests) |-> Start]

Move(t, from, to) == at[t] = from /\ at' = [at EXCEPT ![t] = to]

-----------------------------------------------------------------------------
(* REST: get_session, and what TerminalSession keeps of a result.          *)

\* A request has been accepted: the look at _terminal_session, and the creation,
\* are two steps.
LookUp(t) ==
  /\ t \in Requests
  /\ Move(t, "idle", IF terminals = 0 THEN "make" ELSE "found")
  /\ terminal' = [terminal EXCEPT ![t] = terminals]
  /\ UNCHANGED <<process, run, saved, runs, prints, writers, mixed, cwds, terminals, remembered,
                 cds>>

\* The global is read again after it was set.
Make(t) ==
  /\ Move(t, "make", "found")
  /\ terminals' = terminals + 1
  /\ terminal' = [terminal EXCEPT ![t] = terminals']
  /\ UNCHANGED <<process, run, saved, runs, prints, writers, mixed, cwds, remembered, cds>>

Ready(t) == at[t] = (IF t \in Consoles THEN "idle" ELSE "found")

\* Requests that never reach the shell.
Inert(t) ==
  /\ Move(t, "found", "idle")
  /\ UNCHANGED <<process, run, saved, runs, prints, writers, mixed, cwds, rest, cds>>

\* stop, send_input and status look for a process; _process is always None.
Stop(t)      == Inert(t)
SendInput(t) == Inert(t)
Status(t)    == Inert(t)

\* "exit" sets the status and the exit code, and ends nothing.
ExitLine(t) == Inert(t)

\* _process is always None: no request is refused because another one runs.
Remember(t) ==
  /\ Move(t, "answer", "idle")
  /\ remembered' = [remembered EXCEPT ![terminal[t]] = cwds[terminal[t]]]
  /\ UNCHANGED <<process, run, saved, runs, prints, writers, mixed, cwds, terminals, terminal, cds>>

After(t) == IF t \in Consoles THEN "idle" ELSE "answer"

\* A line that is empty or refused, an unknown command, or one whose program has
\* a process of its own: nothing here changes.
OtherCommand(t) ==
  /\ Ready(t)
  /\ at' = [at EXCEPT ![t] = After(t)]
  /\ UNCHANGED <<process, run, saved, runs, prints, writers, mixed, cwds, rest, cds>>

\* The directory exists and is in the home; any other cd is refused.
Cd(t, d) ==
  /\ Ready(t) /\ cds < MaxCds
  /\ cds' = cds + 1
  /\ at' = [at EXCEPT ![t] = After(t)]
  /\ cwds' = [cwds EXCEPT ![Shell(t)] = d]
  /\ UNCHANGED <<process, run, saved, runs, prints, writers, mixed, rest>>

Command(t) == OtherCommand(t) \/ \E d \in Folders : Cd(t, d)

-----------------------------------------------------------------------------
(* _exec_python: the contexts, one after the other, and back.              *)

Inside == {t \in Callers : at[t] \in {"stdin", "chdir", "body", "undir", "unstdin", "unout"}}

\* _make_sinks, redirect_stdout
EnterOut(t) ==
  /\ Ready(t) /\ runs < MaxRuns
  /\ runs' = runs + 1
  /\ at' = [at EXCEPT ![t] = IF t \in Consoles THEN "stdin" ELSE "chdir"]
  /\ run' = [run EXCEPT ![t] = runs']
  /\ saved' = [saved EXCEPT ![t].out = stdout]
  /\ stdout' = runs'
  /\ mixed' = IF Inside = {} THEN mixed ELSE mixed \union {runs'} \union {run[u] : u \in Inside}
  /\ UNCHANGED <<stdin, folder, prints, writers, cwds, rest, cds>>

\* What is not a command is Python, and so is the argument of "python -c".
Execute(t) == Command(t) \/ EnterOut(t)

\* _stdin_context; without a provider it leaves stdin alone.
EnterIn(t) ==
  /\ Move(t, "stdin", "chdir")
  /\ saved' = [saved EXCEPT ![t].in = stdin]
  /\ stdin' = t
  /\ UNCHANGED <<stdout, folder, run, runs, prints, writers, mixed, cwds, rest, cds>>

\* _chdir_context
EnterDir(t) ==
  /\ Move(t, "chdir", "body")
  /\ saved' = [saved EXCEPT ![t].dir = folder]
  /\ folder' = cwds[Shell(t)]
  /\ UNCHANGED <<stdout, stdin, run, runs, prints, writers, mixed, cwds, rest, cds>>

\* StreamingWriter.write, of whatever writer stdout is: all complete lines go
\* out, and a partial one if it is long.
Write(t, line) ==
  LET p == <<run[t], prints[run[t]] + 1>>
      w == stdout
  IN  /\ at[t] = "body" /\ p[2] <= MaxPrints
      /\ prints' = [prints EXCEPT ![run[t]] = @ + 1]
      /\ IF w = Process THEN UNCHANGED <<text, pending, sent>>
         ELSE /\ text' = [text EXCEPT ![w] = @ \union {p}]
              /\ IF line THEN /\ sent' = [sent EXCEPT ![w] = @ \union pending[w] \union {p}]
                              /\ pending' = [pending EXCEPT ![w] = {}]
                 ELSE /\ pending' = [pending EXCEPT ![w] = @ \union {p}]
                      /\ UNCHANGED sent
      /\ UNCHANGED <<process, at, run, saved, runs, result, ended, mixed, cwds, rest, cds>>

\* The code ends: by itself, with an exception or by a KeyboardInterrupt.
EndBody(t) ==
  /\ Move(t, "body", "undir")
  /\ UNCHANGED <<process, run, saved, runs, prints, writers, mixed, cwds, rest, cds>>

LeaveDir(t) ==
  /\ Move(t, "undir", IF t \in Consoles THEN "unstdin" ELSE "unout")
  /\ folder' = saved[t].dir
  /\ UNCHANGED <<stdout, stdin, run, saved, runs, prints, writers, mixed, cwds, rest, cds>>

LeaveIn(t) ==
  /\ Move(t, "unstdin", "unout")
  /\ stdin' = saved[t].in
  /\ UNCHANGED <<stdout, folder, run, saved, runs, prints, writers, mixed, cwds, rest, cds>>

LeaveOut(t) ==
  /\ Move(t, "unout", "drain")
  /\ stdout' = saved[t].out
  /\ UNCHANGED <<stdin, folder, run, saved, runs, prints, writers, mixed, cwds, rest, cds>>

\* Mutant: the result is made without a flush.
DrainUnflushed(t) ==
  /\ Move(t, "drain", After(t))
  /\ result' = [result EXCEPT ![run[t]] = text[run[t]]]
  /\ ended' = ended \union {run[t]}
  /\ UNCHANGED <<text, sent, pending>>
  /\ UNCHANGED <<process, run, saved, runs, prints, mixed, cwds, rest, cds>>

\* _drain: flush, then everything the writer was given.
Drain(t) ==
  LET r == run[t] IN
  /\ Move(t, "drain", After(t))
  /\ sent' = [sent EXCEPT ![r] = @ \union pending[r]]
  /\ pending' = [pending EXCEPT ![r] = {}]
  /\ result' = [result EXCEPT ![r] = text[r]]
  /\ ended' = ended \union {r}
  /\ UNCHANGED <<text, process, run, saved, runs, prints, mixed, cwds, rest, cds>>

RunRest == (\A t \in Callers : at[t] \in {"idle", "found"}) /\ UNCHANGED runVars

RunNext ==
  \/ \E t \in Callers :
       \/ LookUp(t) \/ Make(t) \/ Stop(t) \/ SendInput(t) \/ Status(t) \/ ExitLine(t)
       \/ Execute(t) \/ Remember(t) \/ EnterIn(t) \/ EnterDir(t) \/ EndBody(t)
       \/ LeaveDir(t) \/ LeaveIn(t) \/ LeaveOut(t) \/ Drain(t)
       \/ \E line \in BOOLEAN : Write(t, line)
  \/ RunRest

RunSpec == RunInit /\ [][RunNext]_runVars

-----------------------------------------------------------------------------
(* Properties.                                                             *)

Printed(r) == {<<r, n>> : n \in 1 .. prints[r]}

\* An execution that no other one overlaps is exact whatever happened before
\* it, even if others left the process pointing to their finished writers: its
\* result and its terminal have all it printed, the last unfinished line
\* included, and nothing else.  Until two overlap, the process gets back its
\* stdout, its stdin and its directory (python_shell.py:520-567, 600-606).
AloneIsExact ==
  /\ \A r \in ended \ mixed : result[r] = Printed(r) /\ sent[r] = Printed(r)
  /\ mixed = {} /\ Inside = {} => stdout = Process /\ stdin = Process /\ folder = Start

\* "The returned result dict still carries the complete text, so REST callers
\* are unaffected" (python_shell.py:94-95): a result has what its code printed.
ResultIsComplete == \A r \in ended : Printed(r) \subseteq result[r]
=============================================================================
