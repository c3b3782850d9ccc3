---------------------------- MODULE Parts_proofs ----------------------------
(***************************************************************************)
(* Python in the app's process (PythonRun), the app's tabs                 *)
(* (TerminalActivity), the line editor (LineEditor) and the filter of the  *)
(* output (ConsoleOutput).  They share nothing but this module.            *)
(***************************************************************************)
EXTENDS LineEditor, PythonRun, TerminalActivity, ConsoleOutput,
        FiniteSetTheorems, SequenceTheorems, TLAPS

-----------------------------------------------------------------------------
(***************************************************************************)
(* What holds of Python in the app's process for any number of consoles,   *)
(* requests and executions: one that no other overlaps is exact.           *)
(*                                                                         *)
(* The process-wide stdout may point to the writer of an execution that    *)
(* ended, but only of one that was overlapped: whoever finds the writer of *)
(* another execution overlaps it, and what nobody found nobody puts back   *)
(* (Forgotten).  So stdout is the writer of an execution that is alone as  *)
(* long as it runs (Alone), and it gets what this one prints (Exact).      *)
(***************************************************************************)

InsideSteps == {"stdin", "chdir", "body", "undir", "unstdin", "unout"}
ActiveSteps == InsideSteps \union {"drain"}
Steps       == ActiveSteps \union {"idle", "make", "found", "answer"}

Prints == Nat \X Nat

Types ==
  /\ runs \in 0 .. MaxRuns /\ stdout \in 0 .. runs
  /\ at \in [Callers -> Steps] /\ run \in [Callers -> 0 .. runs]
  /\ DOMAIN saved = Callers
  /\ \A t \in Callers : DOMAIN saved[t] = {"out", "in", "dir"} /\ saved[t].out \in 0 .. runs
  /\ prints \in [Runs -> Nat]
  /\ text \in [Runs -> SUBSET Prints] /\ pending \in [Runs -> SUBSET Prints]
  /\ sent \in [Runs -> SUBSET Prints] /\ result \in [Runs -> SUBSET Prints]
  /\ ended \in SUBSET (1 .. runs) /\ mixed \in SUBSET (1 .. runs)

\* An execution belongs to one thread, and has not ended while that is in it;
\* only a console's points stdin to itself.
OwnRuns ==
  /\ \A t, u \in Callers : run[t] = run[u] /\ run[t] # 0 => t = u
  /\ \A t \in Callers :
        /\ at[t] \in ActiveSteps => run[t] # 0 /\ run[t] \notin ended
        /\ at[t] \in {"stdin", "unstdin"} => t \in Consoles

\* Who is not overlapped is by himself, and stdout is his writer.
Alone == \A t \in Inside : run[t] \notin mixed => Inside = {t} /\ stdout = run[t]

\* The writer of an execution that nobody overlaps was found by nobody, and is
\* not left behind as stdout.
Forgotten ==
  \A r \in (1 .. runs) \ mixed :
     /\ \A t \in Callers : saved[t].out # r
     /\ stdout = r => \E t \in Inside : run[t] = r

\* Those to come have no text yet.
Exact ==
  \A r \in Runs \ mixed :
     /\ text[r] = Printed(r) /\ text[r] = sent[r] \union pending[r]
     /\ r \in ended => pending[r] = {} /\ result[r] = text[r]

\* Before the first overlap, what an execution found is what there was at first.
Restored == mixed = {} =>
  /\ Inside = {} => stdout = Process /\ stdin = Process /\ folder = Start
  /\ \A t \in Inside :
       /\ saved[t].out = Process
       /\ at[t] \in {"chdir", "body", "undir", "unstdin"} /\ t \in Consoles => saved[t].in = Process
       /\ at[t] \in {"stdin", "unout"} \/ t \notin Consoles => stdin = Process
       /\ at[t] \in {"body", "undir"} => saved[t].dir = Start
       /\ at[t] \in {"stdin", "chdir", "unstdin", "unout"} => folder = Start

IInv == Types /\ OwnRuns /\ Alone /\ Forgotten /\ Exact /\ Restored
-----------------------------------------------------------------------------

LEMMA InitInv == RunInit => IInv
<1> SUFFICES ASSUME RunInit PROVE IInv
  OBVIOUS
<1> USE DEF RunInit
<1> MaxRuns \in Nat
  BY RunsAssumption
<1>0. /\ 1 .. 0 = {} /\ 0 .. 0 = {0} /\ 0 \in 0 .. MaxRuns /\ \A n : <<n, 0>> = <<n, 0>>
  OBVIOUS
<1>1. Inside = {}
  BY DEF Inside
<1>2. Types
  BY <1>0 DEF Types, Steps, ActiveSteps, InsideSteps, Process, Runs
<1>3. OwnRuns
  BY DEF OwnRuns, ActiveSteps, InsideSteps
<1>4. Alone /\ Forgotten
  BY <1>1, <1>0 DEF Alone, Forgotten
<1>5. Exact
  BY <1>0 DEF Exact, Printed, Runs
<1>6. Restored
  BY <1>1 DEF Restored
<1> QED
  BY <1>2, <1>3, <1>4, <1>5, <1>6 DEF IInv

(***************************************************************************)
(* The steps of a thread that neither enter nor leave the redirection of   *)
(* stdout and write nothing.                                               *)
(***************************************************************************)
Inner(t, s) ==
  /\ t \in Callers /\ s \in Steps /\ at' = [at EXCEPT ![t] = s]
  /\ at[t] \in InsideSteps <=> s \in InsideSteps
  /\ s \in ActiveSteps => at[t] \in ActiveSteps
  /\ s \in {"stdin", "unstdin"} => t \in Consoles
  /\ DOMAIN saved' = Callers
  /\ \A u \in Callers :
        DOMAIN saved'[u] = {"out", "in", "dir"} /\ saved'[u].out = saved[u].out
  /\ UNCHANGED <<stdout, run, runs, prints, text, pending, sent, result, ended, mixed>>

LEMMA InnerKeeps ==
  ASSUME IInv, NEW t, NEW s, Inner(t, s)
  PROVE  Inside' = Inside /\ Types' /\ OwnRuns' /\ Alone' /\ Forgotten' /\ Exact'
<1> USE DEF IInv, Inner
<1>0. \A u \in Callers : at'[u] = IF u = t THEN s ELSE at[u]
  BY DEF Types
<1>1. Inside' = Inside
  BY <1>0 DEF Inside, InsideSteps
<1>2. Types'
  BY <1>0 DEF Types
<1>3. OwnRuns'
  BY <1>0 DEF OwnRuns
<1>4. Alone'
  BY <1>1 DEF Alone
<1>5. Forgotten'
  BY <1>1 DEF Forgotten
<1>6. Exact'
  BY DEF Exact, Printed
<1> QED
  BY <1>1, <1>2, <1>3, <1>4, <1>5, <1>6

\* A thread that is not in an execution, and does not begin one.
Outside(t, s) ==
  /\ t \in Callers /\ at' = [at EXCEPT ![t] = s]
  /\ {at[t], s} \subseteq {"idle", "make", "found", "answer"}
  /\ UNCHANGED <<process, run, saved, runs, prints, writers, mixed>>

LEMMA OutsideKeeps ==
  ASSUME IInv, NEW t, NEW s, Outside(t, s)
  PROVE  IInv'
<1>1. Inner(t, s)
  BY DEF IInv, Types, Outside, Inner, Steps, ActiveSteps, InsideSteps, process, writers
<1>2. Inside' = Inside /\ Types' /\ OwnRuns' /\ Alone' /\ Forgotten' /\ Exact'
  BY <1>1, InnerKeeps
<1>3. \A u \in Inside : at'[u] = at[u]
  BY DEF IInv, Types, Outside, Inside
<1>4. Restored'
  BY <1>2, <1>3 DEF IInv, Restored, Outside, process
<1> QED
  BY <1>2, <1>4 DEF IInv

LEMMA OutsideSteps ==
  ASSUME IInv, NEW t \in Callers,
         \/ LookUp(t) \/ Make(t) \/ Stop(t) \/ SendInput(t) \/ Status(t) \/ ExitLine(t)
         \/ Command(t) \/ Remember(t)
  PROVE  IInv'
<1>1. \E s : Outside(t, s)
  <2>1. CASE LookUp(t)
    BY <2>1 DEF LookUp, Move, Outside
  <2>2. CASE Make(t)
    BY <2>2 DEF Make, Move, Outside
  <2>3. CASE Stop(t) \/ SendInput(t) \/ Status(t) \/ ExitLine(t)
    BY <2>3 DEF Stop, SendInput, Status, ExitLine, Inert, Move, Outside
  <2>4. CASE OtherCommand(t)
    BY <2>4 DEF OtherCommand, Ready, After, Outside
  <2>5. CASE \E d \in Folders : Cd(t, d)
    BY <2>5 DEF Cd, Ready, After, Outside
  <2>6. CASE Remember(t)
    BY <2>6 DEF Remember, Move, Outside
  <2> QED
    BY <2>1, <2>2, <2>3, <2>4, <2>5, <2>6 DEF Command
<1> QED
  BY <1>1, OutsideKeeps

-----------------------------------------------------------------------------
(* The contexts within the redirection of stdout.                          *)

\* Before the first overlap, who is inside is there by himself.
LEMMA OneInside ==
  ASSUME IInv, mixed = {}, NEW t \in Inside
  PROVE  Inside = {t} /\ stdout = run[t] /\ t \in Callers
BY DEF IInv, Alone, Inside

LEMMA ContextSteps ==
  ASSUME IInv, NEW t \in Callers,
         EnterIn(t) \/ EnterDir(t) \/ EndBody(t) \/ LeaveDir(t) \/ LeaveIn(t)
  PROVE  IInv'
<1> at \in [Callers -> Steps] /\ DOMAIN saved = Callers
      /\ \A u \in Callers : DOMAIN saved[u] = {"out", "in", "dir"}
  BY DEF IInv, Types
<1>1. \E s : Inner(t, s)
  <2>1. CASE EnterIn(t)
    <3> Inner(t, "chdir")
      BY <2>1 DEF EnterIn, Move, Inner, Steps, ActiveSteps, InsideSteps, writers
    <3> QED
      OBVIOUS
  <2>2. CASE EnterDir(t)
    <3> Inner(t, "body")
      BY <2>2 DEF EnterDir, Move, Inner, Steps, ActiveSteps, InsideSteps, writers
    <3> QED
      OBVIOUS
  <2>3. CASE EndBody(t)
    <3> Inner(t, "undir")
      BY <2>3 DEF EndBody, Move, Inner, Steps, ActiveSteps, InsideSteps, writers, process
    <3> QED
      OBVIOUS
  <2>4. CASE LeaveDir(t)
    <3> Inner(t, IF t \in Consoles THEN "unstdin" ELSE "unout")
      BY <2>4 DEF LeaveDir, Move, Inner, Steps, ActiveSteps, InsideSteps, writers
    <3> QED
      OBVIOUS
  <2>5. CASE LeaveIn(t)
    <3> Inner(t, "unout")
      BY <2>5 DEF LeaveIn, Move, Inner, Steps, ActiveSteps, InsideSteps, writers
    <3> QED
      OBVIOUS
  <2> QED
    BY <2>1, <2>2, <2>3, <2>4, <2>5
<1>2. Inside' = Inside /\ Types' /\ OwnRuns' /\ Alone' /\ Forgotten' /\ Exact'
  BY <1>1, InnerKeeps
<1>3. ASSUME mixed' = {} PROVE Restored'
  <2>1. mixed = {} /\ stdout' = stdout
    BY <1>1, <1>3 DEF Inner
  <2>2. t \in Inside
    BY DEF EnterIn, EnterDir, EndBody, LeaveDir, LeaveIn, Move, Inside
  <2>3. Inside = {t} /\ Inside' = {t}
    BY <2>1, <2>2, <1>2, OneInside
  <2>4. /\ saved[t].out = Process
        /\ at[t] \in {"chdir", "body", "undir", "unstdin"} /\ t \in Consoles => saved[t].in = Process
        /\ at[t] \in {"stdin", "unout"} \/ t \notin Consoles => stdin = Process
        /\ at[t] \in {"body", "undir"} => saved[t].dir = Start
        /\ at[t] \in {"stdin", "chdir", "unstdin", "unout"} => folder = Start
    BY <2>1, <2>2 DEF IInv, Restored
  <2>5. at[t] \in {"stdin", "unstdin"} => t \in Consoles
    BY DEF IInv, OwnRuns
  <2>6. /\ saved'[t].out = Process
        /\ at'[t] \in {"chdir", "body", "undir", "unstdin"} /\ t \in Consoles => saved'[t].in = Process
        /\ at'[t] \in {"stdin", "unout"} \/ t \notin Consoles => stdin' = Process
        /\ at'[t] \in {"body", "undir"} => saved'[t].dir = Start
        /\ at'[t] \in {"stdin", "chdir", "unstdin", "unout"} => folder' = Start
    <3>1. CASE EnterIn(t)
      BY <3>1, <2>4, <2>5 DEF EnterIn, Move
    <3>2. CASE EnterDir(t)
      BY <3>2, <2>4, <2>5 DEF EnterDir, Move
    <3>3. CASE EndBody(t)
      BY <3>3, <2>4, <2>5 DEF EndBody, Move, process
    <3>4. CASE LeaveDir(t)
      BY <3>4, <2>4, <2>5 DEF LeaveDir, Move
    <3>5. CASE LeaveIn(t)
      BY <3>5, <2>4, <2>5 DEF LeaveIn, Move
    <3> QED
      BY <3>1, <3>2, <3>3, <3>4, <3>5
  <2> QED
    BY <2>3, <2>6 DEF Restored
<1>4. Restored'
  BY <1>3 DEF Restored
<1> QED
  BY <1>2, <1>4 DEF IInv

-----------------------------------------------------------------------------
(* stdout is redirected: whoever is inside, and whoever comes, is overlapped *)
(* from now on.                                                             *)

LEMMA EnterOutStep ==
  ASSUME IInv, NEW t \in Callers, EnterOut(t)
  PROVE  IInv'
<1> USE DEF EnterOut
<1> MaxRuns \in Nat /\ runs \in Nat
  BY RunsAssumption DEF IInv, Types
<1>0. Types /\ OwnRuns /\ Alone /\ Forgotten /\ Exact /\ Restored
  BY DEF IInv
<1>1. at[t] \in {"idle", "found"}
  BY DEF Ready
<1>2. /\ t \notin Inside
      /\ \A u \in Callers \ {t} : at'[u] = at[u] /\ run'[u] = run[u] /\ saved'[u] = saved[u]
      /\ at'[t] = IF t \in Consoles THEN "stdin" ELSE "chdir"
      /\ run'[t] = runs + 1 /\ saved'[t].out = stdout
  BY <1>0, <1>1 DEF Types, Inside
<1>3. Inside' = Inside \union {t}
  BY <1>2 DEF Inside
<1>4. \A u \in Callers : run[u] \in 0 .. runs /\ saved[u].out \in 0 .. runs
  BY <1>0 DEF Types
<1>5. Types'
  <2>1. runs' \in 0 .. MaxRuns /\ stdout' \in 0 .. runs' /\ runs' \in 1 .. runs'
    OBVIOUS
  <2>2. at' \in [Callers -> Steps]
    BY <1>0 DEF Types, Steps, ActiveSteps, InsideSteps
  <2>3. run' \in [Callers -> 0 .. runs']
    BY <1>0, <1>4 DEF Types
  <2>4. DOMAIN saved' = Callers
        /\ \A u \in Callers : DOMAIN saved'[u] = {"out", "in", "dir"} /\ saved'[u].out \in 0 .. runs'
    <3>1. DOMAIN saved'[t] = {"out", "in", "dir"}
      BY <1>0 DEF Types
    <3> QED
      BY <1>0, <1>2, <1>4, <3>1 DEF Types
  <2>5. mixed' \in SUBSET (1 .. runs')
    <3>1. \A u \in Inside : run[u] \in 1 .. runs'
      BY <1>0, <1>4 DEF OwnRuns, Inside, ActiveSteps, InsideSteps
    <3> QED
      BY <1>0, <3>1, <2>1 DEF Types
  <2>6. ended' \in SUBSET (1 .. runs') /\ UNCHANGED <<prints, text, pending, sent, result>>
    BY <1>0 DEF Types, writers
  <2> QED
    BY <1>0, <2>1, <2>2, <2>3, <2>4, <2>5, <2>6 DEF Types
<1>6. OwnRuns'
  <2>1. ended' = ended /\ runs + 1 \notin ended
    BY <1>0 DEF Types, writers
  <2>2. \A u, v \in Callers : run'[u] = run'[v] /\ run'[u] # 0 => u = v
    BY <1>0, <1>2, <1>4 DEF OwnRuns
  <2>3. \A u \in Callers :
           /\ at'[u] \in ActiveSteps => run'[u] # 0 /\ run'[u] \notin ended'
           /\ at'[u] \in {"stdin", "unstdin"} => u \in Consoles
    BY <1>0, <1>2, <2>1 DEF OwnRuns
  <2> QED
    BY <2>2, <2>3 DEF OwnRuns
<1>7. /\ mixed \subseteq mixed'
      /\ Inside # {} => \A u \in Inside' : run'[u] \in mixed'
      /\ Inside = {} => mixed' = mixed
  BY <1>2, <1>3 DEF Inside
<1>8. Alone'
  BY <1>2, <1>3, <1>7 DEF Alone
<1>9. Forgotten'
  <2> SUFFICES ASSUME NEW r \in (1 .. runs') \ mixed'
               PROVE  /\ \A u \in Callers : saved'[u].out # r
                      /\ stdout' = r => \E u \in Inside' : run'[u] = r
    BY DEF Forgotten
  <2>1. stdout' = r => \E u \in Inside' : run'[u] = r
    BY <1>2, <1>3
  <2>2. \A u \in Callers : saved[u].out # r
    <3>1. CASE r = runs + 1
      BY <3>1, <1>4
    <3>2. CASE r # runs + 1
      BY <3>2, <1>0, <1>7 DEF Forgotten
    <3> QED
      BY <3>1, <3>2
  <2>3. stdout # r
    <3>1. CASE r = runs + 1
      BY <3>1, <1>0 DEF Types
    <3>2. CASE r # runs + 1
      <4>1. r \in (1 .. runs) \ mixed
        BY <3>2, <1>7
      <4>2. ASSUME stdout = r PROVE FALSE
        <5>1. PICK u \in Inside : run[u] = r
          BY <4>1, <4>2, <1>0 DEF Forgotten
        <5>2. u # t /\ u \in Callers
          BY <1>2 DEF Inside
        <5> QED
          BY <5>1, <5>2, <1>2, <1>3, <1>7
      <4> QED
        BY <4>2
    <3> QED
      BY <3>1, <3>2
  <2> QED
    BY <2>1, <2>2, <2>3, <1>2
<1>10. Exact'
  BY <1>0, <1>7 DEF Exact, Printed, writers
<1>11. ASSUME mixed' = {} PROVE Restored'
  <2>1. Inside = {} /\ mixed = {}
    BY <1>3, <1>7, <1>11
  <2>2. Inside' = {t} /\ stdout = Process /\ stdin = Process /\ folder = Start
    BY <2>1, <1>0, <1>3 DEF Restored
  <2> QED
    BY <2>2, <1>2 DEF Restored
<1>12. Restored'
  BY <1>11 DEF Restored
<1> QED
  BY <1>5, <1>6, <1>8, <1>9, <1>10, <1>12 DEF IInv

LEMMA LeaveOutStep ==
  ASSUME IInv, NEW t \in Callers, LeaveOut(t)
  PROVE  IInv'
<1> USE DEF LeaveOut, Move
<1>0. Types /\ OwnRuns /\ Alone /\ Forgotten /\ Exact /\ Restored
  BY DEF IInv
<1>1. /\ t \in Inside
      /\ \A u \in Callers : at'[u] = IF u = t THEN "drain" ELSE at[u]
  BY <1>0 DEF Types, Inside
<1>2. Inside' = Inside \ {t}
  BY <1>1 DEF Inside
<1>3. Types'
  BY <1>0 DEF Types, Steps, ActiveSteps, writers
<1>4. OwnRuns'
  BY <1>0, <1>1 DEF OwnRuns, ActiveSteps, InsideSteps, writers
<1>5. \A u \in Inside : run[u] \notin mixed => u = t
  BY <1>0, <1>1 DEF Alone
<1>6. Alone'
  BY <1>2, <1>5 DEF Alone
<1>7. Forgotten'
  BY <1>0 DEF Forgotten
<1>8. Exact'
  BY <1>0 DEF Exact, Printed, writers
<1>9. ASSUME mixed' = {} PROVE Restored'
  <2>1. Inside = {t} /\ mixed = {}
    BY <1>1, <1>9, OneInside
  <2>2. saved[t].out = Process /\ stdin = Process /\ folder = Start
    BY <2>1, <1>0, <1>1 DEF Restored
  <2>3. Inside' = {}
    BY <2>1, <1>2
  <2> QED
    BY <2>2, <2>3 DEF Restored
<1>10. Restored'
  BY <1>9 DEF Restored
<1> QED
  BY <1>3, <1>4, <1>6, <1>7, <1>8, <1>10 DEF IInv

-----------------------------------------------------------------------------
(* What an execution writes, and its result.                               *)

LEMMA WriteStep ==
  ASSUME IInv, NEW t \in Callers, NEW line \in BOOLEAN, Write(t, line)
  PROVE  IInv'
<1> DEFINE r == run[t]
           p == <<r, prints[r] + 1>>
<1>0. Types /\ OwnRuns /\ Alone /\ Forgotten /\ Exact /\ Restored
  BY DEF IInv
<1>1. /\ at[t] = "body" /\ t \in Inside
      /\ prints' = [prints EXCEPT ![r] = @ + 1]
      /\ UNCHANGED <<process, at, run, saved, runs, result, ended, mixed>>
  BY DEF Write, Inside
<1>2. /\ stdout = Process => UNCHANGED <<text, pending, sent>>
      /\ stdout # Process =>
           /\ text' = [text EXCEPT ![stdout] = @ \union {p}]
           /\ line => /\ sent' = [sent EXCEPT ![stdout] = @ \union pending[stdout] \union {p}]
                      /\ pending' = [pending EXCEPT ![stdout] = {}]
           /\ ~line => pending' = [pending EXCEPT ![stdout] = @ \union {p}] /\ sent' = sent
  BY DEF Write
<1>3. r \in Runs /\ r \notin ended /\ (stdout # Process => stdout \in Runs)
  <2> MaxRuns \in Nat
    BY RunsAssumption
  <2>1. r \in 0 .. runs /\ r # 0 /\ runs \in 0 .. MaxRuns /\ stdout \in 0 .. runs /\ r \notin ended
    BY <1>0, <1>1 DEF Types, OwnRuns, ActiveSteps, InsideSteps
  <2> QED
    BY <2>1 DEF Runs, Process
<1>4. p \in Prints /\ prints[r] \in Nat
  BY <1>0, <1>3 DEF Types, Prints, Runs
<1> HIDE DEF p
<1>5. Inside' = Inside
  BY <1>1 DEF Inside
<1>6. /\ text' \in [Runs -> SUBSET Prints] /\ pending' \in [Runs -> SUBSET Prints]
      /\ sent' \in [Runs -> SUBSET Prints]
  <2>1. CASE stdout = Process
    BY <2>1, <1>0, <1>2 DEF Types
  <2>2. CASE stdout # Process
    BY <2>2, <1>0, <1>2, <1>3, <1>4 DEF Types
  <2> QED
    BY <2>1, <2>2
<1>7. prints' \in [Runs -> Nat]
  BY <1>0, <1>1, <1>3 DEF Types
<1>8. Types'
  BY <1>0, <1>1, <1>6, <1>7 DEF Types, process
<1>9. OwnRuns' /\ Alone' /\ Forgotten' /\ Restored'
  BY <1>0, <1>1, <1>5 DEF OwnRuns, Alone, Forgotten, Restored, process
\* If either its number or the writer is not overlapped, they are the same.
<1>10. \A q \in Runs \ mixed : q = stdout <=> q = r
  <2> SUFFICES ASSUME NEW q \in Runs \ mixed, q = stdout \/ q = r PROVE q = stdout /\ q = r
    OBVIOUS
  <2>1. CASE q = r
    BY <2>1, <1>0, <1>1 DEF Alone
  <2>2. CASE q = stdout
    <3>1. q \in (1 .. runs) \ mixed
      BY <2>2, <1>0 DEF Types, Runs
    <3>2. PICK u \in Inside : run[u] = q
      BY <3>1, <2>2, <1>0 DEF Forgotten
    <3>3. Inside = {u}
      BY <3>1, <3>2, <1>0 DEF Alone
    <3> QED
      BY <2>2, <3>2, <3>3, <1>1
  <2> QED
    BY <2>1, <2>2
<1>11. ASSUME NEW q \in Runs \ mixed
       PROVE  /\ text'[q] = Printed(q)' /\ text'[q] = sent'[q] \union pending'[q]
              /\ q \in ended => pending'[q] = {} /\ result'[q] = text'[q]
  <2>0. /\ text[q] = Printed(q) /\ text[q] = sent[q] \union pending[q]
        /\ q \in ended => pending[q] = {} /\ result[q] = text[q]
    BY <1>0 DEF Exact
  <2>1. CASE q = r
    <3>1. stdout = r /\ stdout # Process
      BY <1>10, <2>1 DEF Process, Runs
    <3>2. prints'[r] = prints[r] + 1
      BY <1>0, <1>1, <1>3 DEF Types
    <3>3. Printed(q)' = Printed(q) \union {p}
      <4>1. 1 .. prints'[q] = (1 .. prints[q]) \union {prints[q] + 1}
        BY <2>1, <3>2, <1>4
      <4>2. p = <<q, prints[q] + 1>>
        BY <2>1 DEF p
      <4> QED
        BY <4>1, <4>2 DEF Printed
    <3>4. text'[r] = text[r] \union {p} /\ sent'[r] \union pending'[r] = sent[r] \union pending[r] \union {p}
      BY <3>1, <1>0, <1>2, <1>3 DEF Types
    <3> QED
      BY <2>0, <2>1, <3>3, <3>4, <1>3
  <2>2. CASE q # r
    <3>1. q # stdout
      BY <1>10, <2>2
    <3>2. text'[q] = text[q] /\ sent'[q] = sent[q] /\ pending'[q] = pending[q]
      <4>1. CASE stdout = Process
        BY <4>1, <1>2
      <4>2. CASE stdout # Process
        BY <4>2, <3>1, <1>0, <1>2 DEF Types
      <4> QED
        BY <4>1, <4>2
    <3>3. prints'[q] = prints[q] /\ result'[q] = result[q]
      BY <2>2, <1>0, <1>1 DEF Types
    <3> QED
      BY <2>0, <3>2, <3>3 DEF Printed
  <2> QED
    BY <2>1, <2>2
<1>12. Exact'
  BY <1>1, <1>11 DEF Exact
<1> QED
  BY <1>8, <1>9, <1>12 DEF IInv

LEMMA DrainStep ==
  ASSUME IInv, NEW t \in Callers, Drain(t)
  PROVE  IInv'
<1> USE DEF Drain, Move
<1>0. Types /\ OwnRuns /\ Alone /\ Forgotten /\ Exact /\ Restored
  BY DEF IInv
<1>1. /\ t \notin Inside /\ at'[t] \in {"idle", "answer"}
      /\ \A u \in Callers : u # t => at'[u] = at[u]
  BY <1>0 DEF Types, Inside, After
<1>2. Inside' = Inside
  BY <1>1 DEF Inside
<1>3. run[t] \in 1 .. runs /\ run[t] \in Runs
  <2> MaxRuns \in Nat
    BY RunsAssumption
  <2> QED
    BY <1>0 DEF Types, OwnRuns, ActiveSteps, Runs
<1>4. Types'
  BY <1>0, <1>3 DEF Types, After, Steps, process
<1>5. OwnRuns'
  BY <1>0, <1>1, <1>3 DEF OwnRuns, ActiveSteps, InsideSteps
<1>6. Alone' /\ Forgotten'
  BY <1>0, <1>2 DEF Alone, Forgotten, process
<1>7. ASSUME NEW q \in Runs \ mixed
      PROVE  /\ text'[q] = Printed(q)' /\ text'[q] = sent'[q] \union pending'[q]
             /\ q \in ended' => pending'[q] = {} /\ result'[q] = text'[q]
  <2>0. /\ text[q] = Printed(q) /\ text[q] = sent[q] \union pending[q]
        /\ q \in ended => pending[q] = {} /\ result[q] = text[q]
    BY <1>0 DEF Exact
  <2>1. Printed(q)' = Printed(q)
    BY DEF Printed
  <2>2. CASE q = run[t]
    BY <2>0, <2>1, <2>2, <1>0 DEF Types
  <2>3. CASE q # run[t]
    BY <2>0, <2>1, <2>3, <1>0 DEF Types
  <2> QED
    BY <2>2, <2>3
<1>8. Exact'
  BY <1>7 DEF Exact
<1>9. \A u \in Inside : at'[u] = at[u]
  BY <1>1 DEF Inside
<1>10. Restored'
  BY <1>0, <1>2, <1>9 DEF Restored, process
<1> QED
  BY <1>4, <1>5, <1>6, <1>8, <1>10 DEF IInv

-----------------------------------------------------------------------------

\* The invariant is inductive.
LEMMA StepInv == IInv /\ [RunNext]_runVars => IInv'
<1> SUFFICES ASSUME IInv, [RunNext]_runVars PROVE IInv'
  OBVIOUS
<1>1. ASSUME NEW t \in Callers,
             \/ LookUp(t) \/ Make(t) \/ Stop(t) \/ SendInput(t) \/ Status(t) \/ ExitLine(t)
             \/ Command(t) \/ Remember(t)
      PROVE  IInv'
  BY <1>1, OutsideSteps
<1>2. ASSUME NEW t \in Callers,
             EnterIn(t) \/ EnterDir(t) \/ EndBody(t) \/ LeaveDir(t) \/ LeaveIn(t)
      PROVE  IInv'
  BY <1>2, ContextSteps
<1>3. ASSUME NEW t \in Callers, EnterOut(t) PROVE IInv'
  BY <1>3, EnterOutStep
<1>4. ASSUME NEW t \in Callers, LeaveOut(t) PROVE IInv'
  BY <1>4, LeaveOutStep
<1>5. ASSUME NEW t \in Callers, NEW line \in BOOLEAN, Write(t, line) PROVE IInv'
  BY <1>5, WriteStep
<1>6. ASSUME NEW t \in Callers, Drain(t) PROVE IInv'
  BY <1>6, DrainStep
<1>7. CASE RunRest \/ UNCHANGED runVars
  <2>1. UNCHANGED <<stdout, stdin, folder, at, run, saved, runs, prints, text, pending, sent,
                    result, ended, mixed>>
    BY <1>7 DEF RunRest, runVars, process, writers
  <2>2. Inside' = Inside
    BY <2>1 DEF Inside
  <2> QED
    BY <2>1, <2>2 DEF IInv, Types, OwnRuns, Alone, Forgotten, Exact, Printed, Restored
<1> QED
  BY <1>1, <1>2, <1>3, <1>4, <1>5, <1>6, <1>7 DEF RunNext, Execute

\* Every state satisfies the inductive invariant.
THEOREM Invariance == RunSpec => []IInv
BY InitInv, StepInv, PTL DEF RunSpec

\* An execution that no other one overlaps has, in its result and on its
\* terminal, all it printed and nothing else, whatever was left behind by those
\* that did overlap; and until two overlap the process gets back its stdout, its
\* stdin and its directory (PythonShell._exec_python), for any number of
\* consoles, requests and executions.
THEOREM AloneStaysExact == RunSpec => []AloneIsExact
<1>1. IInv => AloneIsExact
  <2> SUFFICES ASSUME IInv PROVE AloneIsExact
    OBVIOUS
  <2>1. ended \subseteq Runs
    <3> MaxRuns \in Nat
      BY RunsAssumption
    <3> QED
      BY DEF IInv, Types, Runs
  <2>2. \A r \in ended \ mixed : result[r] = Printed(r) /\ sent[r] = Printed(r)
    BY <2>1 DEF IInv, Exact
  <2> QED
    BY <2>2 DEF IInv, Restored, AloneIsExact
<1> QED
  BY <1>1, Invariance, PTL

-----------------------------------------------------------------------------
(***************************************************************************)
(* What holds of the app's tabs for any number of tabs, launches, shells   *)
(* and installations: the keys go to the terminal that is shown, and just  *)
(* the shells of open tabs run.                                            *)
(*                                                                         *)
(* The second needs to know that no shell is in two tabs, so that a close  *)
(* or a replacement, which look for one, leave none behind.  A shell that  *)
(* is started is new; and the Linux shell that replaces a local one is new *)
(* since that one is in a tab until then, and never again after.           *)
(***************************************************************************)

TabShells == Locals \union {Linux(s) : s \in Locals}

TabTypes ==
  /\ launch \in 0 .. MaxLaunches /\ alive \in BOOLEAN
  /\ tabs \in Seq(TabShells) /\ active \in Nat /\ shown \in TabShells \union {Nothing}
  /\ shells \in 0 .. MaxShells /\ running \in SUBSET TabShells
  /\ startup \in {"import", "imported", "ready", "failed"}
  /\ installed \in BOOLEAN /\ setupDone \in BOOLEAN

\* A destroyed activity has no tabs.
NoTabsWhenDead == ~ alive => tabs = << >>

\* No shell is in two tabs.
OneTabEach == \A i, j \in DOMAIN tabs : tabs[i] = tabs[j] => i = j

\* Open tabs hold shells that were started, and not a shell and the one that
\* replaced it.
StartedTabs ==
  /\ \A s \in Locals : s \in ToSet(tabs) \/ Linux(s) \in ToSet(tabs) => s <= shells
  /\ \A s \in Locals : ~ (s \in ToSet(tabs) /\ Linux(s) \in ToSet(tabs))

TabInv ==
  /\ TabTypes /\ NoTabsWhenDead /\ OneTabEach /\ StartedTabs
  /\ KeysGoToTheScreen /\ OnlyOpenTabsRun

LEMMA TabInitInv == ActivityInit => TabInv
  <1> SUFFICES ASSUME ActivityInit PROVE TabInv
    OBVIOUS
  <1>1. tabs = << >> /\ DOMAIN tabs = {} /\ ToSet(tabs) = {}
    BY DEF ActivityInit, ToSet
  <1>2. TabTypes
    <2>1. 0 \in 0 .. MaxLaunches /\ 0 \in 0 .. MaxShells
      BY ActivityAssumption
    <2>2. tabs \in Seq(TabShells) /\ active \in Nat
      BY <1>1 DEF ActivityInit
    <2> QED
      BY <2>1, <2>2 DEF ActivityInit, TabTypes
  <1> QED
    BY <1>1, <1>2 DEF ActivityInit, TabInv, NoTabsWhenDead, OneTabEach, StartedTabs, KeysGoToTheScreen,
                      OnlyOpenTabsRun

-----------------------------------------------------------------------------
(* TabShells and sequences of them.                                           *)

\* The Linux shells are none of the local ones, and each replaces one.
LEMMA ShellFacts ==
  /\ MaxShells \in Nat /\ Locals \subseteq Nat /\ TabShells \subseteq Nat /\ Nothing \notin TabShells
  /\ \A s \in Locals : Linux(s) \in TabShells \ Locals
  /\ \A s, u \in Locals : Linux(s) = Linux(u) => s = u
  BY ActivityAssumption DEF Locals, Linux, TabShells, Nothing

\* What closing place i leaves: every other place, in its order.
LEMMA RemoveAtFacts ==
  ASSUME NEW S, NEW s \in Seq(S), NEW i \in 1 .. Len(s)
  PROVE  /\ RemoveAt(s, i) \in Seq(S) /\ Len(RemoveAt(s, i)) = Len(s) - 1
         /\ \A j \in 1 .. Len(s) - 1 : RemoveAt(s, i)[j] = IF j < i THEN s[j] ELSE s[j + 1]
  <1> DEFINE front == SubSeq(s, 1, i - 1)
             right == SubSeq(s, i + 1, Len(s))
  <1>1. front \in Seq(S) /\ Len(front) = i - 1 /\ \A j \in 1 .. i - 1 : front[j] = s[j]
    OBVIOUS
  <1>2. right \in Seq(S) /\ Len(right) = Len(s) - i
        /\ \A j \in i .. Len(s) - 1 : right[j - (i - 1)] = s[j + 1]
    OBVIOUS
  <1>3. RemoveAt(s, i) = front \o right
    BY DEF RemoveAt
  <1> HIDE DEF front, right
  <1>4. front \o right \in Seq(S) /\ Len(front \o right) = Len(s) - 1
    <2>1. front \o right \in Seq(S) /\ Len(front \o right) = Len(front) + Len(right)
      <3>1. front \in Seq(S) /\ right \in Seq(S)
        BY <1>1, <1>2
      <3> QED
        BY ONLY <3>1
    <2>2. Len(s) \in Nat
      OBVIOUS
    <2> QED
      BY <1>1, <1>2, <2>1, <2>2
  <1>5. ASSUME NEW j \in 1 .. Len(s) - 1
        PROVE  (front \o right)[j] = IF j < i THEN s[j] ELSE s[j + 1]
    <2>1. CASE j < i
      BY <1>1, <1>2, <2>1
    <2>2. CASE ~ (j < i)
      <3>1. (front \o right)[j] = right[j - (i - 1)]
        BY <1>1, <1>2, <2>2, SMTT(30)
      <3>2. j \in i .. Len(s) - 1
        BY <2>2
      <3> QED
        BY <1>2, <2>2, <3>1, <3>2
    <2> QED
      BY <2>1, <2>2
  <1> QED
    BY <1>3, <1>4, <1>5

\* So a shell that is in one tab is in none when that one is closed.
LEMMA RemoveAtSet ==
  ASSUME NEW S, NEW s \in Seq(S), NEW i \in DOMAIN s,
         \A j, k \in DOMAIN s : s[j] = s[k] => j = k
  PROVE  /\ ToSet(RemoveAt(s, i)) = ToSet(s) \ {s[i]}
         /\ \A j, k \in DOMAIN RemoveAt(s, i) : RemoveAt(s, i)[j] = RemoveAt(s, i)[k] => j = k
  <1> DEFINE r == RemoveAt(s, i)
  <1>1. r \in Seq(S) /\ Len(r) = Len(s) - 1 /\ DOMAIN s = 1 .. Len(s) /\ Len(s) \in Nat
        /\ DOMAIN r = 1 .. Len(s) - 1
        /\ \A j \in 1 .. Len(s) - 1 : r[j] = IF j < i THEN s[j] ELSE s[j + 1]
    BY RemoveAtFacts
  <1> HIDE DEF r
  <1>2. \A j, k \in DOMAIN r : r[j] = r[k] => j = k
    <2> SUFFICES ASSUME NEW j \in DOMAIN r, NEW k \in DOMAIN r, r[j] = r[k] PROVE j = k
      OBVIOUS
    <2>1. PICK a \in DOMAIN s : s[a] = r[j] /\ a = (IF j < i THEN j ELSE j + 1)
      BY <1>1
    <2>2. PICK b \in DOMAIN s : s[b] = r[k] /\ b = (IF k < i THEN k ELSE k + 1)
      BY <1>1
    <2>3. a = b
      BY <2>1, <2>2
    <2>4. j \in Nat /\ k \in Nat /\ i \in Nat
      BY <1>1
    <2> QED
      BY <2>1, <2>2, <2>3, <2>4
  <1>3. ToSet(r) \subseteq ToSet(s) \ {s[i]}
    BY <1>1 DEF ToSet
  <1>4. ASSUME NEW j \in DOMAIN s, j # i PROVE s[j] \in ToSet(r)
    <2>1. CASE j < i
      <3>1. j \in DOMAIN r /\ r[j] = s[j]
        BY <1>1, <2>1
      <3> QED
        BY <3>1 DEF ToSet
    <2>2. CASE j > i
      <3>1. j - 1 \in DOMAIN r /\ r[j - 1] = s[j]
        BY <1>1, <2>2
      <3> QED
        BY <3>1 DEF ToSet
    <2> QED
      BY <1>1, <1>4, <2>1, <2>2
  <1>5. ToSet(s) \ {s[i]} \subseteq ToSet(r)
    BY <1>4 DEF ToSet
  <1> QED
    BY <1>2, <1>3, <1>5 DEF r

-----------------------------------------------------------------------------
(* The steps.                                                              *)

\* A new local shell in a tab behind tabs that are already open.
LEMMA Opens ==
  ASSUME TabInv, NEW t \in Seq(TabShells), ToSet(t) \subseteq ToSet(tabs),
         \A i, j \in DOMAIN t : t[i] = t[j] => i = j,
         Started, tabs' = Append(t, Fresh), SwitchTo(tabs', Len(tabs')),
         NEW over, Run(over, {Fresh}), running \ over = ToSet(t),
         alive' = TRUE, launch' \in 0 .. MaxLaunches,
         startup' \in {"import", "imported", "ready", "failed"},
         installed' \in BOOLEAN, setupDone' \in BOOLEAN
  PROVE  TabInv'
  <1>1. shells \in 0 .. MaxShells /\ Fresh = shells + 1 /\ Fresh \in Locals /\ Fresh \in TabShells
        /\ shells' = Fresh
    BY ActivityAssumption DEF TabInv, TabTypes, Started, Fresh, Locals, TabShells
  <1>2. Len(t) \in Nat /\ DOMAIN t = 1 .. Len(t) /\ \A i \in DOMAIN t : t[i] \in ToSet(tabs)
    <2>1. \A i \in DOMAIN t : t[i] \in ToSet(t)
      BY DEF ToSet
    <2> QED
      BY <2>1
  <1>3. /\ tabs' \in Seq(TabShells) /\ Len(tabs') = Len(t) + 1 /\ DOMAIN tabs' = 1 .. Len(t) + 1
        /\ tabs'[Len(t) + 1] = Fresh /\ \A i \in DOMAIN t : tabs'[i] = t[i]
    BY <1>1, <1>2
  <1>4. ToSet(tabs') = ToSet(t) \union {Fresh}
    <2>1. ToSet(tabs') \subseteq ToSet(t) \union {Fresh}
      BY <1>2, <1>3 DEF ToSet
    <2>2. ToSet(t) \union {Fresh} \subseteq ToSet(tabs')
      BY <1>2, <1>3 DEF ToSet
    <2> QED
      BY <2>1, <2>2
  <1>5. Fresh \notin ToSet(tabs) /\ Linux(Fresh) \notin ToSet(tabs)
    BY <1>1 DEF TabInv, StartedTabs
  <1>6. running' = ToSet(tabs') /\ running' \in SUBSET TabShells
    <2>1. running' = ToSet(tabs')
      BY <1>4 DEF Run
    <2>2. ToSet(tabs') \subseteq TabShells
      BY <1>3 DEF ToSet
    <2> QED
      BY <2>1, <2>2
  <1>7. active' = Len(t) + 1 /\ shown' = Fresh
    BY <1>3 DEF SwitchTo
  <1>8. TabTypes' /\ NoTabsWhenDead' /\ KeysGoToTheScreen' /\ OnlyOpenTabsRun'
    BY <1>1, <1>2, <1>3, <1>6, <1>7
    DEF TabTypes, NoTabsWhenDead, KeysGoToTheScreen, OnlyOpenTabsRun, Locals
  <1>9. OneTabEach'
    BY <1>2, <1>3, <1>5 DEF OneTabEach
  <1>10. StartedTabs'
    <2> SUFFICES ASSUME NEW s \in Locals
                 PROVE  /\ s \in ToSet(tabs') \/ Linux(s) \in ToSet(tabs') => s <= shells'
                        /\ ~ (s \in ToSet(tabs') /\ Linux(s) \in ToSet(tabs'))
      BY DEF StartedTabs
    <2>1. Linux(s) \in ToSet(tabs') => Linux(s) \in ToSet(tabs)
      BY <1>1, <1>4, ShellFacts
    <2>2. s \in ToSet(tabs') => s \in ToSet(tabs) \/ s = Fresh
      BY <1>4
    <2>3. s \in Nat /\ shells \in Nat
      BY <1>1, ShellFacts
    <2> QED
      BY <1>1, <1>5, <2>1, <2>2, <2>3 DEF TabInv, StartedTabs
  <1> QED
    BY <1>8, <1>9, <1>10 DEF TabInv

\* A tab is closed that is not the only one.
LEMMA Closes ==
  ASSUME TabInv, NEW i \in DOMAIN tabs, alive = TRUE, RemoveAt(tabs, i) # << >>,
         tabs' = RemoveAt(tabs, i),
         SwitchTo(tabs', IF active > Len(tabs') THEN Len(tabs') ELSE active),
         Run({tabs[i]}, {}), UNCHANGED <<alive, launch, shells, startup, installed, setupDone>>
  PROVE  TabInv'
  <1>1. tabs \in Seq(TabShells) /\ i \in 1 .. Len(tabs) /\ DOMAIN tabs = 1 .. Len(tabs)
    BY DEF TabInv, TabTypes
  <1>2. /\ tabs' \in Seq(TabShells) /\ Len(tabs') \in Nat \ {0} /\ Len(tabs') = Len(tabs) - 1
        /\ DOMAIN tabs' = 1 .. Len(tabs')
    <2>1. tabs' \in Seq(TabShells) /\ Len(tabs') = Len(tabs) - 1
      BY <1>1, RemoveAtFacts
    <2>2. Len(tabs') # 0
      BY <2>1
    <2> QED
      BY <2>1, <2>2
  <1>3. ToSet(tabs') = ToSet(tabs) \ {tabs[i]} /\ OneTabEach'
    BY <1>1, RemoveAtSet DEF TabInv, OneTabEach
  <1>4. running' = ToSet(tabs') /\ running' \in SUBSET TabShells
    BY <1>3 DEF Run, TabInv, OnlyOpenTabsRun, TabTypes
  <1>5. active' \in DOMAIN tabs' /\ active' \in Nat /\ shown' = tabs'[active'] /\ shown' \in TabShells
    <2>1. active \in 1 .. Len(tabs)
      BY <1>1 DEF TabInv, KeysGoToTheScreen
    <2>2. active' \in 1 .. Len(tabs')
      BY <1>2, <2>1 DEF SwitchTo
    <2>3. shown' = tabs'[active']
      BY DEF SwitchTo
    <2> QED
      BY <1>2, <2>2, <2>3
  <1>6. TabTypes' /\ NoTabsWhenDead' /\ KeysGoToTheScreen' /\ OnlyOpenTabsRun'
    BY <1>2, <1>4, <1>5 DEF TabInv, TabTypes, NoTabsWhenDead, KeysGoToTheScreen, OnlyOpenTabsRun
  <1>7. StartedTabs'
    BY <1>3 DEF TabInv, StartedTabs
  <1> QED
    BY <1>3, <1>6, <1>7 DEF TabInv

\* replaceSessionWithLinuxAt, whoever posted it and when.
LEMMA Replaces ==
  ASSUME TabInv, NEW s \in Locals, Replace(s),
         UNCHANGED <<alive, launch>>,
         startup' \in {"import", "imported", "ready", "failed"},
         installed' \in BOOLEAN, setupDone' \in BOOLEAN
  PROVE  TabInv'
  <1>1. tabs \in Seq(TabShells) /\ DOMAIN tabs = 1 .. Len(tabs) /\ Len(tabs) \in Nat
    BY DEF TabInv, TabTypes
  <1>2. CASE s \notin ToSet(tabs)
    BY <1>2 DEF Replace, screen, TabInv, TabTypes, NoTabsWhenDead, OneTabEach, StartedTabs,
                KeysGoToTheScreen, OnlyOpenTabsRun
  <1>3. CASE s \in ToSet(tabs)
    <2>1. PICK i \in DOMAIN tabs : /\ tabs[i] = s /\ tabs' = [tabs EXCEPT ![i] = Linux(s)]
                                   /\ SwitchTo(tabs', i) /\ Run({s}, {Linux(s)}) /\ shells' = shells
      <3> DEFINE k == CHOOSE k \in DOMAIN tabs : tabs[k] = s
      <3>1. k \in DOMAIN tabs /\ tabs[k] = s
        BY <1>3 DEF ToSet
      <3> QED
        BY <1>3, <3>1 DEF Replace
    <2>2. /\ tabs' \in Seq(TabShells) /\ DOMAIN tabs' = DOMAIN tabs /\ tabs'[i] = Linux(s)
          /\ \A j \in DOMAIN tabs \ {i} : tabs'[j] = tabs[j] /\ tabs[j] # s
      BY <1>1, <2>1, ShellFacts DEF TabInv, OneTabEach
    <2>3. ToSet(tabs') = (ToSet(tabs) \ {s}) \union {Linux(s)}
      <3>1. ToSet(tabs') \subseteq (ToSet(tabs) \ {s}) \union {Linux(s)}
        BY <2>1, <2>2 DEF ToSet
      <3>2. (ToSet(tabs) \ {s}) \union {Linux(s)} \subseteq ToSet(tabs')
        BY <2>1, <2>2 DEF ToSet
      <3> QED
        BY <3>1, <3>2
    <2>4. Linux(s) \notin ToSet(tabs) /\ s <= shells
      BY <1>3 DEF TabInv, StartedTabs
    <2>5. running' = ToSet(tabs') /\ running' \in SUBSET TabShells
      BY <2>1, <2>3, ShellFacts DEF Run, TabInv, OnlyOpenTabsRun, TabTypes
    <2>6. active' = i /\ shown' = tabs'[i] /\ shown' \in TabShells /\ i \in Nat
      BY <1>1, <2>1, <2>2 DEF SwitchTo
    <2>7. TabTypes' /\ NoTabsWhenDead' /\ KeysGoToTheScreen' /\ OnlyOpenTabsRun'
      <3>1. alive
        BY <1>1, <2>1 DEF TabInv, NoTabsWhenDead
      <3> QED
        BY <2>1, <2>2, <2>5, <2>6, <3>1
        DEF TabInv, TabTypes, NoTabsWhenDead, KeysGoToTheScreen, OnlyOpenTabsRun
    <2>8. OneTabEach'
      <3>1. \A j \in DOMAIN tabs : tabs[j] # Linux(s)
        BY <2>4 DEF ToSet
      <3> QED
        BY <2>2, <3>1 DEF TabInv, OneTabEach
    <2>9. StartedTabs'
      <3> SUFFICES ASSUME NEW u \in Locals
                   PROVE  /\ u \in ToSet(tabs') \/ Linux(u) \in ToSet(tabs') => u <= shells'
                          /\ ~ (u \in ToSet(tabs') /\ Linux(u) \in ToSet(tabs'))
        BY DEF StartedTabs
      <3>1. u \in ToSet(tabs') => u \in ToSet(tabs) /\ u # s
        BY <2>3, ShellFacts
      <3>2. Linux(u) \in ToSet(tabs') => Linux(u) \in ToSet(tabs) \/ u = s
        BY <2>3, ShellFacts
      <3>3. shells' = shells
        BY <2>1
      <3> QED
        BY <2>4, <3>1, <3>2, <3>3 DEF TabInv, StartedTabs
    <2> QED
      BY <2>7, <2>8, <2>9 DEF TabInv
  <1> QED
    BY <1>2, <1>3

\* onDestroy, and a tap on a tab.
LEMMA DestroyStep == ASSUME TabInv, Destroy PROVE TabInv'
  <1>1. tabs' = << >> /\ DOMAIN tabs' = {} /\ ToSet(tabs') = {} /\ tabs' \in Seq(TabShells)
    BY DEF Destroy, ToSet
  <1>2. running' = {}
    BY DEF Destroy, Run, TabInv, OnlyOpenTabsRun
  <1> QED
    BY <1>1, <1>2 DEF Destroy, threads, install, setup, TabInv, TabTypes, NoTabsWhenDead, OneTabEach,
                      StartedTabs, KeysGoToTheScreen, OnlyOpenTabsRun

LEMMA TapStep == ASSUME TabInv, NEW i \in DOMAIN tabs, Tap(i) PROVE TabInv'
  <1>1. i \in Nat /\ tabs[i] \in TabShells
    BY DEF TabInv, TabTypes
  <1> QED
    BY <1>1 DEF Tap, SwitchTo, threads, install, setup, TabInv, TabTypes, NoTabsWhenDead, OneTabEach,
                StartedTabs, KeysGoToTheScreen, OnlyOpenTabsRun

\* What leaves the tabs and their shells alone.
LEMMA OtherSteps ==
  ASSUME TabInv, UNCHANGED <<launch, alive, tabs, active, shown, shells, running>>,
         startup' \in {"import", "imported", "ready", "failed"},
         installed' \in BOOLEAN, setupDone' \in BOOLEAN
  PROVE  TabInv'
  BY DEF TabInv, TabTypes, NoTabsWhenDead, OneTabEach, StartedTabs, KeysGoToTheScreen, OnlyOpenTabsRun

-----------------------------------------------------------------------------
(* Every step, and what follows.                                           *)

\* The user: launches, tabs, and the confirmation of linux-setup.
LEMMA UserSteps == ASSUME TabInv, User PROVE TabInv'
  <1> USE DEF threads, install, setup
  <1>1. CASE Launch
    <2>1. tabs = << >> /\ ToSet(tabs) = {} /\ DOMAIN tabs = {} /\ tabs \in Seq(TabShells)
          /\ running = {}
      BY <1>1 DEF Launch, TabInv, NoTabsWhenDead, OnlyOpenTabsRun, ToSet
    <2>2. Fresh \in TabShells
      BY <1>1, ActivityAssumption DEF Launch, Started, Fresh, TabShells, Locals, TabInv, TabTypes
    <2>3. tabs' = Append(tabs, Fresh) /\ Len(tabs') = 1
      BY <1>1, <2>1, <2>2 DEF Launch
    <2>4. launch' \in 0 .. MaxLaunches
      BY <1>1, ActivityAssumption DEF Launch, TabInv, TabTypes
    <2>5. /\ Started /\ SwitchTo(tabs', Len(tabs')) /\ Run({}, {Fresh}) /\ alive' = TRUE
          /\ startup' \in {"import", "imported", "ready", "failed"}
          /\ installed' \in BOOLEAN /\ setupDone' \in BOOLEAN
      BY <1>1, <2>3 DEF Launch, TabInv, TabTypes
    <2> QED
      BY <2>1, <2>3, <2>4, <2>5, Opens
  <1>2. CASE NewTab
    <2>1. tabs \in Seq(TabShells) /\ \A i, j \in DOMAIN tabs : tabs[i] = tabs[j] => i = j
      BY DEF TabInv, TabTypes, OneTabEach
    <2>2. /\ Started /\ tabs' = Append(tabs, Fresh) /\ SwitchTo(tabs', Len(tabs'))
          /\ Run({}, {Fresh}) /\ alive' = TRUE /\ launch' \in 0 .. MaxLaunches
          /\ startup' \in {"import", "imported", "ready", "failed"}
          /\ installed' \in BOOLEAN /\ setupDone' \in BOOLEAN
      BY <1>2 DEF NewTab, CreateIn, TabInv, TabTypes
    <2>3. running \ {} = ToSet(tabs)
      BY DEF TabInv, OnlyOpenTabsRun
    <2> QED
      BY <2>1, <2>2, <2>3, Opens
  <1>3. ASSUME NEW i \in DOMAIN tabs, Close(i) PROVE TabInv'
    <2> DEFINE others == RemoveAt(tabs, i)
    <2>0. alive = TRUE
      BY DEF TabInv, TabTypes, NoTabsWhenDead
    <2>1. CASE others = << >>
      <3>1. others \in Seq(TabShells) /\ DOMAIN others = {} /\ ToSet(others) = {}
        BY <2>1 DEF ToSet
      <3>2. ToSet(others) = ToSet(tabs) \ {tabs[i]}
        BY <1>3, RemoveAtSet DEF TabInv, TabTypes, OneTabEach
      <3>3. /\ Started /\ tabs' = Append(others, Fresh) /\ SwitchTo(tabs', Len(tabs'))
            /\ Run({tabs[i]}, {Fresh}) /\ alive' = TRUE /\ launch' \in 0 .. MaxLaunches
            /\ startup' \in {"import", "imported", "ready", "failed"}
            /\ installed' \in BOOLEAN /\ setupDone' \in BOOLEAN
        BY <1>3, <2>0, <2>1 DEF Close, CreateIn, TabInv, TabTypes
      <3>4. running \ {tabs[i]} = ToSet(others)
        BY <3>2 DEF TabInv, OnlyOpenTabsRun
      <3> HIDE DEF others
      <3> QED
        BY <3>1, <3>3, <3>4, Opens
    <2>2. CASE others # << >>
      BY <1>3, <2>0, <2>2, Closes DEF Close
    <2> QED
      BY <2>1, <2>2
  <1>4. ASSUME NEW s \in Locals, Confirm(s) PROVE TabInv'
    BY <1>4, OtherSteps DEF Confirm, ScriptStep, TabInv, TabTypes
  <1> QED
    BY <1>1, <1>2, <1>3, <1>4, DestroyStep, TapStep DEF User

LEMMA TabStepInv == TabInv /\ [ActivityNext]_activityVars => TabInv'
  <1> SUFFICES ASSUME TabInv, [ActivityNext]_activityVars PROVE TabInv'
    OBVIOUS
  <1> USE DEF screen, threads, install, setup
  <1>1. CASE Import \/ OnReady
    BY <1>1, OtherSteps DEF Import, OnReady, TabInv, TabTypes
  <1>2. ASSUME NEW s \in Locals, Posted(s) PROVE TabInv'
    <2>1. CASE OnTitle(s)
      BY <2>1, OtherSteps DEF OnTitle, TabInv, TabTypes
    <2>2. CASE OpenLinux(s)
      BY <2>2, Replaces DEF OpenLinux, TabInv, TabTypes
    <2>3. ASSUME NEW why, Promote(s, why) PROVE TabInv'
      <3>1. Replace(s) \/ UNCHANGED screen
        BY <2>3 DEF Promote
      <3>2. UNCHANGED <<launch, alive, startup, installed, setupDone>>
        BY <2>3 DEF Promote
      <3>3. CASE Replace(s)
        BY <3>2, <3>3, Replaces DEF TabInv, TabTypes
      <3>4. CASE UNCHANGED screen
        BY <3>2, <3>4, OtherSteps DEF TabInv, TabTypes
      <3> QED
        BY <3>1, <3>3, <3>4
    <2> QED
      BY <1>2, <2>1, <2>2, <2>3 DEF Posted
  <1>3. ASSUME NEW s \in Locals, Script(s) PROVE TabInv'
    BY <1>3, OtherSteps
    DEF Script, Title, SeeMarker, RemoveMarker, ScriptStep, TabInv, TabTypes
  <1>4. ASSUME NEW s \in Locals, NEW why, Detect(s, why) PROVE TabInv'
    BY <1>4, OtherSteps DEF Detect, TabInv, TabTypes
  <1>5. ASSUME NEW l \in Launches, Installs(l) PROVE TabInv'
    BY <1>5, OtherSteps DEF Installs, Install, InstallFails, Mark, Clear, InstallStep, TabInv, TabTypes
  <1>6. CASE UNCHANGED activityVars
    BY <1>6, OtherSteps DEF activityVars, TabInv, TabTypes
  <1> QED
    BY <1>1, <1>2, <1>3, <1>4, <1>5, <1>6, UserSteps DEF ActivityNext, ActivityRest

LEMMA TabInvariance == ActivitySpec => []TabInv
  BY TabInitInv, TabStepInv, PTL DEF ActivitySpec

\* Whatever lookups and installations post, and however tabs are opened, closed
\* and chosen meanwhile: while the activity lives, the shell on the screen is
\* that of the active tab, which is open (switchToSession, closeSession,
\* replaceSessionWithLinuxAt).
THEOREM ScreenFollowsTab == ActivitySpec => []KeysGoToTheScreen
  <1>1. TabInv => KeysGoToTheScreen
    BY DEF TabInv
  <1> QED
    BY TabInvariance, <1>1, PTL

\* Just the shells of open tabs run: no close, replacement or destroyed activity
\* leaves one behind, and no late thread starts one or finishes one that is
\* still open (closeSession, onDestroy, launchLinuxSession).
THEOREM NoShellAstray == ActivitySpec => []OnlyOpenTabsRun
  <1>1. TabInv => OnlyOpenTabsRun
    BY DEF TabInv
  <1> QED
    BY TabInvariance, <1>1, PTL

-----------------------------------------------------------------------------
(***************************************************************************)
(* What holds of the line editor for any text, any length of the history   *)
(* and any number of keys: it implements KeyEditor.                        *)
(*                                                                         *)
(* In the middle of a key the escape state tells how far it has come       *)
(* (Midway), so that each character but the last changes nothing that the  *)
(* user sees, and the last does what the key is for.  The position counts  *)
(* from the other end in KeyEditor, which needs that it is one of the      *)
(* history, and the history no longer than its limit (History).            *)
(***************************************************************************)

\* What is left of a key, and the escape state meanwhile.
Midway ==
  \/ doing = "Up" /\ <<esc, left>> \in {<<"esc", <<"[", "A">>>>, <<"csi", <<"A">>>>}
  \/ doing = "Down" /\ <<esc, left>> \in {<<"esc", <<"[", "B">>>>, <<"csi", <<"B">>>>}
  \/ /\ doing = "Up in application mode"
     /\ <<esc, left>> \in {<<"esc", <<"O", "A">>>>, <<"ss3", <<"A">>>>}
  \/ /\ doing = "Ctrl+Up"
     /\ <<esc, left>> \in
          {<<"esc", <<"[", "1", ";", "5", "A">>>>, <<"csi", <<"1", ";", "5", "A">>>>,
           <<"csi", <<";", "5", "A">>>>, <<"csi", <<"5", "A">>>>, <<"csi", <<"A">>>>}
  \/ /\ doing = "Delete"
     /\ <<esc, left>> \in
          {<<"esc", <<"[", "3", "~">>>>, <<"csi", <<"3", "~">>>>, <<"csi", <<"~">>>>}
  \/ doing = "Alt+letter" /\ esc = "esc" /\ left = <<"x">>

Texts == Seq(Letters)

History ==
  /\ buffer \in Texts /\ stash \in Texts /\ busy \in BOOLEAN
  /\ history \in Seq(Texts) /\ Len(history) <= Limit /\ index \in 0 .. Len(history)

KeyInv == History /\ IF doing = "none" THEN esc = "" /\ left = << >> ELSE Midway

Shown  == <<buffer, history, index, stash>>
Unseen == UNCHANGED Shown /\ UNCHANGED <<key, busy>>

Place == IF index = 0 THEN 0 ELSE Len(history) + 1 - index

\* The characters of text and of each key.
LEMMA Keystrokes ==
  /\ \A k \in Letters : Characters(k) = <<k>> /\ k \notin SpecialKeys /\ k \notin {"ESC", "DEL", "CR", "ETX", "none"}
  /\ Characters("Backspace") = <<"DEL">> /\ Characters("Enter") = <<"CR">>
  /\ Characters("Ctrl+C") = <<"ETX">> /\ Characters("Up") = <<"ESC", "[", "A">>
  /\ Characters("Down") = <<"ESC", "[", "B">>
  /\ Characters("Up in application mode") = <<"ESC", "O", "A">>
  /\ Characters("Ctrl+Up") = <<"ESC", "[", "1", ";", "5", "A">>
  /\ Characters("Delete") = <<"ESC", "[", "3", "~">>
  /\ Characters("Alt+letter") = <<"ESC", "x">>
<1>0. \A k \in SpecialKeys : k \notin Letters
  BY LettersAssumption
<1>1. \A k \in Letters : Characters(k) = <<k>> /\ k \notin SpecialKeys /\ k \notin {"ESC", "DEL", "CR", "ETX", "none"}
  BY LettersAssumption DEF Characters, SpecialKeys
<1>2. /\ Characters("Backspace") = <<"DEL">> /\ Characters("Enter") = <<"CR">>
      /\ Characters("Ctrl+C") = <<"ETX">> /\ Characters("Up") = <<"ESC", "[", "A">>
      /\ Characters("Down") = <<"ESC", "[", "B">>
  BY <1>0 DEF Characters, SpecialKeys
<1>3. /\ Characters("Up in application mode") = <<"ESC", "O", "A">>
      /\ Characters("Ctrl+Up") = <<"ESC", "[", "1", ";", "5", "A">>
      /\ Characters("Delete") = <<"ESC", "[", "3", "~">>
      /\ Characters("Alt+letter") = <<"ESC", "x">>
  BY <1>0 DEF Characters, SpecialKeys
<1> QED
  BY <1>1, <1>2, <1>3

\* A step through the history is Up or Down of KeyEditor.
LEMMA HistorySteps ==
  ASSUME History, UNCHANGED history, NEW d \in {-1, 1}, HistoryStep(d)
  PROVE  /\ IF d = -1 THEN Editor!Up ELSE Editor!Down
         /\ buffer' \in Texts /\ stash' \in Texts /\ index' \in 0 .. Len(history)
<1>0. Len(history) \in Nat /\ (history = << >> <=> Len(history) = 0)
  BY DEF History
<1>00. history' = history /\ Len(history') = Len(history)
  OBVIOUS
<1>1. \A i \in 1 .. Len(history) : history[i] \in Texts
  BY DEF History
<1>2. CASE busy \/ history = << >> \/ (index = 0 /\ d = 1)
  <2>1. UNCHANGED <<buffer, index, stash>>
    BY <1>2 DEF HistoryStep
  <2> QED
    BY <2>1, <1>2, <1>0 DEF History, Editor!Up, Editor!Down, Editor!Stay
<1>3. CASE ~ busy /\ history # << >> /\ ~ (index = 0 /\ d = 1)
  <2> DEFINE from == IF index = 0 THEN Len(history) + 1 ELSE index
             to   == from + d
  <2>1. /\ stash' = (IF index = 0 THEN buffer ELSE stash)
        /\ IF to > Len(history) THEN index' = 0 /\ buffer' = stash'
           ELSE index' = (IF to < 1 THEN 1 ELSE to) /\ buffer' = history[index']
    BY <1>3 DEF HistoryStep, ReplaceLine
  <2>2. index \in 0 .. Len(history) /\ Len(history) >= 1
    BY <1>3, <1>0 DEF History
  <2>3. buffer' \in Texts /\ stash' \in Texts /\ index' \in 0 .. Len(history)
    BY <2>1, <2>2, <1>0, <1>1 DEF History
  <2>4. CASE d = -1
    <3>1. /\ index' = IF index = 0 THEN Len(history) ELSE IF index = 1 THEN 1 ELSE index - 1
          /\ buffer' = history[index']
      BY <2>1, <2>2, <2>4, <1>0
    <3>2. Editor!Older
      <4>1. /\ index' \in 1 .. Len(history) /\ Place' = Len(history) + 1 - index'
            /\ Place' = IF Place < Len(history) THEN Place + 1 ELSE Place
            /\ Len(history) + 1 - Place' = index' /\ (Place = 0 <=> index = 0)
        <5>1. Place' = IF index' = 0 THEN 0 ELSE Len(history) + 1 - index'
          BY <1>00 DEF Place
        <5>2. index \in Nat /\ index <= Len(history)
          BY <2>2, <1>0
        <5>3. CASE index = 0
          BY <5>1, <5>3, <3>1, <2>2, <1>0, <1>00 DEF Place
        <5>4. CASE index = 1
          BY <5>1, <5>4, <3>1, <2>2, <1>0, <1>00 DEF Place
        <5>5. CASE index > 1
          <6>1. index' = index - 1 /\ index # 0 /\ index' # 0
            BY <5>2, <5>5, <3>1
          <6>2. Place = Len(history) + 1 - index /\ Place' = Len(history) + 1 - index'
            BY <5>1, <6>1 DEF Place
          <6> QED
            BY <5>2, <5>5, <6>1, <6>2, <1>0
        <5> QED
          BY <5>2, <5>3, <5>4, <5>5
      <4> QED
        BY <4>1, <3>1, <2>1 DEF Editor!Older, Place
    <3> QED
      BY <3>2, <2>3, <2>4, <1>3 DEF Editor!Up
  <2>5. CASE d = 1
    <3>1. /\ index > 0 /\ stash' = stash
          /\ index' = (IF index = Len(history) THEN 0 ELSE index + 1)
          /\ buffer' = IF index' = 0 THEN stash ELSE history[index']
      BY <2>1, <2>2, <2>5, <1>3, <1>0
    <3>2. Editor!Newer
      <4>1. /\ Place > 0 /\ Place' = Place - 1 /\ (Place' = 0 <=> index' = 0)
            /\ index' # 0 => Len(history) + 1 - Place' = index'
        <5>1. Place' = IF index' = 0 THEN 0 ELSE Len(history) + 1 - index'
          BY <1>00 DEF Place
        <5>2. index \in Nat /\ index <= Len(history)
          BY <2>2, <1>0
        <5>3. CASE index = Len(history)
          BY <5>1, <5>2, <5>3, <3>1, <2>2, <1>0, <1>00 DEF Place
        <5>4. CASE index < Len(history)
          <6>1. index' = index + 1 /\ index # 0 /\ index' # 0
            BY <5>2, <5>4, <3>1, <1>0
          <6>2. Place = Len(history) + 1 - index /\ Place' = Len(history) + 1 - index'
            BY <5>1, <6>1 DEF Place
          <6> QED
            BY <5>2, <5>4, <6>1, <6>2, <1>0
        <5> QED
          BY <5>2, <5>3, <5>4, <1>0
      <4> QED
        BY <4>1, <3>1 DEF Editor!Newer, Place
    <3> QED
      BY <3>1, <3>2, <2>2, <2>3, <2>5, <1>3, <1>0 DEF Editor!Down
  <2> QED
    BY <2>4, <2>5
<1> QED
  BY <1>2, <1>3

\* Enter empties the line and remembers it.
LEMMA EnterRefines ==
  ASSUME History, SubmitLine(buffer), buffer' = << >>, UNCHANGED stash
  PROVE  Editor!Enter /\ history' \in Seq(Texts) /\ Len(history') <= Limit /\ index' \in 0 .. Len(history')
<1>0. Len(history) \in Nat /\ (history = << >> <=> Len(history) = 0) /\ Limit \in Nat \ {0}
  BY LimitAssumption DEF History
<1>1. CASE busy \/ buffer = << >>
  BY <1>1, <1>0 DEF SubmitLine, History, Editor!Enter
<1>2. CASE ~ busy /\ buffer # << >>
  <2>1. /\ index' = 0
        /\ history' = IF history # << >> /\ Last(history) = buffer THEN history
                      ELSE SubSeq(Append(history, buffer),
                                  IF Len(Append(history, buffer)) > Limit THEN Len(Append(history, buffer)) - Limit + 1 ELSE 1,
                                  Len(Append(history, buffer)))
    BY <1>2 DEF SubmitLine, HistoryRecord
  <2>2. Editor!Last(history) = Last(history)
    BY DEF Editor!Last, Last
  <2>3. CASE history # << >> /\ Last(history) = buffer
    <3>1. history' = history
      BY <2>1, <2>3
    <3>2. Editor!Enter
      BY <3>1, <2>1, <2>2, <2>3, <1>2 DEF Editor!Enter
    <3> QED
      BY <3>1, <3>2, <2>1, <1>0 DEF History
  <2>4. CASE ~ (history # << >> /\ Last(history) = buffer)
    <3>1. Append(history, buffer) \in Seq(Texts) /\ Len(Append(history, buffer)) = Len(history) + 1
      BY DEF History
    <3>2. history' = IF Len(history) < Limit THEN Append(history, buffer) ELSE Append(Tail(history), buffer)
      <4>1. CASE Len(history) < Limit
        <5>1. history' = SubSeq(Append(history, buffer), 1, Len(Append(history, buffer)))
          <6>1. ~ Len(Append(history, buffer)) > Limit
            BY <3>1, <4>1, <1>0
          <6> QED
            BY <2>1, <2>4, <6>1
        <5>2. \A s \in Seq(Texts) : SubSeq(s, 1, Len(s)) = s
          OBVIOUS
        <5> QED
          BY <3>1, <4>1, <5>1, <5>2
      <4>2. CASE Len(history) >= Limit
        <5>1. Len(history) = Limit
          BY <4>2, <1>0 DEF History
        <5>2. history' = SubSeq(Append(history, buffer), 2, Len(history) + 1)
          BY <2>1, <2>4, <3>1, <5>1, <1>0
        <5>3. \A s \in Seq(Texts), e \in Texts : Len(s) > 0 =>
                 SubSeq(Append(s, e), 2, Len(s) + 1) = Append(Tail(s), e)
          OBVIOUS
        <5> QED
          BY <5>1, <5>2, <5>3, <1>0 DEF History
      <4> QED
        BY <4>1, <4>2, <1>0
    <3>3. history' \in Seq(Texts) /\ Len(history') <= Limit
      BY <3>1, <3>2, <1>0 DEF History
    <3>4. Editor!Enter
      BY <3>2, <2>1, <2>2, <2>4, <1>2 DEF Editor!Enter
    <3>5. Len(history') \in Nat
      BY <3>3
    <3> QED
      BY <3>3, <3>4, <3>5, <2>1, <1>0
  <2> QED
    BY <2>3, <2>4
<1> QED
  BY <1>1, <1>2

\* What each kind of character does.
LEMMA CharacterSteps ==
  ASSUME NEW c, HandleChar(c)
  PROVE  /\ esc = "" /\ c = "ESC" => esc' = "esc" /\ Idle
         /\ esc = "" /\ c # "ESC" => PlainChar(c)
         /\ esc = "esc" =>
              esc' = (IF c = "[" THEN "csi" ELSE IF c = "O" THEN "ss3" ELSE "") /\ Idle
         /\ esc \in {"ss3", "csi"} =>
              /\ esc' = (IF esc = "ss3" \/ c \in Final THEN "" ELSE esc)
              /\ c = "A" => Step(-1)
              /\ c = "B" => Step(1)
              /\ c \notin {"A", "B"} => Idle
<1>1. CASE esc = "" /\ c # "ESC"
  BY <1>1 DEF HandleChar
<1>2. CASE ~ (esc = "" /\ c # "ESC")
  <2>1. EscapeChar(c)
    BY <1>2 DEF HandleChar
  <2>2. esc = "" => esc' = "esc" /\ Idle
    BY <2>1 DEF EscapeChar
  <2>3. esc = "esc" => esc' = (IF c = "[" THEN "csi" ELSE IF c = "O" THEN "ss3" ELSE "") /\ Idle
    BY <2>1 DEF EscapeChar
  <2>4. ASSUME esc \in {"ss3", "csi"}
        PROVE  /\ esc' = (IF esc = "ss3" \/ c \in Final THEN "" ELSE esc)
               /\ c = "A" => Step(-1)
               /\ c = "B" => Step(1)
               /\ c \notin {"A", "B"} => Idle
    BY <2>1, <2>4 DEF EscapeChar
  <2> QED
    BY <1>2, <2>2, <2>3, <2>4
<1> QED
  BY <1>1, <1>2

\* What KeyEditor does for each key.
LEMMA Presses ==
  ASSUME UNCHANGED busy
  PROVE  /\ \A k \in Letters : key' = k /\ Editor!Type(k) => Editor!Press(k)
         /\ key' = "Backspace" /\ Editor!Erase => Editor!Press("Backspace")
         /\ key' = "Enter" /\ Editor!Enter => Editor!Press("Enter")
         /\ key' = "Ctrl+C" /\ Editor!Cancel => Editor!Press("Ctrl+C")
         /\ \A k \in {"Up", "Up in application mode", "Ctrl+Up"} :
              key' = k /\ Editor!Up => Editor!Press(k)
         /\ key' = "Down" /\ Editor!Down => Editor!Press("Down")
         /\ \A k \in {"Delete", "Alt+letter"} : key' = k /\ Editor!Stay => Editor!Press(k)
<1>1. \A k \in SpecialKeys : k \notin Letters
  BY LettersAssumption
<1>2. \A k \in Letters : key' = k /\ Editor!Type(k) => Editor!Press(k)
  BY <1>1 DEF Editor!Press, SpecialKeys
<1>3. /\ key' = "Backspace" /\ Editor!Erase => Editor!Press("Backspace")
      /\ key' = "Enter" /\ Editor!Enter => Editor!Press("Enter")
      /\ key' = "Ctrl+C" /\ Editor!Cancel => Editor!Press("Ctrl+C")
      /\ key' = "Down" /\ Editor!Down => Editor!Press("Down")
  BY <1>1 DEF Editor!Press, SpecialKeys
<1>4. \A k \in {"Up", "Up in application mode", "Ctrl+Up"} :
        key' = k /\ Editor!Up => Editor!Press(k)
  BY <1>1 DEF Editor!Press, SpecialKeys
<1>5. \A k \in {"Delete", "Alt+letter"} : key' = k /\ Editor!Stay => Editor!Press(k)
  BY <1>1 DEF Editor!Press, SpecialKeys
<1> QED
  BY <1>2, <1>3, <1>4, <1>5

\* A step that leaves the history alone.
LEMMA HistoryStays ==
  ASSUME History, UNCHANGED <<history, index, busy>>, buffer' \in Texts, stash' \in Texts
  PROVE  History'
<1>1. history' = history /\ index' = index /\ busy' = busy
  OBVIOUS
<1>2. Len(history') = Len(history)
  BY <1>1
<1>3. history' \in Seq(Texts) /\ Len(history') <= Limit /\ index' \in 0 .. Len(history')
  BY <1>1, <1>2, Zenon DEF History
<1> QED
  BY <1>1, <1>3, Zenon DEF History

\* A key of one character does at once what it is for.
LEMMA PlainKeys ==
  ASSUME KeyInv, NEW k \in Letters \union {"Backspace", "Enter", "Ctrl+C"}, PressKey(k)
  PROVE  KeyInv' /\ Editor!Press(k)
<1>1. /\ doing = "none" /\ esc = "" /\ left = << >> /\ UNCHANGED busy /\ History
      /\ HandleChar(Head(Characters(k))) /\ left' = Tail(Characters(k))
      /\ left' = << >> => doing' = "none" /\ key' = k
  BY DEF KeyInv, PressKey, Receive
<1> DEFINE c == Head(Characters(k))
<1>2. /\ left' = << >> /\ c # "ESC"
      /\ k \in Letters => c = k
      /\ k = "Backspace" => c = "DEL"
      /\ k = "Enter" => c = "CR"
      /\ k = "Ctrl+C" => c = "ETX"
  <2>1. \A x : Head(<<x>>) = x /\ Tail(<<x>>) = << >>
    OBVIOUS
  <2>2. CASE k \in Letters
    <3>1. Characters(k) = <<k>> /\ k \notin SpecialKeys /\ k # "ESC"
      BY <2>2, Keystrokes
    <3> QED
      BY <3>1, <2>1, <1>1 DEF SpecialKeys
  <2>3. CASE k = "Backspace"
    BY <2>1, <2>3, <1>1, Keystrokes
  <2>4. CASE k = "Enter"
    BY <2>1, <2>4, <1>1, Keystrokes
  <2>5. CASE k = "Ctrl+C"
    BY <2>1, <2>5, <1>1, Keystrokes
  <2> QED
    BY <2>2, <2>3, <2>4, <2>5
<1>3. doing' = "none" /\ key' = k
  BY <1>1, <1>2
<1>4. PlainChar(c)
  BY <1>1, <1>2, CharacterSteps
<1> HIDE DEF c
<1>11. buffer \in Seq(Letters) /\ stash \in Texts /\ busy' \in BOOLEAN /\ << >> \in Texts
  <2>1. << >> \in Seq(Letters)
    OBVIOUS
  <2> QED
    BY <2>1, <1>1 DEF History, Texts
<1>5. UNCHANGED esc
  BY <1>4 DEF PlainChar
<1>6. SUFFICES History' /\ Editor!Press(k)
  BY <1>1, <1>2, <1>3, <1>5 DEF KeyInv
<1>7. CASE k \in Letters
  <2>1. c = k /\ c \notin {"ETX", "DEL", "CR"}
    BY <1>2, <1>7, LettersAssumption
  <2>2. buffer' = Append(buffer, k) /\ UNCHANGED <<history, index, stash>>
    BY <1>4, <2>1 DEF PlainChar
  <2>3. History'
    <3>1. buffer' \in Texts /\ stash' \in Texts
      <4>1. Append(buffer, k) \in Seq(Letters)
        BY <1>7, <1>11
      <4> QED
        BY <4>1, <1>11, <2>2 DEF Texts
    <3> QED
      BY <1>1, <2>2, <3>1, HistoryStays
  <2>4. Editor!Type(k)
    BY <1>7, <2>2 DEF Editor!Type
  <2> QED
    BY <1>1, <1>3, <1>7, <2>3, <2>4, Presses
<1>8. CASE k = "Backspace"
  <2>1. /\ buffer' = (IF buffer = << >> THEN buffer ELSE Front(buffer))
        /\ UNCHANGED <<history, index, stash>>
    BY <1>2, <1>4, <1>8 DEF PlainChar
  <2>2. buffer' \in Texts
    <3>1. \A t \in Seq(Letters) : t # << >> => SubSeq(t, 1, Len(t) - 1) \in Seq(Letters)
      OBVIOUS
    <3> QED
      BY <1>1, <2>1, <3>1 DEF History, Texts, Front
  <2>3. History'
    <3>1. stash' \in Texts
      BY <1>1, <2>1 DEF History
    <3> QED
      BY <1>1, <2>1, <2>2, <3>1, HistoryStays
  <2>4. Editor!Erase
    BY <2>1 DEF Editor!Erase, Editor!Front, Front
  <2> QED
    BY <1>1, <1>3, <1>8, <2>3, <2>4, Presses
<1>9. CASE k = "Enter"
  <2>1. SubmitLine(buffer) /\ buffer' = << >> /\ UNCHANGED stash
    BY <1>2, <1>4, <1>9 DEF PlainChar
  <2>2. /\ Editor!Enter
        /\ history' \in Seq(Texts) /\ Len(history') <= Limit /\ index' \in 0 .. Len(history')
    BY <1>1, <2>1, EnterRefines
  <2>3. History'
    <3>1. buffer' \in Texts /\ stash' \in Texts /\ busy' \in BOOLEAN
      BY <1>11, <2>1
    <3> QED
      BY <2>2, <3>1 DEF History
  <2> QED
    BY <1>1, <1>3, <1>9, <2>2, <2>3, Presses
<1>10. CASE k = "Ctrl+C"
  <2>1. buffer' = << >> /\ UNCHANGED <<history, index, stash>>
    BY <1>2, <1>4, <1>10 DEF PlainChar
  <2>2. History'
    <3>1. buffer' \in Texts /\ stash' \in Texts
      BY <1>11, <2>1
    <3> QED
      BY <1>1, <2>1, <3>1, HistoryStays
  <2>3. Editor!Cancel
    BY <2>1 DEF Editor!Cancel
  <2> QED
    BY <1>1, <1>3, <1>10, <2>2, <2>3, Presses
<1> QED
  BY <1>7, <1>8, <1>9, <1>10

\* The longest key, character by character.
LEMMA CtrlUpTails ==
  /\ Head(<<"ESC", "[", "1", ";", "5", "A">>) = "ESC"
  /\ Tail(<<"ESC", "[", "1", ";", "5", "A">>) = <<"[", "1", ";", "5", "A">>
  /\ <<"[", "1", ";", "5", "A">> # << >>
  /\ Head(<<"[", "1", ";", "5", "A">>) = "["
  /\ Tail(<<"[", "1", ";", "5", "A">>) = <<"1", ";", "5", "A">>
  /\ <<"1", ";", "5", "A">> # << >>
  /\ Head(<<"1", ";", "5", "A">>) = "1"
  /\ Tail(<<"1", ";", "5", "A">>) = <<";", "5", "A">>
  /\ <<";", "5", "A">> # << >>
<1> DEFINE e == "ESC" l == "[" o == "1" s == ";" f == "5" a == "A"
<1> HIDE DEF e, l, o, s, f, a
<1>1. Head(<<e, l, o, s, f, a>>) = e /\ Tail(<<e, l, o, s, f, a>>) = <<l, o, s, f, a>> /\ <<l, o, s, f, a>> # << >>
  OBVIOUS
<1>2. Head(<<l, o, s, f, a>>) = l /\ Tail(<<l, o, s, f, a>>) = <<o, s, f, a>> /\ <<o, s, f, a>> # << >>
  OBVIOUS
<1>3. Head(<<o, s, f, a>>) = o /\ Tail(<<o, s, f, a>>) = <<s, f, a>> /\ <<s, f, a>> # << >>
  OBVIOUS
<1> QED
  BY <1>1, <1>2, <1>3, Zenon DEF e, l, o, s, f, a

LongKeys == SpecialKeys \ {"Backspace", "Enter", "Ctrl+C"}

\* The first character of any other key is ESC, and changes nothing seen.
LEMMA FirstCharacter ==
  ASSUME KeyInv, NEW k \in LongKeys, PressKey(k)
  PROVE  KeyInv' /\ Unseen
<1>1. /\ doing = "none" /\ esc = "" /\ UNCHANGED busy /\ History
      /\ HandleChar(Head(Characters(k))) /\ left' = Tail(Characters(k))
      /\ doing' = IF left' = << >> THEN "none" ELSE k
      /\ key' = IF left' = << >> THEN k ELSE key
  BY DEF KeyInv, PressKey, Receive
<1>2. /\ Head(Characters(k)) = "ESC" /\ left' # << >>
      /\ k = "Up" => left' = <<"[", "A">>
      /\ k = "Down" => left' = <<"[", "B">>
      /\ k = "Up in application mode" => left' = <<"O", "A">>
      /\ k = "Ctrl+Up" => left' = <<"[", "1", ";", "5", "A">>
      /\ k = "Delete" => left' = <<"[", "3", "~">>
      /\ k = "Alt+letter" => left' = <<"x">>
  <2>1. CASE k = "Up"
    <3>1. Head(<<"ESC", "[", "A">>) = "ESC" /\ Tail(<<"ESC", "[", "A">>) = <<"[", "A">> /\ <<"[", "A">> # << >>
      OBVIOUS
    <3> QED
      BY <2>1, <3>1, <1>1, Keystrokes
  <2>2. CASE k = "Down"
    <3>1. Head(<<"ESC", "[", "B">>) = "ESC" /\ Tail(<<"ESC", "[", "B">>) = <<"[", "B">> /\ <<"[", "B">> # << >>
      OBVIOUS
    <3> QED
      BY <2>2, <3>1, <1>1, Keystrokes
  <2>3. CASE k = "Up in application mode"
    <3>1. Head(<<"ESC", "O", "A">>) = "ESC" /\ Tail(<<"ESC", "O", "A">>) = <<"O", "A">> /\ <<"O", "A">> # << >>
      OBVIOUS
    <3> QED
      BY <2>3, <3>1, <1>1, Keystrokes
  <2>4. CASE k = "Ctrl+Up"
    <3>1. Head(<<"ESC", "[", "1", ";", "5", "A">>) = "ESC" /\ Tail(<<"ESC", "[", "1", ";", "5", "A">>) = <<"[", "1", ";", "5", "A">> /\ <<"[", "1", ";", "5", "A">> # << >>
      BY CtrlUpTails, Zenon
    <3> QED
      BY <2>4, <3>1, <1>1, Keystrokes
  <2>5. CASE k = "Delete"
    <3>1. Head(<<"ESC", "[", "3", "~">>) = "ESC" /\ Tail(<<"ESC", "[", "3", "~">>) = <<"[", "3", "~">> /\ <<"[", "3", "~">> # << >>
      OBVIOUS
    <3> QED
      BY <2>5, <3>1, <1>1, Keystrokes
  <2>6. CASE k = "Alt+letter"
    <3>1. Head(<<"ESC", "x">>) = "ESC" /\ Tail(<<"ESC", "x">>) = <<"x">> /\ <<"x">> # << >>
      OBVIOUS
    <3> QED
      BY <2>6, <3>1, <1>1, Keystrokes
  <2> QED
    BY <2>1, <2>2, <2>3, <2>4, <2>5, <2>6 DEF LongKeys, SpecialKeys
<1>3. esc' = "esc" /\ Idle /\ doing' = k /\ key' = key
  BY <1>1, <1>2, CharacterSteps
<1>4. Unseen /\ buffer' = buffer /\ stash' = stash
  BY <1>1, <1>3 DEF Unseen, Shown, Idle
<1>5. History'
  <2>1. buffer' \in Texts /\ stash' \in Texts
    BY <1>1, <1>4 DEF History
  <2> QED
    BY <1>1, <1>3, <2>1, HistoryStays DEF Idle
<1>6. Midway' /\ doing' # "none"
  BY <1>2, <1>3 DEF Midway, LongKeys, SpecialKeys
<1> QED
  BY <1>4, <1>5, <1>6 DEF KeyInv

\* A character in the middle of a key changes nothing seen, the last one does
\* what the key is for.
LEMMA NextCharacter ==
  ASSUME KeyInv, GoOn
  PROVE  KeyInv' /\ (Unseen \/ \E k \in Editor!Keys : Editor!Press(k))
<1> DEFINE c == Head(left)
<1>1. /\ doing # "none" /\ Midway /\ UNCHANGED busy /\ History
      /\ HandleChar(c) /\ left' = Tail(left)
      /\ doing' = IF left' = << >> THEN "none" ELSE doing
      /\ key' = IF left' = << >> THEN doing ELSE key
  BY DEF KeyInv, GoOn, Receive
<1>2. /\ esc = "esc" =>
           esc' = (IF c = "[" THEN "csi" ELSE IF c = "O" THEN "ss3" ELSE "") /\ Idle
      /\ esc \in {"ss3", "csi"} =>
           /\ esc' = (IF esc = "ss3" \/ c \in Final THEN "" ELSE esc)
           /\ c = "A" => Step(-1)
           /\ c = "B" => Step(1)
           /\ c \notin {"A", "B"} => Idle
  BY <1>1, CharacterSteps
<1>3. doing \in LongKeys
  BY <1>1 DEF Midway, LongKeys, SpecialKeys
<1>4. \/ /\ Idle /\ Midway' /\ doing' = doing /\ key' = key
      \/ /\ Idle /\ doing \in {"Delete", "Alt+letter"}
         /\ esc' = "" /\ left' = << >> /\ doing' = "none" /\ key' = doing
      \/ /\ Step(-1) /\ doing \in {"Up", "Up in application mode", "Ctrl+Up"}
         /\ esc' = "" /\ left' = << >> /\ doing' = "none" /\ key' = doing
      \/ /\ Step(1) /\ doing = "Down"
         /\ esc' = "" /\ left' = << >> /\ doing' = "none" /\ key' = doing
  <2>1. \A x, y : /\ Head(<<x>>) = x /\ Tail(<<x>>) = << >>
                  /\ Head(<<x, y>>) = x /\ Tail(<<x, y>>) = <<y>> /\ <<y>> # << >>
    OBVIOUS
  <2>2. CASE doing = "Up"
    <3>1. CASE esc = "esc" /\ left = <<"[", "A">>
      BY <1>1, <1>2, <2>1, <2>2, <3>1 DEF Midway
    <3>2. CASE esc = "csi" /\ left = <<"A">>
      BY <1>1, <1>2, <2>1, <2>2, <3>2 DEF Final
    <3> QED
      BY <1>1, <2>2, <3>1, <3>2 DEF Midway
  <2>3. CASE doing = "Down"
    <3>1. CASE esc = "esc" /\ left = <<"[", "B">>
      BY <1>1, <1>2, <2>1, <2>3, <3>1 DEF Midway
    <3>2. CASE esc = "csi" /\ left = <<"B">>
      BY <1>1, <1>2, <2>1, <2>3, <3>2 DEF Final
    <3> QED
      BY <1>1, <2>3, <3>1, <3>2 DEF Midway
  <2>4. CASE doing = "Up in application mode"
    <3>1. CASE esc = "esc" /\ left = <<"O", "A">>
      <4>1. c = "O" /\ left' = <<"A">> /\ left' # << >>
        BY <1>1, <3>1
      <4>2. Idle /\ esc' = "ss3" /\ doing' = doing /\ key' = key
        BY <1>1, <1>2, <3>1, <4>1
      <4> QED
        BY <2>4, <4>1, <4>2 DEF Midway
    <3>2. CASE esc = "ss3" /\ left = <<"A">>
      BY <1>1, <1>2, <2>1, <2>4, <3>2 DEF Final
    <3> QED
      BY <1>1, <2>4, <3>1, <3>2 DEF Midway
  <2>5. CASE doing = "Ctrl+Up"
    <3>1. CASE esc = "esc" /\ left = <<"[", "1", ";", "5", "A">>
      <4>1. c = "[" /\ left' = <<"1", ";", "5", "A">> /\ left' # << >>
        <5>1. Head(<<"[", "1", ";", "5", "A">>) = "[" /\ Tail(<<"[", "1", ";", "5", "A">>) = <<"1", ";", "5", "A">> /\ <<"1", ";", "5", "A">> # << >>
          BY CtrlUpTails, Zenon
        <5> QED
          BY <1>1, <3>1, <5>1
      <4> QED
        BY <1>1, <1>2, <2>5, <3>1, <4>1 DEF Midway
    <3>2. CASE esc = "csi" /\ left = <<"1", ";", "5", "A">>
      <4>1. c = "1" /\ left' = <<";", "5", "A">> /\ left' # << >>
        <5>1. Head(<<"1", ";", "5", "A">>) = "1" /\ Tail(<<"1", ";", "5", "A">>) = <<";", "5", "A">> /\ <<";", "5", "A">> # << >>
          BY CtrlUpTails, Zenon
        <5> QED
          BY <1>1, <3>2, <5>1
      <4> QED
        BY <1>1, <1>2, <2>5, <3>2, <4>1 DEF Midway, Final
    <3>3. CASE esc = "csi" /\ left = <<";", "5", "A">>
      <4>1. c = ";" /\ left' = <<"5", "A">> /\ left' # << >>
        <5>1. Head(<<";", "5", "A">>) = ";" /\ Tail(<<";", "5", "A">>) = <<"5", "A">> /\ <<"5", "A">> # << >>
          OBVIOUS
        <5> QED
          BY <1>1, <3>3, <5>1
      <4> QED
        BY <1>1, <1>2, <2>5, <3>3, <4>1 DEF Midway, Final
    <3>4. CASE esc = "csi" /\ left = <<"5", "A">>
      <4>1. c = "5" /\ left' = <<"A">> /\ left' # << >>
        BY <1>1, <3>4
      <4> QED
        BY <1>1, <1>2, <2>5, <3>4, <4>1 DEF Midway, Final
    <3>5. CASE esc = "csi" /\ left = <<"A">>
      BY <1>1, <1>2, <2>1, <2>5, <3>5 DEF Final
    <3> QED
      BY <1>1, <2>5, <3>1, <3>2, <3>3, <3>4, <3>5 DEF Midway
  <2>6. CASE doing = "Delete"
    <3>1. CASE esc = "esc" /\ left = <<"[", "3", "~">>
      <4>1. c = "[" /\ left' = <<"3", "~">> /\ left' # << >>
        BY <1>1, <3>1
      <4> QED
        BY <1>1, <1>2, <2>6, <3>1, <4>1 DEF Midway
    <3>2. CASE esc = "csi" /\ left = <<"3", "~">>
      <4>1. c = "3" /\ left' = <<"~">> /\ left' # << >>
        BY <1>1, <3>2
      <4> QED
        BY <1>1, <1>2, <2>6, <3>2, <4>1 DEF Midway, Final
    <3>3. CASE esc = "csi" /\ left = <<"~">>
      BY <1>1, <1>2, <2>1, <2>6, <3>3 DEF Final
    <3> QED
      BY <1>1, <2>6, <3>1, <3>2, <3>3 DEF Midway
  <2>7. CASE doing = "Alt+letter"
    <3>1. esc = "esc" /\ left = <<"x">>
      BY <1>1, <2>7 DEF Midway
    <3> QED
      BY <1>1, <1>2, <2>1, <2>7, <3>1
  <2> QED
    BY <1>3, <2>2, <2>3, <2>4, <2>5, <2>6, <2>7 DEF LongKeys, SpecialKeys
<1>5. LongKeys \subseteq Editor!Keys
  BY DEF LongKeys, SpecialKeys, Editor!Keys
<1> HIDE DEF c
<1>6. ASSUME Idle
      PROVE  History' /\ Editor!Stay /\ UNCHANGED Shown
  <2>1. buffer' \in Texts /\ stash' \in Texts
    BY <1>1, <1>6 DEF History, Idle
  <2>2. History'
    BY <1>1, <1>6, <2>1, HistoryStays DEF Idle
  <2> QED
    BY <1>6, <2>2 DEF Idle, Editor!Stay, Shown
<1>7. ASSUME NEW d \in {-1, 1}, Step(d), doing \in (IF d = -1 THEN {"Up", "Up in application mode", "Ctrl+Up"} ELSE {"Down"}),
             esc' = "", left' = << >>, doing' = "none", key' = doing
      PROVE  KeyInv' /\ \E k \in Editor!Keys : Editor!Press(k)
  <2>1. /\ IF d = -1 THEN Editor!Up ELSE Editor!Down
        /\ buffer' \in Texts /\ stash' \in Texts /\ index' \in 0 .. Len(history)
    BY <1>1, <1>7, HistorySteps DEF Step
  <2>2. History'
    <3>1. history' = history /\ busy' = busy
      BY <1>1, <1>7 DEF Step
    <3>2. Len(history') = Len(history)
      BY <3>1
    <3> QED
      BY <1>1, <2>1, <3>1, <3>2, Zenon DEF History
  <2>3. Editor!Press(doing)
    BY <1>1, <1>7, <2>1, Presses
  <2> QED
    BY <1>3, <1>5, <1>7, <2>2, <2>3 DEF KeyInv
<1>8. CASE Idle /\ Midway' /\ doing' = doing /\ key' = key
  BY <1>1, <1>6, <1>8 DEF KeyInv, Unseen
<1>9. CASE /\ Idle /\ doing \in {"Delete", "Alt+letter"}
           /\ esc' = "" /\ left' = << >> /\ doing' = "none" /\ key' = doing
  <2>1. Editor!Press(doing)
    BY <1>1, <1>6, <1>9, Presses
  <2> QED
    BY <1>3, <1>5, <1>6, <1>9, <2>1 DEF KeyInv
<1>10. CASE /\ Step(-1) /\ doing \in {"Up", "Up in application mode", "Ctrl+Up"}
            /\ esc' = "" /\ left' = << >> /\ doing' = "none" /\ key' = doing
  <2>1. -1 \in {-1, 1}
    OBVIOUS
  <2> QED
    BY <1>7, <1>10, <2>1
<1>11. CASE /\ Step(1) /\ doing = "Down"
            /\ esc' = "" /\ left' = << >> /\ doing' = "none" /\ key' = doing
  <2>1. 1 \in {-1, 1} /\ 1 # -1
    OBVIOUS
  <2> QED
    BY <1>7, <1>11, <2>1
<1> QED
  BY <1>4, <1>8, <1>9, <1>10, <1>11

\* A command begins or ends in the middle of a key, or nothing happens.
LEMMA HistoryKept ==
  ASSUME History, UNCHANGED <<buffer, history, index, stash>>, busy' \in BOOLEAN
  PROVE  History'
<1>1. buffer' = buffer /\ stash' = stash /\ history' = history /\ index' = index
  OBVIOUS
<1> QED
  BY <1>1, Zenon DEF History

LEMMA RestKeeps ==
  ASSUME KeyInv, UNCHANGED <<buffer, history, index, stash, busy, esc, key, doing, left>>
  PROVE  KeyInv' /\ Unseen
<1>1. History' /\ Unseen
  BY HistoryKept DEF KeyInv, History, Unseen, Shown
<1>2. Midway => Midway'
  BY DEF Midway
<1> QED
  BY <1>1, <1>2 DEF KeyInv

\* Every step keeps the invariant, and is one of KeyEditor or nothing seen.
LEMMA KeyStep ==
  ASSUME KeyInv, EditorNext
  PROVE  KeyInv' /\ (Unseen \/ Editor!Next)
<1>1. ASSUME NEW k \in Letters \union SpecialKeys, PressKey(k)
      PROVE  KeyInv' /\ (Unseen \/ Editor!Next)
  <2>1. CASE k \in Letters \union {"Backspace", "Enter", "Ctrl+C"}
    <3>1. k \in Editor!Keys
      BY <2>1 DEF Editor!Keys
    <3> QED
      BY <1>1, <2>1, <3>1, PlainKeys DEF Editor!Next
  <2>2. CASE k \in LongKeys
    BY <1>1, <2>2, FirstCharacter
  <2> QED
    BY <2>1, <2>2 DEF LongKeys
<1>2. CASE GoOn
  BY <1>2, NextCharacter DEF Editor!Next
<1>3. CASE BeginCommand \/ EndCommand
  <2>1. /\ busy' \in BOOLEAN /\ UNCHANGED <<buffer, history, index, stash, esc, key, doing, left>>
    BY <1>3 DEF BeginCommand, EndCommand
  <2>2. Editor!Run
    BY <2>1 DEF Editor!Run
  <2>3. History'
    BY <2>1, HistoryKept DEF KeyInv
  <2>4. Midway => Midway'
    BY <2>1 DEF Midway
  <2>5. KeyInv'
    BY <2>1, <2>3, <2>4 DEF KeyInv
  <2> QED
    BY <2>2, <2>5 DEF Editor!Next
<1>4. CASE EditorRest
  <2>1. UNCHANGED <<buffer, history, index, stash, busy, esc, key, doing, left>>
    BY <1>4 DEF EditorRest, editorVars
  <2> QED
    BY <2>1, RestKeeps
<1> QED
  BY <1>1, <1>2, <1>3, <1>4 DEF EditorNext

\* The editor does for each key what KeyEditor says, in the step that takes its
\* last character and wherever commands begin and end, for any text, history
\* and number of keys.
THEOREM EditorHasKeys == EditorSpec => ImplementsKeys
<1>1. EditorInit => KeyInv /\ Editor!Init
  <2>1. << >> \in Seq(Letters) /\ << >> \in Seq(Texts) /\ Len(<< >>) = 0
    OBVIOUS
  <2>2. 0 \in 0 .. 0 /\ 0 <= Limit
    BY LimitAssumption
  <2> QED
    BY <2>1, <2>2 DEF EditorInit, KeyInv, History, Texts, Editor!Init
<1>2. KeyInv /\ [EditorNext]_editorVars
        => KeyInv' /\ [Editor!Next]_<<key, buffer, history, Place, stash, busy>>
  <2> SUFFICES ASSUME KeyInv, [EditorNext]_editorVars
               PROVE  KeyInv' /\ [Editor!Next]_<<key, buffer, history, Place, stash, busy>>
    OBVIOUS
  <2>1. KeyInv' /\ (Unseen \/ Editor!Next)
    <3>1. CASE EditorNext
      BY <3>1, KeyStep
    <3>2. CASE UNCHANGED editorVars
      <4>1. UNCHANGED <<buffer, history, index, stash, busy, esc, key, doing, left>>
        BY <3>2 DEF editorVars
      <4> QED
        BY <4>1, RestKeeps
    <3> QED
      BY <3>1, <3>2
  <2>2. Unseen => UNCHANGED <<key, buffer, history, Place, stash, busy>>
    BY DEF Unseen, Shown, Place
  <2> QED
    BY <2>1, <2>2
<1> QED
  BY <1>1, <1>2, PTL DEF EditorSpec, ImplementsKeys, Editor!Spec, Place

-----------------------------------------------------------------------------
(***************************************************************************)
(* The filter of the output, one loop turn after another, against Plain,   *)
(* which sees the whole stream at once.                                    *)
(*                                                                         *)
(* The stream has a part that is done with, up to a, and the part that is  *)
(* yet to be filtered (FilterFollows).  No control that begins in the      *)
(* first part, whole or cut short by the end of what was read, reaches     *)
(* over a (Settled): this is what the filter needs the part kept back for, *)
(* for what comes later cannot then change what was let through.  And what *)
(* came through is the bytes up to a that no control covers, in order      *)
(* (Through).  That the first byte of a control occurs in it but once      *)
(* says that controls do not overlap, so the place after one is settled.   *)
(***************************************************************************)

Width == Len(Control)

\* A control begins at i of s, whole or cut short by the end of s.
Begun(s, i) == \A k \in 1 .. Width : i + k - 1 <= Len(s) => s[i + k - 1] = Control[k]

\* What begins up to a is over at a: the filter need not go back.
Settled(s, a) == \A i \in 1 .. a : Begun(s, i) => i + Width - 1 <= a

\* d is what of s up to a is not covered, in order: f says where it stood.
Through(d, s, a) ==
  \E f \in [1 .. Len(d) -> Nat] :
    /\ \A m, n \in 1 .. Len(d) : m < n => f[m] < f[n]
    /\ \A n \in 1 .. Len(d) : f[n] \in 1 .. a /\ f[n] \notin Covered(s) /\ d[n] = s[f[n]]
    /\ \A p \in 1 .. a : p \notin Covered(s) => \E n \in 1 .. Len(d) : f[n] = p

LEMMA WidthType ==
  /\ Control \in Seq(Bytes) /\ Width \in Nat /\ Width >= 1
  /\ \A i \in 2 .. Width : Control[i] # Control[1]
<1>1. Control \in Seq(Bytes) /\ Control # << >>
  BY ControlAssumption
<1>2. Width \in Nat /\ Width # 0
  BY <1>1, EmptySeq DEF Width
<1> QED
  BY <1>1, <1>2, ControlAssumption DEF Width

\* Equality of a part of a sequence with a part of another, byte by byte.
LEMMA SameParts ==
  ASSUME NEW s \in Seq(Bytes), NEW t \in Seq(Bytes), NEW i \in Nat, NEW n \in Nat,
         i >= 1, i + n - 1 <= Len(s), n <= Len(t)
  PROVE  SubSeq(s, i, i + n - 1) = SubSeq(t, 1, n) <=> \A k \in 1 .. n : s[i + k - 1] = t[k]
<1> DEFINE u == SubSeq(s, i, i + n - 1)
           v == SubSeq(t, 1, n)
<1>0. Len(s) \in Nat /\ Len(t) \in Nat
  BY LenProperties
<1>1. (\A j \in i .. i + n - 1 : s[j] \in Bytes) /\ (\A j \in 1 .. n : t[j] \in Bytes)
  BY <1>0, ElementOfSeq
<1>2. /\ u \in Seq(Bytes) /\ Len(u) = n
      /\ \A k \in 1 .. n : u[k] = s[i + k - 1]
  <2>1. i \in Int /\ i + n - 1 \in Int
    OBVIOUS
  <2>2. /\ u \in Seq(Bytes) /\ Len(u) = (IF i <= i + n - 1 THEN (i + n - 1) - i + 1 ELSE 0)
        /\ \A k \in 1 .. (i + n - 1) - i + 1 : u[k] = s[i + k - 1]
    BY <1>1, <2>1, SubSeqProperties
  <2> QED
    BY <2>2
<1>3. /\ v \in Seq(Bytes) /\ Len(v) = n
      /\ \A k \in 1 .. n : v[k] = t[k]
  <2>2. /\ v \in Seq(Bytes) /\ Len(v) = (IF 1 <= n THEN n - 1 + 1 ELSE 0)
        /\ \A k \in 1 .. n - 1 + 1 : v[k] = t[1 + k - 1]
    BY <1>1, SubSeqProperties
  <2> QED
    BY <2>2
<1> HIDE DEF u, v
<1>4. u = v <=> \A k \in 1 .. n : u[k] = v[k]
  BY <1>2, <1>3, SeqEqual
<1>5. u = v <=> \A k \in 1 .. n : s[i + k - 1] = t[k]
  BY <1>2, <1>3, <1>4
<1> QED
  BY <1>5 DEF u, v

LEMMA StartsPointwise ==
  ASSUME NEW s \in Seq(Bytes), NEW i \in Nat
  PROVE  i \in StartsAt(s) <=> i >= 1 /\ i + Width - 1 <= Len(s) /\ Begun(s, i)
<1>0. Len(s) \in Nat /\ Width \in Nat /\ Width >= 1 /\ Control \in Seq(Bytes)
  BY LenProperties, WidthType
<1>1. i \in 1 .. Len(s) - Width + 1 <=> i >= 1 /\ i + Width - 1 <= Len(s)
  BY <1>0
<1>2. SubSeq(Control, 1, Width) = Control
  BY <1>0, SubSeqFull DEF Width
<1>3. ASSUME i >= 1, i + Width - 1 <= Len(s)
      PROVE  SubSeq(s, i, i + Width - 1) = Control <=> Begun(s, i)
  <2>1. Width <= Len(Control)
    BY <1>0 DEF Width
  <2>2. SubSeq(s, i, i + Width - 1) = SubSeq(Control, 1, Width)
           <=> \A k \in 1 .. Width : s[i + k - 1] = Control[k]
    BY <1>0, <1>3, <2>1, SameParts
  <2>3. \A k \in 1 .. Width : i + k - 1 <= Len(s)
    BY <1>0, <1>3
  <2> QED
    BY <1>2, <2>2, <2>3 DEF Begun
<1>4. i \in StartsAt(s) <=> i \in 1 .. Len(s) - Width + 1 /\ SubSeq(s, i, i + Width - 1) = Control
  BY DEF StartsAt, Width
<1> QED
  BY <1>1, <1>3, <1>4

LEMMA CoveredPointwise ==
  ASSUME NEW s \in Seq(Bytes), NEW p \in Nat
  PROVE  p \in Covered(s) <=>
           \E i \in 1 .. p : i + Width - 1 <= Len(s) /\ p <= i + Width - 1 /\ Begun(s, i)
<1>0. Len(s) \in Nat /\ Width \in Nat /\ Width >= 1
  BY LenProperties, WidthType
<1>1. p \in Covered(s) <=> \E i \in StartsAt(s) : p \in i .. i + Width - 1
  BY DEF Covered, Width
<1>2. StartsAt(s) \subseteq Nat
  BY <1>0 DEF StartsAt, Width
<1> QED
  BY <1>0, <1>1, <1>2, StartsPointwise

\* More bytes leave what was settled, and what is through, as it was.
LEMMA MoreBytes ==
  ASSUME NEW s \in Seq(Bytes), NEW x \in Seq(Bytes), NEW d \in Seq(Bytes), NEW a \in 0 .. Len(s),
         Settled(s, a), Through(d, s, a)
  PROVE  Settled(s \o x, a) /\ Through(d, s \o x, a)
<1> DEFINE t == s \o x
<1>0. Len(s) \in Nat /\ Len(x) \in Nat /\ Width \in Nat /\ Width >= 1 /\ a \in Nat /\ Len(d) \in Nat
  BY LenProperties, WidthType
<1>1. /\ t \in Seq(Bytes) /\ Len(t) = Len(s) + Len(x)
      /\ \A i \in 1 .. Len(s) : t[i] = s[i]
  BY <1>0, ConcatProperties
<1> HIDE DEF t
<1>2. ASSUME NEW i \in 1 .. Len(s), Begun(t, i) PROVE Begun(s, i)
  <2>1. ASSUME NEW k \in 1 .. Width, i + k - 1 <= Len(s) PROVE s[i + k - 1] = Control[k]
    <3>1. i + k - 1 \in 1 .. Len(s) /\ i + k - 1 <= Len(t)
      BY <1>0, <1>1, <2>1
    <3>2. t[i + k - 1] = Control[k]
      BY <1>2, <3>1 DEF Begun
    <3> QED
      BY <1>1, <3>1, <3>2
  <2> QED
    BY <2>1 DEF Begun
<1>3. Settled(t, a)
  BY <1>0, <1>2 DEF Settled
<1>4. ASSUME NEW p \in 1 .. a PROVE p \in Covered(s) <=> p \in Covered(t)
  <2>1. ASSUME NEW i \in 1 .. p, i + Width - 1 <= Len(s), Begun(s, i) PROVE Begun(t, i)
    <3>1. ASSUME NEW k \in 1 .. Width PROVE t[i + k - 1] = Control[k]
      <4>1. i + k - 1 \in 1 .. Len(s) /\ i + k - 1 <= Len(s)
        BY <1>0, <2>1
      <4>2. s[i + k - 1] = Control[k]
        BY <2>1, <4>1 DEF Begun
      <4> QED
        BY <1>1, <4>1, <4>2
    <3> QED
      BY <3>1 DEF Begun
  <2>2. ASSUME NEW i \in 1 .. p, Begun(t, i) PROVE i + Width - 1 <= Len(s) /\ Begun(s, i)
    <3>1. i \in 1 .. a /\ i \in 1 .. Len(s)
      BY <1>0
    <3> QED
      BY <1>0, <1>2, <1>3, <2>2, <3>1 DEF Settled
  <2> QED
    BY <1>0, <1>1, <2>1, <2>2, CoveredPointwise
<1>5. PICK f \in [1 .. Len(d) -> Nat] :
        /\ \A m, n \in 1 .. Len(d) : m < n => f[m] < f[n]
        /\ \A n \in 1 .. Len(d) : f[n] \in 1 .. a /\ f[n] \notin Covered(s) /\ d[n] = s[f[n]]
        /\ \A p \in 1 .. a : p \notin Covered(s) => \E n \in 1 .. Len(d) : f[n] = p
  BY DEF Through
<1>6. ASSUME NEW n \in 1 .. Len(d)
      PROVE  f[n] \in 1 .. a /\ f[n] \notin Covered(t) /\ d[n] = t[f[n]]
  <2>1. f[n] \in 1 .. a /\ f[n] \notin Covered(s) /\ d[n] = s[f[n]]
    BY <1>5
  <2>2. f[n] \in 1 .. Len(s)
    BY <1>0, <2>1
  <2>3. t[f[n]] = s[f[n]]
    BY <1>1, <2>2
  <2> QED
    BY <1>4, <2>1, <2>3
<1>7. \A p \in 1 .. a : p \notin Covered(t) => \E n \in 1 .. Len(d) : f[n] = p
  BY <1>4, <1>5
<1> QED
  BY <1>3, <1>5, <1>6, <1>7 DEF Through, t

\* What no control covers comes through.
LEMMA FreeBytes ==
  ASSUME NEW s \in Seq(Bytes), NEW d \in Seq(Bytes), NEW a \in 0 .. Len(s), NEW b \in a .. Len(s),
         Through(d, s, a), \A p \in a + 1 .. b : p \notin Covered(s)
  PROVE  Through(d \o SubSeq(s, a + 1, b), s, b)
<1> DEFINE x == SubSeq(s, a + 1, b)
           y == d \o x
<1>0. Len(s) \in Nat /\ a \in Nat /\ b \in Nat /\ Len(d) \in Nat /\ a <= b /\ b <= Len(s)
  BY LenProperties
<1>1. /\ x \in Seq(Bytes) /\ Len(x) = b - a
      /\ \A k \in 1 .. b - a : x[k] = s[a + k]
  <2>1. \A j \in a + 1 .. b : s[j] \in Bytes
    BY <1>0, ElementOfSeq
  <2>2. a + 1 \in Int /\ b \in Int
    BY <1>0
  <2>3. /\ x \in Seq(Bytes) /\ Len(x) = (IF a + 1 <= b THEN b - (a + 1) + 1 ELSE 0)
        /\ \A k \in 1 .. b - (a + 1) + 1 : x[k] = s[(a + 1) + k - 1]
    BY <2>1, <2>2, SubSeqProperties
  <2>4. \A k \in 1 .. b - a : x[k] = s[a + k]
    BY <1>0, <2>3
  <2> QED
    BY <1>0, <2>3, <2>4
<1> HIDE DEF x
<1>2. /\ y \in Seq(Bytes) /\ Len(y) = Len(d) + (b - a)
      /\ \A n \in 1 .. Len(d) : y[n] = d[n]
      /\ \A k \in 1 .. b - a : y[Len(d) + k] = x[k]
  <2>1. /\ y \in Seq(Bytes) /\ Len(y) = Len(d) + Len(x)
        /\ \A n \in 1 .. Len(d) + Len(x) : y[n] = IF n <= Len(d) THEN d[n] ELSE x[n - Len(d)]
    BY <1>1, ConcatProperties
  <2>2. \A n \in 1 .. Len(d) : n \in 1 .. Len(d) + Len(x) /\ n <= Len(d)
    BY <1>0, <1>1
  <2>3. ASSUME NEW k \in 1 .. b - a PROVE y[Len(d) + k] = x[k]
    <3>1. Len(d) + k \in 1 .. Len(d) + Len(x) /\ ~ (Len(d) + k <= Len(d)) /\ (Len(d) + k) - Len(d) = k
      BY <1>0, <1>1
    <3> QED
      BY <2>1, <3>1
  <2> QED
    BY <1>1, <2>1, <2>2, <2>3
<1> HIDE DEF y
<1>3. PICK f \in [1 .. Len(d) -> Nat] :
        /\ \A m, n \in 1 .. Len(d) : m < n => f[m] < f[n]
        /\ \A n \in 1 .. Len(d) : f[n] \in 1 .. a /\ f[n] \notin Covered(s) /\ d[n] = s[f[n]]
        /\ \A p \in 1 .. a : p \notin Covered(s) => \E n \in 1 .. Len(d) : f[n] = p
  BY DEF Through
<1> DEFINE g == [n \in 1 .. Len(y) |-> IF n <= Len(d) THEN f[n] ELSE a + (n - Len(d))]
<1>4. /\ \A n \in 1 .. Len(d) : n \in 1 .. Len(y) /\ g[n] = f[n]
      /\ \A k \in 1 .. b - a : Len(d) + k \in 1 .. Len(y) /\ g[Len(d) + k] = a + k
      /\ \A n \in 1 .. Len(y) : n \in 1 .. Len(d) \/ \E k \in 1 .. b - a : n = Len(d) + k
  <2>1. \A n \in 1 .. Len(d) : n \in 1 .. Len(y) /\ g[n] = f[n]
    BY <1>0, <1>2
  <2>2. \A k \in 1 .. b - a : Len(d) + k \in 1 .. Len(y) /\ g[Len(d) + k] = a + k
    BY <1>0, <1>2
  <2>3. ASSUME NEW n \in 1 .. Len(y), n \notin 1 .. Len(d) PROVE \E k \in 1 .. b - a : n = Len(d) + k
    <3>1. n - Len(d) \in 1 .. b - a /\ n = Len(d) + (n - Len(d))
      BY <1>0, <1>2, <2>3
    <3> QED
      BY <3>1
  <2> QED
    BY <2>1, <2>2, <2>3
<1>5. g \in [1 .. Len(y) -> Nat]
  BY <1>0, <1>2, <1>3
<1> HIDE DEF g
<1>6. ASSUME NEW m \in 1 .. Len(y), NEW n \in 1 .. Len(y), m < n PROVE g[m] < g[n]
  <2>1. CASE n \in 1 .. Len(d)
    <3>1. m \in 1 .. Len(d)
      BY <1>0, <1>2, <1>6, <2>1
    <3> QED
      BY <1>3, <1>4, <1>6, <2>1, <3>1
  <2>2. CASE n \notin 1 .. Len(d)
    <3>1. PICK k \in 1 .. b - a : n = Len(d) + k
      BY <1>4, <2>2
    <3>2. g[n] = a + k
      BY <1>4, <3>1
    <3>3. CASE m \in 1 .. Len(d)
      BY <1>0, <1>3, <1>4, <3>2, <3>3
    <3>4. CASE m \notin 1 .. Len(d)
      <4>1. PICK l \in 1 .. b - a : m = Len(d) + l
        BY <1>4, <3>4
      <4>2. g[m] = a + l /\ l < k
        BY <1>0, <1>4, <1>6, <3>1, <4>1
      <4> QED
        BY <1>0, <3>2, <4>2
    <3> QED
      BY <3>3, <3>4
  <2> QED
    BY <2>1, <2>2
<1>7. ASSUME NEW n \in 1 .. Len(y)
      PROVE  g[n] \in 1 .. b /\ g[n] \notin Covered(s) /\ y[n] = s[g[n]]
  <2>1. CASE n \in 1 .. Len(d)
    <3>1. g[n] = f[n] /\ f[n] \in 1 .. a /\ f[n] \notin Covered(s) /\ d[n] = s[f[n]]
      BY <1>3, <1>4, <2>1
    <3>2. y[n] = d[n]
      BY <1>0, <1>2, <2>1
    <3> QED
      BY <1>0, <3>1, <3>2
  <2>2. CASE n \notin 1 .. Len(d)
    <3>1. PICK k \in 1 .. b - a : n = Len(d) + k
      BY <1>4, <2>2
    <3>2. g[n] = a + k /\ a + k \in a + 1 .. b
      BY <1>0, <1>4, <3>1
    <3>3. y[n] = x[k]
      BY <1>0, <1>2, <3>1
    <3>4. y[n] = s[g[n]]
      BY <1>1, <3>2, <3>3
    <3> QED
      BY <1>0, <3>2, <3>4
  <2> QED
    BY <2>1, <2>2
<1>8. ASSUME NEW p \in 1 .. b, p \notin Covered(s) PROVE \E n \in 1 .. Len(y) : g[n] = p
  <2>1. CASE p <= a
    <3>1. p \in 1 .. a
      BY <1>0, <2>1
    <3> QED
      BY <1>3, <1>4, <1>8, <3>1
  <2>2. CASE ~ (p <= a)
    <3>1. p - a \in 1 .. b - a /\ a + (p - a) = p
      BY <1>0, <2>2
    <3> QED
      BY <1>4, <3>1
  <2> QED
    BY <2>1, <2>2
<1>9. Through(y, s, b)
  BY <1>5, <1>6, <1>7, <1>8 DEF Through
<1> QED
  BY <1>9 DEF y, x

\* What a control covers does not.
LEMMA CoveredBytes ==
  ASSUME NEW s \in Seq(Bytes), NEW d \in Seq(Bytes), NEW a \in Nat, NEW b \in Nat, a <= b,
         Through(d, s, a), \A p \in a + 1 .. b : p \in Covered(s)
  PROVE  Through(d, s, b)
<1>1. PICK f \in [1 .. Len(d) -> Nat] :
        /\ \A m, n \in 1 .. Len(d) : m < n => f[m] < f[n]
        /\ \A n \in 1 .. Len(d) : f[n] \in 1 .. a /\ f[n] \notin Covered(s) /\ d[n] = s[f[n]]
        /\ \A p \in 1 .. a : p \notin Covered(s) => \E n \in 1 .. Len(d) : f[n] = p
  BY DEF Through
<1>2. \A n \in 1 .. Len(d) : f[n] \in 1 .. b /\ f[n] \notin Covered(s) /\ d[n] = s[f[n]]
  BY <1>1
<1>3. ASSUME NEW p \in 1 .. b, p \notin Covered(s) PROVE \E n \in 1 .. Len(d) : f[n] = p
  <2>1. p \in 1 .. a
    BY <1>3
  <2> QED
    BY <1>1, <1>3, <2>1
<1> QED
  BY <1>1, <1>2, <1>3 DEF Through

LEMMA Uncovered ==
  ASSUME NEW s \in Seq(Bytes), NEW a \in 0 .. Len(s), NEW b \in a .. Len(s),
         Settled(s, a), \A i \in a + 1 .. b : i \notin StartsAt(s)
  PROVE  \A p \in a + 1 .. b : p \notin Covered(s)
<1>0. Len(s) \in Nat /\ a \in Nat /\ b \in Nat /\ Width \in Nat /\ Width >= 1
  BY LenProperties, WidthType
<1>1. SUFFICES ASSUME NEW p \in a + 1 .. b, p \in Covered(s) PROVE FALSE
  OBVIOUS
<1>2. p \in Nat
  BY <1>0
<1>3. PICK i \in 1 .. p : i + Width - 1 <= Len(s) /\ p <= i + Width - 1 /\ Begun(s, i)
  BY <1>1, <1>2, CoveredPointwise
<1>4. CASE i <= a
  <2>1. i \in 1 .. a
    BY <1>0, <1>4
  <2>2. i + Width - 1 <= a
    BY <1>3, <2>1 DEF Settled
  <2> QED
    BY <1>0, <1>3, <2>2
<1>5. CASE ~ (i <= a)
  <2>1. i \in a + 1 .. b /\ i \in Nat /\ i >= 1
    BY <1>0, <1>5
  <2>2. i \in StartsAt(s)
    BY <1>3, <2>1, StartsPointwise
  <2> QED
    BY <2>1, <2>2
<1> QED
  BY <1>4, <1>5

\* A turn of the loop, seen in the stream.
LEMMA OneCut ==
  ASSUME NEW s \in Seq(Bytes), NEW d \in Seq(Bytes), NEW a \in 0 .. Len(s),
         Settled(s, a), Through(d, s, a),
         NEW c \in StartsAt(s), c > a, \A i \in StartsAt(s) : i > a => c <= i
  PROVE  /\ Settled(s, c + Width - 1)
         /\ Through(d \o SubSeq(s, a + 1, c - 1), s, c + Width - 1)
<1>0. /\ Len(s) \in Nat /\ a \in Nat /\ Width \in Nat /\ Width >= 1 /\ c \in Nat
      /\ \A i \in 2 .. Width : Control[i] # Control[1]
  <2>1. StartsAt(s) \subseteq Nat
    BY LenProperties, WidthType DEF StartsAt, Width
  <2> QED
    BY <2>1, LenProperties, WidthType
<1>1. c + Width - 1 <= Len(s) /\ Begun(s, c)
  BY <1>0, StartsPointwise
<1> DEFINE b == c - 1
           x == SubSeq(s, a + 1, b)
<1>2. b \in a .. Len(s) /\ b \in Nat
  BY <1>0, <1>1
<1>3. Through(d \o x, s, b)
  <2>1. \A i \in a + 1 .. b : i \notin StartsAt(s)
    BY <1>0
  <2>2. \A p \in a + 1 .. b : p \notin Covered(s)
    BY <1>2, <2>1, Uncovered
  <2> QED
    BY <1>2, <2>2, FreeBytes
<1>4. d \o x \in Seq(Bytes)
  <2>1. \A j \in a + 1 .. b : s[j] \in Bytes
    BY <1>0, <1>2, ElementOfSeq
  <2>2. x \in Seq(Bytes)
    BY <1>0, <1>2, <2>1, SubSeqProperties
  <2> QED
    BY <2>2, ConcatProperties
<1> DEFINE u == c + Width - 1
<1>5. \A p \in b + 1 .. u : p \in Covered(s)
  <2>1. SUFFICES ASSUME NEW p \in b + 1 .. u PROVE p \in Covered(s)
    OBVIOUS
  <2>2. p \in Nat /\ c \in 1 .. p /\ p <= c + Width - 1
    BY <1>0, <1>2
  <2> QED
    BY <1>1, <2>2, CoveredPointwise
<1>6. u \in Nat /\ b <= u
  BY <1>0
<1>7. Settled(s, u)
  <2>1. SUFFICES ASSUME NEW i \in 1 .. u, Begun(s, i) PROVE i + Width - 1 <= u
    BY DEF Settled
  <2>2. CASE i <= a
    <3>1. i \in 1 .. a
      BY <1>0, <2>2
    <3>2. i + Width - 1 <= a
      BY <2>1, <3>1 DEF Settled
    <3> QED
      BY <1>0, <3>2
  <2>3. CASE a < i /\ i <= c
    BY <1>0, <2>3
  <2>4. CASE i > c
    <3>1. i - c + 1 \in 2 .. Width /\ c + (i - c + 1) - 1 = i /\ i <= Len(s) /\ 1 \in 1 .. Width /\ i + 1 - 1 = i
      BY <1>0, <1>1, <2>4
    <3>2. i - c + 1 \in 1 .. Width
      BY <3>1
    <3>3. s[i] = Control[i - c + 1]
      BY <1>1, <3>1, <3>2 DEF Begun
    <3>4. s[i] = Control[1]
      BY <2>1, <3>1 DEF Begun
    <3> QED
      BY <1>0, <3>1, <3>3, <3>4
  <2> QED
    BY <1>0, <2>2, <2>3, <2>4
<1> HIDE DEF b, u
<1>8. Through(d \o x, s, u)
  BY <1>2, <1>3, <1>4, <1>5, <1>6, CoveredBytes
<1> QED
  BY <1>7, <1>8 DEF u, b

\* The last turn, seen in the stream.
LEMMA LastPart ==
  ASSUME NEW s \in Seq(Bytes), NEW d \in Seq(Bytes), NEW a \in 0 .. Len(s), NEW b \in a .. Len(s),
         Settled(s, a), Through(d, s, a), \A i \in a + 1 .. b : ~ Begun(s, i)
  PROVE  Settled(s, b) /\ Through(d \o SubSeq(s, a + 1, b), s, b)
<1>0. Len(s) \in Nat /\ a \in Nat /\ b \in Nat /\ a <= b /\ b <= Len(s) /\ Width \in Nat
  BY LenProperties, WidthType
<1>1. \A i \in a + 1 .. b : i \notin StartsAt(s)
  <2>1. \A i \in a + 1 .. b : i \in Nat
    BY <1>0
  <2> QED
    BY <2>1, StartsPointwise
<1>2. \A p \in a + 1 .. b : p \notin Covered(s)
  BY <1>1, Uncovered
<1>3. Through(d \o SubSeq(s, a + 1, b), s, b)
  BY <1>2, FreeBytes
<1>4. ASSUME NEW i \in 1 .. b, Begun(s, i) PROVE i + Width - 1 <= b
  <2>1. i \in 1 .. a
    BY <1>0, <1>4
  <2>2. i + Width - 1 <= a
    BY <1>4, <2>1 DEF Settled
  <2> QED
    BY <1>0, <2>2
<1> QED
  BY <1>3, <1>4 DEF Settled

\* What is through at the end is the plain stream.
LEMMA ThroughIsPlain ==
  ASSUME NEW s \in Seq(Bytes), NEW d \in Seq(Bytes), Through(d, s, Len(s))
  PROVE  d = Plain(s)
<1> DEFINE F == {i \in 1 .. Len(s) : i \notin Covered(s)}
           upto(i) == {j \in F : j <= i}
           nth(n) == CHOOSE i \in F : Cardinality({j \in F : j <= i}) = n
<1>0. Len(s) \in Nat /\ Len(d) \in Nat /\ F \subseteq Nat
  BY LenProperties
<1>1. PICK f \in [1 .. Len(d) -> Nat] :
        /\ \A m, n \in 1 .. Len(d) : m < n => f[m] < f[n]
        /\ \A n \in 1 .. Len(d) : f[n] \in 1 .. Len(s) /\ f[n] \notin Covered(s) /\ d[n] = s[f[n]]
        /\ \A p \in 1 .. Len(s) : p \notin Covered(s) => \E n \in 1 .. Len(d) : f[n] = p
  BY DEF Through
<1>2. /\ \A n \in 1 .. Len(d) : f[n] \in F
      /\ \A p \in F : \E n \in 1 .. Len(d) : f[n] = p
  BY <1>1
<1>3. \A m, n \in 1 .. Len(d) : f[m] <= f[n] <=> m <= n
  <2>1. SUFFICES ASSUME NEW m \in 1 .. Len(d), NEW n \in 1 .. Len(d) PROVE f[m] <= f[n] <=> m <= n
    OBVIOUS
  <2>2. f[m] \in Nat /\ f[n] \in Nat /\ (m < n => f[m] < f[n]) /\ (n < m => f[n] < f[m])
    BY <1>1
  <2> QED
    BY <1>0, <2>2
<1> HIDE DEF F
<1>4. ASSUME NEW n \in 0 .. Len(d), NEW S, S \subseteq F,
             \A m \in 1 .. n : f[m] \in S, \A p \in S : \E m \in 1 .. n : f[m] = p
      PROVE  Cardinality(S) = n
  <2> DEFINE g == [m \in 1 .. n |-> f[m]]
  <2>0. n \in Nat /\ 1 .. n \subseteq 1 .. Len(d)
    BY <1>0
  <2>1. g \in [1 .. n -> S]
    BY <1>4
  <2>2. \A l, m \in 1 .. n : g[l] = g[m] => l = m
    <3>1. SUFFICES ASSUME NEW l \in 1 .. n, NEW m \in 1 .. n, f[l] = f[m] PROVE l = m
      OBVIOUS
    <3>2. f[l] \in Nat /\ f[m] \in Nat /\ l \in 1 .. Len(d) /\ m \in 1 .. Len(d)
      BY <2>0
    <3>3. l <= m /\ m <= l
      BY <1>3, <3>1, <3>2
    <3> QED
      BY <3>3
  <2>3. \A p \in S : \E m \in 1 .. n : g[m] = p
    BY <1>4
  <2> HIDE DEF g
  <2>4. g \in Bijection(1 .. n, S)
    BY <2>1, <2>2, <2>3 DEF Bijection, Injection, Surjection, IsInjective
  <2>5. ExistsBijection(1 .. n, S)
    BY <2>4 DEF ExistsBijection
  <2> QED
    BY <2>0, <2>5, FS_CountingElements
<1>5. Cardinality(F) = Len(d)
  <2>1. Len(d) \in 0 .. Len(d) /\ F \subseteq F
    BY <1>0
  <2> QED
    BY <1>2, <1>4, <2>1
<1>6. ASSUME NEW n \in 1 .. Len(d) PROVE Cardinality(upto(f[n])) = n
  <2> DEFINE S == upto(f[n])
  <2>1. \A m \in 1 .. n : f[m] \in S
    BY <1>0, <1>2, <1>3
  <2>2. ASSUME NEW p \in S PROVE \E m \in 1 .. n : f[m] = p
    <3>1. PICK m \in 1 .. Len(d) : f[m] = p
      BY <1>2
    <3>2. m \in 1 .. n
      BY <1>0, <1>3, <3>1
    <3> QED
      BY <3>1, <3>2
  <2>3. S \subseteq F /\ n \in 0 .. Len(d)
    BY <1>0
  <2> HIDE DEF S
  <2> QED
    BY <1>4, <2>1, <2>2, <2>3 DEF S
<1>7. ASSUME NEW n \in 1 .. Len(d) PROVE nth(n) = f[n]
  <2>1. f[n] \in F /\ Cardinality(upto(f[n])) = n
    BY <1>2, <1>6
  <2>2. ASSUME NEW i \in F, Cardinality(upto(i)) = n PROVE i = f[n]
    <3>1. PICK m \in 1 .. Len(d) : f[m] = i
      BY <1>2
    <3> QED
      BY <1>6, <2>2, <3>1
  <2> QED
    BY <2>1, <2>2
<1>8. Plain(s) = [n \in 1 .. Cardinality(F) |-> s[nth(n)]]
  BY DEF Plain, F
<1>9. d = [n \in 1 .. Len(d) |-> d[n]]
  BY LenProperties
<1> HIDE DEF nth
<1>10. \A n \in 1 .. Len(d) : d[n] = s[nth(n)]
  BY <1>1, <1>7
<1> QED
  BY <1>5, <1>8, <1>9, <1>10

\* The filter keeps back the longest end that may start a control.
LEMMA KeptBackIs ==
  ASSUME NEW s \in Seq(Bytes)
  PROVE  LET n == KeptBack(s) IN
         /\ n \in 0 .. Width - 1 /\ n <= Len(s)
         /\ SubSeq(s, Len(s) - n + 1, Len(s)) = SubSeq(Control, 1, n)
         /\ \A m \in n + 1 .. Width - 1 :
              m <= Len(s) => SubSeq(s, Len(s) - m + 1, Len(s)) # SubSeq(Control, 1, m)
<1> DEFINE Fits(n) == n <= Len(s) /\ SubSeq(s, Len(s) - n + 1, Len(s)) = SubSeq(Control, 1, n)
           T == {k \in Nat : k <= Width - 1 /\ Fits(Width - 1 - k)}
           R == OpToRel(<, Nat)
<1>0. Len(s) \in Nat /\ Width \in Nat /\ Width >= 1
  BY LenProperties, WidthType
<1>1. Fits(0)
  <2>1. SubSeq(s, Len(s) - 0 + 1, Len(s)) = << >>
    BY <1>0, SubSeqEmpty
  <2>2. SubSeq(Control, 1, 0) = << >>
    BY SubSeqEmpty
  <2> QED
    BY <1>0, <2>1, <2>2
<1> HIDE DEF Fits
<1>2. Width - 1 \in T
  <2>1. Width - 1 - (Width - 1) = 0 /\ Width - 1 \in Nat
    BY <1>0
  <2> QED
    BY <1>1, <2>1
<1>3. IsWellFoundedOn(R, Nat)
  BY NatLessThanWellFounded
<1>4. T \subseteq Nat
  OBVIOUS
<1> HIDE DEF R, T
<1>5. PICK k \in T : \A l \in T : ~ (<<l, k>> \in R)
  BY <1>2, <1>3, <1>4, WFMin
<1>6. \A l \in T : k <= l
  <2>1. SUFFICES ASSUME NEW l \in T PROVE k <= l
    OBVIOUS
  <2>2. <<l, k>> \in R <=> l < k
    BY <1>4 DEF R, OpToRel
  <2> QED
    BY <1>4, <1>5, <2>2
<1> DEFINE n == Width - 1 - k
<1>7. n \in 0 .. Width - 1 /\ Fits(n)
  BY <1>0 DEF T
<1>8. ASSUME NEW m \in n + 1 .. Width - 1 PROVE ~ Fits(m)
  <2>1. Width - 1 - m \in Nat /\ Width - 1 - m < k /\ Width - 1 - m <= Width - 1
        /\ Width - 1 - (Width - 1 - m) = m
    BY <1>0, <1>4, <1>7
  <2>2. Width - 1 - m \notin T
    BY <1>4, <1>6, <2>1
  <2> QED
    BY <2>1, <2>2 DEF T
<1> HIDE DEF n
<1>9. KeptBack(s) = CHOOSE i \in 0 .. Width - 1 : Fits(i) /\ \A m \in i + 1 .. Width - 1 : ~ Fits(m)
  BY DEF KeptBack, Width, Fits
<1>10. /\ KeptBack(s) \in 0 .. Width - 1 /\ Fits(KeptBack(s))
       /\ \A m \in KeptBack(s) + 1 .. Width - 1 : ~ Fits(m)
  BY <1>7, <1>8, <1>9
<1> QED
  BY <1>10 DEF Fits

\* What is left of the stream, and the stream.
LEMMA Window ==
  ASSUME NEW s \in Seq(Bytes), NEW a \in 0 .. Len(s), NEW r, r = SubSeq(s, a + 1, Len(s))
  PROVE  /\ r \in Seq(Bytes) /\ Len(r) = Len(s) - a
         /\ \A i \in 1 .. Len(r) : r[i] = s[a + i]
         /\ \A i \in Nat \ {0}, j \in 0 .. Len(r) : SubSeq(r, i, j) = SubSeq(s, a + i, a + j)
         /\ \A i \in Nat \ {0} : Begun(r, i) <=> Begun(s, a + i)
<1>0. Len(s) \in Nat /\ a \in Nat /\ Width \in Nat
  BY LenProperties, WidthType
<1>1. /\ r \in Seq(Bytes) /\ Len(r) = Len(s) - a
      /\ \A i \in 1 .. Len(r) : r[i] = s[a + i]
  <2>1. \A j \in a + 1 .. Len(s) : s[j] \in Bytes
    BY <1>0, ElementOfSeq
  <2>2. /\ r \in Seq(Bytes) /\ Len(r) = (IF a + 1 <= Len(s) THEN Len(s) - (a + 1) + 1 ELSE 0)
        /\ \A i \in 1 .. Len(s) - (a + 1) + 1 : r[i] = s[(a + 1) + i - 1]
    BY <1>0, <2>1, SubSeqProperties
  <2>3. Len(r) = Len(s) - a
    BY <1>0, <2>2
  <2>4. ASSUME NEW i \in 1 .. Len(r) PROVE r[i] = s[a + i]
    <3>1. i \in 1 .. Len(s) - (a + 1) + 1 /\ (a + 1) + i - 1 = a + i
      BY <1>0, <2>3
    <3> QED
      BY <2>2, <3>1
  <2> QED
    BY <2>2, <2>3, <2>4
<1>2. ASSUME NEW i \in Nat \ {0}, NEW j \in 0 .. Len(r)
      PROVE  SubSeq(r, i, j) = SubSeq(s, a + i, a + j)
  <2> DEFINE u == SubSeq(r, i, j)
             v == SubSeq(s, a + i, a + j)
  <2>1. CASE i > j
    <3>1. u = << >>
      BY <2>1, SubSeqEmpty
    <3>2. v = << >>
      BY <1>0, <2>1, SubSeqEmpty
    <3> QED
      BY <3>1, <3>2
  <2>2. CASE i <= j
    <3>0. /\ a + i \in Int /\ a + j \in Int /\ i \in Int /\ j \in Int /\ j - i + 1 \in Nat
          /\ j <= Len(r) /\ a + j <= Len(s) /\ i >= 1
      BY <1>0, <1>1, <2>2
    <3>1. (\A k \in i .. j : r[k] \in Bytes) /\ (\A k \in a + i .. a + j : s[k] \in Bytes)
      BY <1>0, <1>1, <3>0, ElementOfSeq
    <3>2. /\ u \in Seq(Bytes) /\ Len(u) = (IF i <= j THEN j - i + 1 ELSE 0)
          /\ \A k \in 1 .. j - i + 1 : u[k] = r[i + k - 1]
      BY <3>0, <3>1, SubSeqProperties
    <3>3. /\ v \in Seq(Bytes) /\ Len(v) = (IF a + i <= a + j THEN (a + j) - (a + i) + 1 ELSE 0)
          /\ \A k \in 1 .. (a + j) - (a + i) + 1 : v[k] = s[(a + i) + k - 1]
      BY <3>0, <3>1, SubSeqProperties
    <3> HIDE DEF u, v
    <3>4. Len(u) = j - i + 1 /\ Len(v) = j - i + 1
      BY <1>0, <2>2, <3>2, <3>3
    <3>5. ASSUME NEW k \in 1 .. j - i + 1 PROVE u[k] = v[k]
      <4>1. /\ i + k - 1 \in 1 .. Len(r) /\ k \in 1 .. (a + j) - (a + i) + 1
            /\ a + (i + k - 1) = (a + i) + k - 1
        BY <1>0, <3>0
      <4> QED
        BY <1>1, <3>2, <3>3, <4>1
    <3>6. u = v
      BY <3>2, <3>3, <3>4, <3>5, SeqEqual
    <3> QED
      BY <3>6 DEF u, v
  <2> QED
    BY <2>1, <2>2
<1>3. ASSUME NEW i \in Nat \ {0} PROVE Begun(r, i) <=> Begun(s, a + i)
  <2>1. ASSUME NEW k \in 1 .. Width
        PROVE  /\ i + k - 1 <= Len(r) <=> (a + i) + k - 1 <= Len(s)
               /\ i + k - 1 <= Len(r) => r[i + k - 1] = s[(a + i) + k - 1]
    <3>1. i + k - 1 <= Len(r) <=> (a + i) + k - 1 <= Len(s)
      BY <1>0, <1>1
    <3>2. ASSUME i + k - 1 <= Len(r) PROVE r[i + k - 1] = s[(a + i) + k - 1]
      <4>1. i + k - 1 \in 1 .. Len(r) /\ a + (i + k - 1) = (a + i) + k - 1
        BY <1>0, <1>1, <3>2
      <4> QED
        BY <1>1, <4>1
    <3> QED
      BY <3>1, <3>2
  <2> QED
    BY <2>1 DEF Begun
<1> QED
  BY <1>1, <1>2, <1>3

\* No control begins before the part kept back.
LEMMA KeptBackIsAll ==
  ASSUME NEW r \in Seq(Bytes), StartsAt(r) = {}, NEW i \in 1 .. Len(r) - KeptBack(r)
  PROVE  ~ Begun(r, i)
<1> DEFINE n == KeptBack(r)
           m == Len(r) - i + 1
<1>0. Len(r) \in Nat /\ Width \in Nat /\ Width >= 1 /\ Width = Len(Control) /\ Control \in Seq(Bytes)
  BY LenProperties, WidthType DEF Width
<1>1. /\ n \in 0 .. Width - 1 /\ n <= Len(r)
      /\ \A l \in n + 1 .. Width - 1 :
           l <= Len(r) => SubSeq(r, Len(r) - l + 1, Len(r)) # SubSeq(Control, 1, l)
  BY KeptBackIs
<1> HIDE DEF n
<1>2. i \in 1 .. Len(r) - n
  BY DEF n
<1>3. i \in Nat /\ i >= 1 /\ m \in Nat /\ m >= n + 1 /\ m <= Len(r) /\ Len(r) - m + 1 = i /\ i + m - 1 = Len(r)
  BY <1>0, <1>1, <1>2
<1> HIDE DEF m
<1>4. SUFFICES ASSUME Begun(r, i) PROVE FALSE
  OBVIOUS
<1>5. CASE m >= Width
  <2>1. i + Width - 1 <= Len(r)
    BY <1>0, <1>3, <1>5
  <2>2. i \in StartsAt(r)
    BY <1>3, <1>4, <2>1, StartsPointwise
  <2> QED
    BY <2>2
<1>6. CASE ~ (m >= Width)
  <2>1. m \in n + 1 .. Width - 1 /\ m <= Len(Control)
    BY <1>0, <1>1, <1>3, <1>6
  <2>2. ASSUME NEW k \in 1 .. m PROVE r[i + k - 1] = Control[k]
    <3>1. k \in 1 .. Width /\ i + k - 1 <= Len(r)
      BY <1>0, <1>3, <2>1
    <3> QED
      BY <1>4, <3>1 DEF Begun
  <2>3. SubSeq(r, i, i + m - 1) = SubSeq(Control, 1, m)
    BY <1>0, <1>3, <2>1, <2>2, SameParts
  <2> QED
    BY <1>1, <1>3, <2>1, <2>3
<1> QED
  BY <1>5, <1>6

\* The scrollback of the scrollback and more is that of all.
LEMMA NewestOfMore ==
  ASSUME NEW r \in Seq(Bytes), NEW h \in Seq(Bytes)
  PROVE  Newest(r) \in Seq(Bytes) /\ Newest(Newest(r) \o h) = Newest(r \o h)
<1>0. Len(r) \in Nat /\ Len(h) \in Nat /\ MaxSize \in Nat /\ MaxSize >= 1
  BY LenProperties, SizeAssumption
<1> DEFINE cut(n) == IF n > MaxSize THEN n - MaxSize ELSE 0
<1>1. ASSUME NEW s \in Seq(Bytes)
      PROVE  /\ Newest(s) \in Seq(Bytes) /\ Len(Newest(s)) = Len(s) - cut(Len(s))
             /\ \A k \in 1 .. Len(s) - cut(Len(s)) : Newest(s)[k] = s[cut(Len(s)) + k]
  <2> DEFINE n == Len(s)
             c == cut(n)
             y == SubSeq(s, c + 1, n)
  <2>0. n \in Nat /\ c \in 0 .. n
    BY <1>0, LenProperties
  <2>1. Newest(s) = y
    <3>1. (IF Len(s) > MaxSize THEN Len(s) - MaxSize + 1 ELSE 1) = c + 1
      BY <1>0, <2>0
    <3> QED
      BY <3>1 DEF Newest
  <2> HIDE DEF c
  <2>2. \A j \in c + 1 .. n : s[j] \in Bytes
    BY <2>0, ElementOfSeq
  <2>3. /\ y \in Seq(Bytes) /\ Len(y) = (IF c + 1 <= n THEN n - (c + 1) + 1 ELSE 0)
        /\ \A k \in 1 .. n - (c + 1) + 1 : y[k] = s[(c + 1) + k - 1]
    BY <2>0, <2>2, SubSeqProperties
  <2> HIDE DEF y
  <2>4. Len(y) = n - c
    BY <2>0, <2>3
  <2>5. ASSUME NEW k \in 1 .. n - c PROVE y[k] = s[c + k]
    <3>1. k \in 1 .. n - (c + 1) + 1 /\ (c + 1) + k - 1 = c + k
      BY <2>0
    <3> QED
      BY <2>3, <3>1
  <2> QED
    BY <2>1, <2>3, <2>4, <2>5 DEF c
<1> DEFINE q  == Newest(r)
           x  == q \o h
           y  == r \o h
           cr == cut(Len(r))
           cx == cut(Len(x))
           cy == cut(Len(y))
<1>2. /\ q \in Seq(Bytes) /\ Len(q) = Len(r) - cr
      /\ \A k \in 1 .. Len(r) - cr : q[k] = r[cr + k]
  BY <1>1
<1>3. cr \in Nat /\ cr <= Len(r)
  BY <1>0
<1> HIDE DEF q
<1>4. /\ x \in Seq(Bytes) /\ Len(x) = Len(q) + Len(h)
      /\ \A k \in 1 .. Len(q) + Len(h) : x[k] = IF k <= Len(q) THEN q[k] ELSE h[k - Len(q)]
  BY <1>2, ConcatProperties
<1>5. /\ y \in Seq(Bytes) /\ Len(y) = Len(r) + Len(h)
      /\ \A k \in 1 .. Len(r) + Len(h) : y[k] = IF k <= Len(r) THEN r[k] ELSE h[k - Len(r)]
  BY ConcatProperties
<1> HIDE DEF x, y
<1>6. Len(q) \in Nat /\ Len(x) \in Nat /\ Len(y) \in Nat /\ Len(y) = cr + Len(x)
  BY <1>0, <1>2, <1>3, <1>4, <1>5
<1>7. ASSUME NEW k \in 1 .. Len(x) PROVE x[k] = y[cr + k]
  <2>1. CASE k <= Len(q)
    <3>1. k \in 1 .. Len(r) - cr /\ k \in 1 .. Len(q) + Len(h)
          /\ cr + k <= Len(r) /\ cr + k \in 1 .. Len(r) + Len(h)
      BY <1>0, <1>2, <1>3, <1>4, <2>1
    <3>2. x[k] = q[k] /\ q[k] = r[cr + k]
      BY <1>2, <1>4, <2>1, <3>1
    <3>3. y[cr + k] = r[cr + k]
      BY <1>5, <3>1
    <3> QED
      BY <3>2, <3>3
  <2>2. CASE ~ (k <= Len(q))
    <3>1. k \in 1 .. Len(q) + Len(h) /\ ~ (cr + k <= Len(r)) /\ cr + k \in 1 .. Len(r) + Len(h)
          /\ (cr + k) - Len(r) = k - Len(q)
      BY <1>0, <1>2, <1>3, <1>4, <2>2
    <3>2. x[k] = h[k - Len(q)]
      BY <1>4, <2>2, <3>1
    <3>3. y[cr + k] = h[k - Len(q)]
      BY <1>5, <3>1
    <3> QED
      BY <3>2, <3>3
  <2> QED
    BY <2>1, <2>2
<1>8. cx \in Nat /\ cx <= Len(x) /\ cy \in Nat /\ cy <= Len(y) /\ cy = cr + cx
  <2>1. CASE Len(r) > MaxSize
    <3>1. cr = Len(r) - MaxSize
      BY <2>1
    <3>2. Len(x) = MaxSize + Len(h) /\ Len(y) = Len(r) + Len(h)
      <4> HIDE DEF cr
      <4>1. Len(q) = Len(r) - cr /\ Len(x) = Len(q) + Len(h) /\ Len(y) = Len(r) + Len(h)
        BY <1>2, <1>4, <1>5
      <4> QED
        BY <1>0, <3>1, <4>1
    <3>3. cx = Len(h) /\ cy = Len(r) + Len(h) - MaxSize
      BY <1>0, <2>1, <3>2
    <3> QED
      BY <1>0, <2>1, <3>1, <3>2, <3>3
  <2>2. CASE ~ (Len(r) > MaxSize)
    <3>1. cr = 0
      BY <2>2
    <3>2. Len(x) = Len(y) /\ cx = cy
      BY <1>6, <3>1
    <3>3. cy \in Nat /\ cy <= Len(y)
      BY <1>0, <1>6
    <3> QED
      BY <3>1, <3>2, <3>3
  <2> QED
    BY <2>1, <2>2
<1>9. /\ Newest(x) \in Seq(Bytes) /\ Len(Newest(x)) = Len(x) - cx
      /\ \A k \in 1 .. Len(x) - cx : Newest(x)[k] = x[cx + k]
  BY <1>1, <1>4
<1>10. /\ Newest(y) \in Seq(Bytes) /\ Len(Newest(y)) = Len(y) - cy
       /\ \A k \in 1 .. Len(y) - cy : Newest(y)[k] = y[cy + k]
  BY <1>1, <1>5
<1> HIDE DEF cr, cx, cy
<1>11. Len(Newest(x)) = Len(Newest(y))
  BY <1>3, <1>6, <1>8, <1>9, <1>10
<1>12. ASSUME NEW k \in 1 .. Len(Newest(x)) PROVE Newest(x)[k] = Newest(y)[k]
  <2>1. k \in 1 .. Len(x) - cx /\ k \in 1 .. Len(y) - cy /\ cx + k \in 1 .. Len(x) /\ cr + (cx + k) = cy + k
    BY <1>3, <1>6, <1>8, <1>9
  <2> QED
    BY <1>7, <1>9, <1>10, <2>1
<1>13. Newest(x) = Newest(y)
  BY <1>9, <1>10, <1>11, <1>12, SeqEqual
<1> QED
  BY <1>2, <1>13 DEF x, y, q

OutputTypes ==
  /\ stream \in Seq(Bytes) /\ tail \in Seq(Bytes)
  /\ recorded \in Seq(Bytes) /\ scrollback \in Seq(Bytes)
  /\ step \in [Emitters -> {"idle", "filter", "request", "asked"}]
  /\ input \in [Emitters -> Seq(Bytes)] /\ hand \in [Emitters -> Seq(Bytes)]

\* The end of the stream that e has yet to filter, and what came through before.
ToFilter(e)    == IF step[e] = "filter" THEN input[e] ELSE tail
CameThrough(e) == recorded \o hand[e]

FilterFollows(e) ==
  \E a \in 0 .. Len(stream) :
    /\ ToFilter(e) = SubSeq(stream, a + 1, Len(stream))
    /\ Settled(stream, a) /\ Through(CameThrough(e), stream, a)

KeepsAStart(e) ==
  IF step[e] = "filter" THEN tail = << >> ELSE \E n \in 0 .. Width - 1 : tail = SubSeq(Control, 1, n)

OutputInv(e) ==
  /\ OutputTypes
  /\ FilterFollows(e)
  /\ KeepsAStart(e)
  /\ step[e] = "idle" => hand[e] = << >>
  /\ scrollback = Newest(recorded)

LEMMA OutputInitInv ==
  ASSUME NEW e, Emitters = {e}, OutputInit
  PROVE  OutputInv(e)
<1>0. /\ stream = << >> /\ tail = << >> /\ recorded = << >> /\ scrollback = << >>
      /\ step[e] = "idle" /\ hand[e] = << >> /\ input[e] = << >>
  BY DEF OutputInit
<1>1. << >> \in Seq(Bytes) /\ Len(<< >>) = 0
  BY EmptySeq
<1>2. OutputTypes
  BY <1>1 DEF OutputInit, OutputTypes
<1>3. FilterFollows(e)
  <2>1. CameThrough(e) = << >> /\ ToFilter(e) = << >>
    BY <1>0, <1>1, ConcatEmptySeq DEF CameThrough, ToFilter
  <2>2. 0 \in 0 .. Len(stream) /\ SubSeq(stream, 0 + 1, Len(stream)) = << >>
    BY <1>0, <1>1, SubSeqEmpty
  <2>3. Settled(stream, 0)
    BY DEF Settled
  <2>4. Through(<< >>, stream, 0)
    <3> DEFINE f == [n \in 1 .. Len(<< >>) |-> 0]
    <3>1. f \in [1 .. Len(<< >>) -> Nat]
      OBVIOUS
    <3>2. 1 .. Len(<< >>) = {} /\ 1 .. 0 = {}
      BY <1>1
    <3> HIDE DEF f
    <3> QED
      BY <3>1, <3>2 DEF Through
  <2> QED
    BY <2>1, <2>2, <2>3, <2>4 DEF FilterFollows
<1>4. KeepsAStart(e)
  <2>1. 0 \in 0 .. Width - 1 /\ SubSeq(Control, 1, 0) = << >>
    BY WidthType, SubSeqEmpty
  <2> QED
    BY <1>0, <2>1 DEF KeepsAStart
<1>5. scrollback = Newest(recorded)
  <2>1. Newest(<< >>) = << >>
    <3>1. Newest(<< >>) = SubSeq(<< >>, 1, 0)
      BY <1>1, SizeAssumption DEF Newest
    <3> QED
      BY <3>1, SubSeqEmpty
  <2> QED
    BY <1>0, <2>1
<1> QED
  BY <1>0, <1>2, <1>3, <1>4, <1>5 DEF OutputInv

\* The steps that touch neither the bytes nor the kept part.
LEMMA BytesStand ==
  ASSUME NEW e, OutputInv(e), step' \in [Emitters -> {"idle", "filter", "request", "asked"}],
         step'[e] = "filter" <=> step[e] = "filter", step'[e] = "idle" => step[e] = "idle",
         UNCHANGED <<stream, tail, input, hand, recorded, scrollback>>
  PROVE  OutputInv(e)'
<1>0. /\ stream' = stream /\ Len(stream') = Len(stream) /\ tail' = tail /\ input' = input
      /\ hand' = hand /\ recorded' = recorded /\ scrollback' = scrollback
  OBVIOUS
<1>1. OutputTypes'
  BY <1>0 DEF OutputInv, OutputTypes
<1>2. ToFilter(e)' = ToFilter(e) /\ CameThrough(e)' = CameThrough(e)
  BY <1>0 DEF ToFilter, CameThrough
<1>3. FilterFollows(e)'
  <2>1. PICK a \in 0 .. Len(stream) :
          /\ ToFilter(e) = SubSeq(stream, a + 1, Len(stream))
          /\ Settled(stream, a) /\ Through(CameThrough(e), stream, a)
    BY DEF OutputInv, FilterFollows
  <2>2. a \in 0 .. Len(stream')
    BY <1>0
  <2>3. ToFilter(e)' = SubSeq(stream', a + 1, Len(stream'))
    BY <1>0, <1>2, <2>1
  <2>4. Settled(stream', a) /\ Through(CameThrough(e)', stream', a)
    BY <1>0, <1>2, <2>1
  <2> QED
    BY <2>2, <2>3, <2>4 DEF FilterFollows
<1>4. KeepsAStart(e)'
  BY <1>0 DEF OutputInv, KeepsAStart
<1>5. step'[e] = "idle" => hand'[e] = << >>
  BY <1>0 DEF OutputInv
<1>6. scrollback' = Newest(recorded')
  BY <1>0 DEF OutputInv
<1> QED
  BY <1>1, <1>3, <1>4, <1>5, <1>6 DEF OutputInv

LEMMA TakeInv ==
  ASSUME NEW e, Emitters = {e}, OutputInv(e), NEW data \in Seq(Bytes), Take(e, data)
  PROVE  OutputInv(e)'
<1>0. /\ stream' = stream \o data /\ step[e] = "idle" /\ step'[e] = "filter" /\ tail' = << >>
      /\ input'[e] = tail \o data /\ hand' = hand /\ recorded' = recorded /\ scrollback' = scrollback
  BY DEF Take, Advance, OutputInv, OutputTypes
<1>1. OutputTypes /\ tail \in Seq(Bytes) /\ stream \in Seq(Bytes) /\ Len(stream) \in Nat
  BY LenProperties DEF OutputInv, OutputTypes
<1>2. OutputTypes'
  <2>1. stream \o data \in Seq(Bytes) /\ tail \o data \in Seq(Bytes) /\ << >> \in Seq(Bytes)
    BY <1>1, ConcatProperties, EmptySeq
  <2> QED
    BY <1>0, <1>1, <2>1 DEF Take, Advance, OutputTypes
<1>3. PICK a \in 0 .. Len(stream) :
        /\ tail = SubSeq(stream, a + 1, Len(stream))
        /\ Settled(stream, a) /\ Through(CameThrough(e), stream, a)
  BY <1>0 DEF OutputInv, FilterFollows, ToFilter
<1>4. CameThrough(e) \in Seq(Bytes) /\ CameThrough(e)' = CameThrough(e)
  <2>1. recorded \in Seq(Bytes) /\ hand[e] \in Seq(Bytes)
    BY <1>1 DEF OutputTypes
  <2> QED
    BY <1>0, <2>1, ConcatProperties DEF CameThrough
<1>5. Settled(stream \o data, a) /\ Through(CameThrough(e), stream \o data, a)
  BY <1>1, <1>3, <1>4, MoreBytes
<1>6. tail \o data = SubSeq(stream \o data, a + 1, Len(stream \o data))
  <2> DEFINE t == stream \o data
             u == tail \o data
             v == SubSeq(t, a + 1, Len(t))
  <2>1. Len(data) \in Nat /\ a \in Nat
    BY <1>1, LenProperties
  <2>2. /\ tail \in Seq(Bytes) /\ Len(tail) = Len(stream) - a
        /\ \A i \in 1 .. Len(tail) : tail[i] = stream[a + i]
    BY <1>1, <1>3, Window
  <2>3. /\ t \in Seq(Bytes) /\ Len(t) = Len(stream) + Len(data)
        /\ \A i \in 1 .. Len(stream) + Len(data) :
             t[i] = IF i <= Len(stream) THEN stream[i] ELSE data[i - Len(stream)]
    BY <1>1, ConcatProperties
  <2>4. /\ u \in Seq(Bytes) /\ Len(u) = Len(tail) + Len(data)
        /\ \A i \in 1 .. Len(tail) + Len(data) :
             u[i] = IF i <= Len(tail) THEN tail[i] ELSE data[i - Len(tail)]
    BY <1>1, ConcatProperties
  <2>5. a \in 0 .. Len(t)
    BY <1>1, <2>1, <2>3
  <2> HIDE DEF t, u
  <2>6. /\ v \in Seq(Bytes) /\ Len(v) = Len(t) - a
        /\ \A i \in 1 .. Len(v) : v[i] = t[a + i]
    BY <2>3, <2>5, Window
  <2> HIDE DEF v
  <2>7. Len(u) = Len(v)
    BY <1>1, <2>1, <2>2, <2>3, <2>4, <2>6
  <2>8. ASSUME NEW i \in 1 .. Len(u) PROVE u[i] = v[i]
    <3>1. CASE i <= Len(tail)
      <4>1. i \in 1 .. Len(tail) /\ i \in 1 .. Len(tail) + Len(data) /\ i \in 1 .. Len(v)
            /\ a + i \in 1 .. Len(stream) + Len(data) /\ a + i <= Len(stream)
        BY <1>1, <2>1, <2>2, <2>4, <2>7, <3>1
      <4>2. u[i] = tail[i] /\ tail[i] = stream[a + i]
        BY <2>2, <2>4, <3>1, <4>1
      <4>3. v[i] = t[a + i] /\ t[a + i] = stream[a + i]
        BY <2>3, <2>6, <4>1
      <4> QED
        BY <4>2, <4>3
    <3>2. CASE ~ (i <= Len(tail))
      <4>1. i \in 1 .. Len(tail) + Len(data) /\ i \in 1 .. Len(v)
            /\ a + i \in 1 .. Len(stream) + Len(data) /\ ~ (a + i <= Len(stream))
            /\ (a + i) - Len(stream) = i - Len(tail)
        BY <1>1, <2>1, <2>2, <2>4, <2>7, <3>2
      <4>2. u[i] = data[i - Len(tail)]
        BY <2>4, <3>2, <4>1
      <4>3. v[i] = t[a + i] /\ t[a + i] = data[i - Len(tail)]
        BY <2>3, <2>6, <4>1
      <4> QED
        BY <4>2, <4>3
    <3> QED
      BY <3>1, <3>2
  <2>9. u = v
    BY <2>4, <2>6, <2>7, <2>8, SeqEqual
  <2> QED
    BY <2>9 DEF u, v, t
<1>7. FilterFollows(e)'
  <2>1. a \in 0 .. Len(stream \o data)
    <3>1. Len(stream \o data) = Len(stream) + Len(data) /\ Len(data) \in Nat
      BY <1>1, ConcatProperties, LenProperties
    <3> QED
      BY <1>1, <3>1
  <2>2. ToFilter(e)' = tail \o data
    BY <1>0 DEF ToFilter
  <2>3. Len(stream') = Len(stream \o data)
    BY <1>0
  <2>4. a \in 0 .. Len(stream') /\ ToFilter(e)' = SubSeq(stream', a + 1, Len(stream'))
    BY <1>0, <1>6, <2>1, <2>2, <2>3
  <2>5. Settled(stream', a) /\ Through(CameThrough(e)', stream', a)
    BY <1>0, <1>4, <1>5
  <2> QED
    BY <2>4, <2>5 DEF FilterFollows
<1>8. KeepsAStart(e)'
  BY <1>0 DEF KeepsAStart
<1>9. step'[e] # "idle" /\ scrollback' = Newest(recorded')
  BY <1>0 DEF OutputInv
<1> QED
  BY <1>2, <1>7, <1>8, <1>9 DEF OutputInv

LEMMA ThreeParts ==
  ASSUME NEW p \in Seq(Bytes), NEW q \in Seq(Bytes), NEW t \in Seq(Bytes)
  PROVE  p \o (q \o t) = (p \o q) \o t
  BY ConcatAssociative

LEMMA CutInv ==
  ASSUME NEW e, Emitters = {e}, OutputInv(e), Cut(e)
  PROVE  OutputInv(e)'
<1>0. /\ step[e] = "filter" /\ tail = << >> /\ OutputTypes /\ input[e] \in Seq(Bytes)
      /\ hand[e] \in Seq(Bytes) /\ recorded \in Seq(Bytes) /\ stream \in Seq(Bytes)
      /\ Len(stream) \in Nat /\ Width \in Nat /\ Width >= 1
  BY LenProperties, WidthType DEF Cut, OutputInv, OutputTypes, KeepsAStart
<1>1. /\ stream' = stream /\ Len(stream') = Len(stream) /\ tail' = tail /\ step' = step
      /\ recorded' = recorded /\ scrollback' = scrollback
  BY DEF Cut
<1>2. PICK c \in StartsAt(input[e]) :
        /\ \A i \in StartsAt(input[e]) : c <= i
        /\ hand' = [hand EXCEPT ![e] = @ \o SubSeq(input[e], 1, c - 1)]
        /\ input' = [input EXCEPT ![e] = SubSeq(@, c + Width, Len(@))]
  BY DEF Cut, Width
<1> DEFINE r == input[e]
           x == SubSeq(r, 1, c - 1)
           y == SubSeq(r, c + Width, Len(r))
<1>3. PICK a \in 0 .. Len(stream) :
        /\ r = SubSeq(stream, a + 1, Len(stream))
        /\ Settled(stream, a) /\ Through(CameThrough(e), stream, a)
  BY <1>0 DEF OutputInv, FilterFollows, ToFilter
<1>4. hand'[e] = hand[e] \o x /\ input'[e] = y
  BY <1>0, <1>2 DEF OutputTypes
<1> HIDE DEF r
<1>5. /\ r \in Seq(Bytes) /\ Len(r) = Len(stream) - a /\ a \in Nat
      /\ \A i \in Nat \ {0}, j \in 0 .. Len(r) : SubSeq(r, i, j) = SubSeq(stream, a + i, a + j)
      /\ \A i \in Nat \ {0} : Begun(r, i) <=> Begun(stream, a + i)
  <2>1. stream \in Seq(Bytes) /\ a \in Nat /\ r = SubSeq(stream, a + 1, Len(stream))
    BY <1>0, <1>3
  <2> HIDE DEF x, y
  <2>2. r \in Seq(Bytes) /\ Len(r) = Len(stream) - a
    BY <2>1, Window
  <2>3. \A i \in Nat \ {0}, j \in 0 .. Len(r) : SubSeq(r, i, j) = SubSeq(stream, a + i, a + j)
    BY <2>1, Window
  <2>4. \A i \in Nat \ {0} : Begun(r, i) <=> Begun(stream, a + i)
    BY <2>1, Window
  <2> QED
    BY <2>1, <2>2, <2>3, <2>4
<1>6. c \in Nat /\ c >= 1 /\ c + Width - 1 <= Len(r) /\ Begun(r, c)
  <2>1. StartsAt(r) \subseteq Nat /\ c \in StartsAt(r)
    BY <1>2 DEF StartsAt, r
  <2> QED
    BY <1>5, <2>1, StartsPointwise
<1>7. a + c \in StartsAt(stream) /\ a + c > a
  <2>1. a + c \in Nat /\ a + c >= 1 /\ (a + c) + Width - 1 <= Len(stream) /\ c \in Nat \ {0}
    BY <1>0, <1>5, <1>6
  <2> QED
    BY <1>0, <1>5, <1>6, <2>1, StartsPointwise
<1>8. ASSUME NEW i \in StartsAt(stream), i > a PROVE a + c <= i
  <2>1. i \in Nat /\ i + Width - 1 <= Len(stream) /\ Begun(stream, i)
    <3>1. i \in Nat
      BY <1>0 DEF StartsAt, Width
    <3> QED
      BY <1>0, <3>1, StartsPointwise
  <2>2. i - a \in Nat \ {0} /\ i - a >= 1 /\ a + (i - a) = i /\ (i - a) + Width - 1 <= Len(r)
    BY <1>0, <1>5, <1>8, <2>1
  <2>3. i - a \in StartsAt(r)
    BY <1>5, <2>1, <2>2, StartsPointwise
  <2>4. c <= i - a
    BY <1>2, <2>3 DEF r
  <2> QED
    BY <1>5, <1>6, <2>1, <2>4
<1>9. CameThrough(e) \in Seq(Bytes)
  BY <1>0, ConcatProperties DEF CameThrough
<1>10. x = SubSeq(stream, a + 1, (a + c) - 1) /\ y = SubSeq(stream, (a + c) + Width, Len(stream))
  <2> HIDE DEF x, y
  <2>0. /\ Len(r) = Len(stream) - a /\ a \in Nat /\ c \in Nat /\ c >= 1 /\ c + Width - 1 <= Len(r)
        /\ Len(r) \in Nat
    BY <1>5, <1>6, LenProperties
  <2>1. 1 \in Nat \ {0} /\ c - 1 \in 0 .. Len(r) /\ a + (c - 1) = (a + c) - 1
    BY <1>0, <2>0
  <2>2. c + Width \in Nat \ {0} /\ Len(r) \in 0 .. Len(r) /\ a + Len(r) = Len(stream)
        /\ a + (c + Width) = (a + c) + Width
    BY <1>0, <2>0
  <2> USE DEF x, y
  <2>3. x = SubSeq(stream, a + 1, a + (c - 1))
    BY <1>5, <2>1
  <2>4. y = SubSeq(stream, a + (c + Width), a + Len(r))
    BY <1>5, <2>2
  <2> QED
    BY <2>1, <2>2, <2>3, <2>4
<1>11. x \in Seq(Bytes) /\ y \in Seq(Bytes)
  <2>1. \A j \in 1 .. Len(r) : r[j] \in Bytes
    BY <1>5, ElementOfSeq
  <2>2. Len(r) \in Nat
    BY <1>5, LenProperties
  <2>3. x \in Seq(Bytes)
    <3>1. \A j \in 1 .. c - 1 : r[j] \in Bytes
      BY <1>0, <1>6, <2>1, <2>2
    <3> QED
      BY <1>6, <3>1, SubSeqProperties
  <2>4. y \in Seq(Bytes)
    <3>1. \A j \in c + Width .. Len(r) : r[j] \in Bytes
      BY <1>0, <1>6, <2>1, <2>2
    <3> QED
      BY <1>0, <1>6, <2>2, <3>1, SubSeqProperties
  <2> QED
    BY <2>3, <2>4
<1> HIDE DEF x, y
<1>12. /\ Settled(stream, (a + c) + Width - 1)
       /\ Through(CameThrough(e) \o x, stream, (a + c) + Width - 1)
  <2> DEFINE p == a + c
  <2>1. p \in StartsAt(stream) /\ p > a /\ \A i \in StartsAt(stream) : i > a => p <= i
    BY <1>7, <1>8
  <2>2. x = SubSeq(stream, a + 1, p - 1)
    BY <1>10
  <2> HIDE DEF p
  <2>3. /\ Settled(stream, p + Width - 1)
        /\ Through(CameThrough(e) \o SubSeq(stream, a + 1, p - 1), stream, p + Width - 1)
    BY <1>0, <1>3, <1>9, <2>1, OneCut
  <2> QED
    BY <2>2, <2>3 DEF p
<1>13. CameThrough(e)' = CameThrough(e) \o x
  <2>1. recorded \o (hand[e] \o x) = (recorded \o hand[e]) \o x
    BY <1>0, <1>11, ThreeParts
  <2> QED
    BY <1>1, <1>4, <2>1 DEF CameThrough
<1>14. FilterFollows(e)'
  <2> DEFINE b == (a + c) + Width - 1
  <2>0. Len(r) = Len(stream) - a /\ a \in Nat /\ c \in Nat /\ c >= 1 /\ c + Width - 1 <= Len(r)
    BY <1>5, <1>6
  <2>1. b \in 0 .. Len(stream) /\ b + 1 = (a + c) + Width
    BY <1>0, <2>0
  <2>2. ToFilter(e)' = SubSeq(stream, b + 1, Len(stream))
    <3>1. ToFilter(e)' = y
      BY <1>0, <1>1, <1>4 DEF ToFilter
    <3> HIDE DEF b
    <3> QED
      BY <1>10, <2>1, <3>1
  <2>3. Settled(stream, b) /\ Through(CameThrough(e)', stream, b)
    BY <1>12, <1>13
  <2> HIDE DEF b
  <2>4. b \in 0 .. Len(stream') /\ ToFilter(e)' = SubSeq(stream', b + 1, Len(stream'))
    BY <1>1, <2>1, <2>2
  <2>5. Settled(stream', b) /\ Through(CameThrough(e)', stream', b)
    BY <1>1, <2>3
  <2> QED
    BY <2>4, <2>5 DEF FilterFollows
<1>15. OutputTypes'
  <2>1. hand[e] \o x \in Seq(Bytes)
    BY <1>0, <1>11, ConcatProperties
  <2>2. hand' = [hand EXCEPT ![e] = hand[e] \o x] /\ input' = [input EXCEPT ![e] = y]
    BY <1>2 DEF x, y, r
  <2> QED
    BY <1>0, <1>1, <1>11, <2>1, <2>2 DEF OutputTypes
<1>16. KeepsAStart(e)'
  BY <1>0, <1>1 DEF KeepsAStart
<1>17. step'[e] # "idle" /\ scrollback' = Newest(recorded')
  BY <1>0, <1>1 DEF OutputInv
<1> QED
  BY <1>14, <1>15, <1>16, <1>17 DEF OutputInv

LEMMA PassInv ==
  ASSUME NEW e, Emitters = {e}, OutputInv(e), Pass(e)
  PROVE  OutputInv(e)'
<1> DEFINE r == input[e]
           k == KeptBack(r)
           n == Len(r) - k
           x == SubSeq(r, 1, n)
           y == SubSeq(r, n + 1, Len(r))
<1>0. /\ step[e] = "filter" /\ tail = << >> /\ OutputTypes /\ input[e] \in Seq(Bytes)
      /\ hand[e] \in Seq(Bytes) /\ recorded \in Seq(Bytes) /\ stream \in Seq(Bytes)
      /\ Len(stream) \in Nat /\ Width \in Nat /\ Width >= 1 /\ StartsAt(r) = {}
  BY LenProperties, WidthType DEF Pass, PassBut, Advance, OutputInv, OutputTypes, KeepsAStart
<1>1. /\ stream' = stream /\ Len(stream') = Len(stream)
      /\ step' = [step EXCEPT ![e] = "request"] /\ step'[e] = "request"
      /\ recorded' = recorded /\ scrollback' = scrollback
      /\ hand' = [hand EXCEPT ![e] = hand[e] \o x] /\ hand'[e] = hand[e] \o x
      /\ input' = [input EXCEPT ![e] = << >>]
      /\ tail' = IF k = 0 THEN tail ELSE y
  BY <1>0 DEF Pass, PassBut, Advance, OutputTypes
<1>2. PICK a \in 0 .. Len(stream) :
        /\ r = SubSeq(stream, a + 1, Len(stream))
        /\ Settled(stream, a) /\ Through(CameThrough(e), stream, a)
  BY <1>0 DEF OutputInv, FilterFollows, ToFilter
<1>3. /\ r \in Seq(Bytes) /\ Len(r) = Len(stream) - a /\ a \in Nat
      /\ \A i \in Nat \ {0}, j \in 0 .. Len(r) : SubSeq(r, i, j) = SubSeq(stream, a + i, a + j)
      /\ \A i \in Nat \ {0} : Begun(r, i) <=> Begun(stream, a + i)
  <2>1. stream \in Seq(Bytes) /\ a \in Nat /\ r = SubSeq(stream, a + 1, Len(stream))
    BY <1>0, <1>2
  <2> HIDE DEF r, k, n, x, y
  <2>2. r \in Seq(Bytes) /\ Len(r) = Len(stream) - a
    BY <2>1, Window
  <2>3. \A i \in Nat \ {0}, j \in 0 .. Len(r) : SubSeq(r, i, j) = SubSeq(stream, a + i, a + j)
    BY <2>1, Window
  <2>4. \A i \in Nat \ {0} : Begun(r, i) <=> Begun(stream, a + i)
    BY <2>1, Window
  <2> QED
    BY <2>1, <2>2, <2>3, <2>4
<1>4. k \in 0 .. Width - 1 /\ k <= Len(r) /\ SubSeq(r, Len(r) - k + 1, Len(r)) = SubSeq(Control, 1, k)
  BY <1>3, KeptBackIs
<1>5. \A i \in 1 .. n : ~ Begun(r, i)
  BY <1>0, <1>3, KeptBackIsAll
<1> HIDE DEF k, r
<1>6. n \in Nat /\ n \in 0 .. Len(r) /\ Len(r) \in Nat /\ n + 1 \in Nat \ {0}
  BY <1>3, <1>4
<1>7. y = SubSeq(Control, 1, k) /\ tail' = y
  <2>1. CASE k = 0
    <3>1. y = << >>
      BY <1>6, <2>1, SubSeqEmpty
    <3>2. SubSeq(Control, 1, k) = << >>
      BY <2>1, SubSeqEmpty
    <3> QED
      BY <1>0, <1>1, <2>1, <3>1, <3>2
  <2>2. CASE k # 0
    BY <1>1, <1>4, <2>2
  <2> QED
    BY <2>1, <2>2
<1>8. x \in Seq(Bytes) /\ y \in Seq(Bytes)
  <2>1. \A j \in 1 .. Len(r) : r[j] \in Bytes
    BY <1>3, ElementOfSeq
  <2>2. x \in Seq(Bytes)
    <3>1. \A j \in 1 .. n : r[j] \in Bytes
      BY <1>6, <2>1
    <3> QED
      BY <1>6, <3>1, SubSeqProperties
  <2>3. y \in Seq(Bytes)
    <3>1. \A j \in n + 1 .. Len(r) : r[j] \in Bytes
      BY <1>6, <2>1
    <3> QED
      BY <1>6, <3>1, SubSeqProperties
  <2> QED
    BY <2>2, <2>3
<1> DEFINE b == a + n
<1>9. /\ x = SubSeq(stream, a + 1, b) /\ y = SubSeq(stream, b + 1, Len(stream))
      /\ b \in a .. Len(stream)
  <2>1. 1 \in Nat \ {0} /\ Len(r) \in 0 .. Len(r) /\ a + Len(r) = Len(stream) /\ a + (n + 1) = b + 1
    BY <1>0, <1>3, <1>6
  <2>2. x = SubSeq(stream, a + 1, a + n)
    BY <1>3, <1>6, <2>1
  <2>3. y = SubSeq(stream, a + (n + 1), a + Len(r))
    BY <1>3, <1>6, <2>1
  <2>4. b \in a .. Len(stream)
    BY <1>3, <1>6, <2>1
  <2> QED
    BY <2>1, <2>2, <2>3, <2>4
<1>10. ASSUME NEW i \in a + 1 .. b PROVE ~ Begun(stream, i)
  <2>1. i - a \in 1 .. n /\ i - a \in Nat \ {0} /\ a + (i - a) = i
    BY <1>3, <1>6
  <2> QED
    BY <1>3, <1>5, <2>1
<1> HIDE DEF x, y, n, b
<1>11. CameThrough(e) \in Seq(Bytes)
  BY <1>0, ConcatProperties DEF CameThrough
<1>12. Settled(stream, b) /\ Through(CameThrough(e) \o x, stream, b)
  <2>1. /\ Settled(stream, b)
        /\ Through(CameThrough(e) \o SubSeq(stream, a + 1, b), stream, b)
    BY <1>0, <1>2, <1>9, <1>10, <1>11, LastPart
  <2> QED
    BY <1>9, <2>1
<1>13. CameThrough(e)' = CameThrough(e) \o x
  <2>1. recorded \o (hand[e] \o x) = (recorded \o hand[e]) \o x
    BY <1>0, <1>8, ThreeParts
  <2> QED
    BY <1>1, <2>1 DEF CameThrough
<1>14. FilterFollows(e)'
  <2>1. b \in 0 .. Len(stream')
    BY <1>0, <1>1, <1>3, <1>9
  <2>2. ToFilter(e)' = SubSeq(stream', b + 1, Len(stream'))
    BY <1>1, <1>7, <1>9 DEF ToFilter
  <2>3. Settled(stream', b) /\ Through(CameThrough(e)', stream', b)
    BY <1>1, <1>12, <1>13
  <2> QED
    BY <2>1, <2>2, <2>3 DEF FilterFollows
<1>15. OutputTypes'
  <2>1. hand[e] \o x \in Seq(Bytes) /\ << >> \in Seq(Bytes)
    BY <1>0, <1>8, ConcatProperties, EmptySeq
  <2>2. tail' \in Seq(Bytes)
    BY <1>7, <1>8
  <2> QED
    BY <1>0, <1>1, <2>1, <2>2 DEF OutputTypes
<1>16. KeepsAStart(e)'
  BY <1>1, <1>4, <1>7 DEF KeepsAStart
<1>17. step'[e] # "idle" /\ scrollback' = Newest(recorded')
  BY <1>1 DEF OutputInv
<1> QED
  BY <1>14, <1>15, <1>16, <1>17 DEF OutputInv

LEMMA KeepInv ==
  ASSUME NEW e, Emitters = {e}, OutputInv(e), Keep(e)
  PROVE  OutputInv(e)'
<1>0. /\ step[e] = "request" /\ OutputTypes /\ hand[e] \in Seq(Bytes) /\ recorded \in Seq(Bytes)
      /\ scrollback = Newest(recorded)
  BY DEF Keep, Advance, OutputInv, OutputTypes
<1>1. /\ stream' = stream /\ Len(stream') = Len(stream) /\ tail' = tail /\ input' = input
      /\ step' = [step EXCEPT ![e] = "idle"] /\ step'[e] = "idle"
      /\ recorded' = recorded \o hand[e] /\ scrollback' = Newest(scrollback \o hand[e])
      /\ hand' = [hand EXCEPT ![e] = << >>] /\ hand'[e] = << >>
  BY <1>0 DEF Keep, Advance, OutputTypes
<1>2. recorded \o hand[e] \in Seq(Bytes) /\ << >> \in Seq(Bytes)
  BY <1>0, ConcatProperties, EmptySeq
<1>3. scrollback' = Newest(recorded') /\ scrollback' \in Seq(Bytes)
  <2>1. Newest(Newest(recorded) \o hand[e]) = Newest(recorded \o hand[e])
    BY <1>0, NewestOfMore
  <2>2. Newest(recorded \o hand[e]) \in Seq(Bytes)
    BY <1>2, NewestOfMore
  <2> QED
    BY <1>0, <1>1, <2>1, <2>2
<1>4. OutputTypes'
  BY <1>0, <1>1, <1>2, <1>3 DEF OutputTypes
<1>5. ToFilter(e)' = ToFilter(e) /\ CameThrough(e)' = CameThrough(e)
  <2>1. (recorded \o hand[e]) \o << >> = recorded \o hand[e]
    BY <1>2, ConcatEmptySeq
  <2> QED
    BY <1>0, <1>1, <2>1 DEF ToFilter, CameThrough
<1>6. FilterFollows(e)'
  <2>1. PICK a \in 0 .. Len(stream) :
          /\ ToFilter(e) = SubSeq(stream, a + 1, Len(stream))
          /\ Settled(stream, a) /\ Through(CameThrough(e), stream, a)
    BY DEF OutputInv, FilterFollows
  <2>2. a \in 0 .. Len(stream') /\ ToFilter(e)' = SubSeq(stream', a + 1, Len(stream'))
    BY <1>1, <1>5, <2>1
  <2>3. Settled(stream', a) /\ Through(CameThrough(e)', stream', a)
    BY <1>1, <1>5, <2>1
  <2> QED
    BY <2>2, <2>3 DEF FilterFollows
<1>7. KeepsAStart(e)'
  BY <1>0, <1>1 DEF OutputInv, KeepsAStart
<1> QED
  BY <1>1, <1>3, <1>4, <1>6, <1>7 DEF OutputInv

LEMMA OutputStepInv ==
  ASSUME NEW e, Emitters = {e}, OutputInv(e), [OutputNext]_outputVars
  PROVE  OutputInv(e)'
<1>0. step \in [Emitters -> {"idle", "filter", "request", "asked"}]
  BY DEF OutputInv, OutputTypes
<1>1. CASE Cut(e)
  BY <1>1, CutInv
<1>2. CASE Pass(e)
  BY <1>2, PassInv
<1>3. CASE Keep(e)
  BY <1>3, KeepInv
<1>4. CASE \E data \in BoundedSeq(Bytes, MaxBytes) \ {<< >>} : Take(e, data)
  <2>1. PICK data \in BoundedSeq(Bytes, MaxBytes) : Take(e, data)
    BY <1>4
  <2>2. data \in Seq(Bytes)
    BY <2>1, SizeAssumption DEF BoundedSeq, SeqOf
  <2> QED
    BY <2>1, <2>2, TakeInv
<1>5. CASE AskedBefore(e) \/ Ask(e) \/ BeginSetup(e)
  <2>1. /\ step' \in [Emitters -> {"idle", "filter", "request", "asked"}]
        /\ step[e] # "filter" /\ step'[e] \notin {"filter", "idle"}
    BY <1>0, <1>5 DEF AskedBefore, Ask, BeginSetup, Advance
  <2>2. UNCHANGED <<stream, tail, input, hand, recorded, scrollback>>
    BY <1>5 DEF AskedBefore, Ask, BeginSetup
  <2> QED
    BY <2>1, <2>2, BytesStand
<1>6. CASE EndSetup \/ OutputRest \/ UNCHANGED outputVars
  <2>1. step' = step
    BY <1>6 DEF EndSetup, OutputRest, outputVars
  <2>2. UNCHANGED <<stream, tail, input, hand, recorded, scrollback>>
    BY <1>6 DEF EndSetup, OutputRest, outputVars
  <2> QED
    BY <1>0, <2>1, <2>2, BytesStand
<1> QED
  BY <1>1, <1>2, <1>3, <1>4, <1>5, <1>6 DEF OutputNext

\* With an emitter at rest, what it filtered is all of the stream but an end.
LEMMA AtRestTransparent ==
  ASSUME NEW e, Emitters = {e}, OutputInv(e)
  PROVE  FilterIsTransparent
<1>1. SUFFICES ASSUME step[e] = "idle"
               PROVE  /\ recorded \o tail = Plain(stream)
                      /\ scrollback = Newest(recorded)
                      /\ \E n \in 0 .. Len(Control) - 1 : tail = SubSeq(Control, 1, n)
  BY DEF FilterIsTransparent
<1>2. /\ stream \in Seq(Bytes) /\ tail \in Seq(Bytes) /\ recorded \in Seq(Bytes)
      /\ hand[e] = << >> /\ Len(stream) \in Nat /\ Width \in Nat /\ Control \in Seq(Bytes)
  BY <1>1, LenProperties, WidthType DEF OutputInv, OutputTypes
<1>3. PICK n \in 0 .. Width - 1 : tail = SubSeq(Control, 1, n)
  BY <1>1 DEF OutputInv, KeepsAStart
<1>4. PICK a \in 0 .. Len(stream) :
        /\ tail = SubSeq(stream, a + 1, Len(stream))
        /\ Settled(stream, a) /\ Through(recorded, stream, a)
  <2>1. CameThrough(e) = recorded
    BY <1>2, ConcatEmptySeq DEF CameThrough
  <2> QED
    BY <1>1, <2>1 DEF OutputInv, FilterFollows, ToFilter
<1>5. Len(stream) - a < Width
  <2>1. Len(tail) = Len(stream) - a
    BY <1>2, <1>4, Window
  <2>2. Len(tail) = n
    <3>1. \A j \in 1 .. n : Control[j] \in Bytes
      BY <1>2, <1>3, ElementOfSeq DEF Width
    <3>2. Len(SubSeq(Control, 1, n)) = IF 1 <= n THEN n - 1 + 1 ELSE 0
      BY <1>2, <3>1, SubSeqProperties
    <3> QED
      BY <1>2, <1>3, <3>2
  <2> QED
    BY <1>2, <2>1, <2>2
<1>6. \A i \in a + 1 .. Len(stream) : i \notin StartsAt(stream)
  BY <1>2, <1>5, StartsPointwise
<1>7. Len(stream) \in a .. Len(stream)
  BY <1>2
<1>8. \A p \in a + 1 .. Len(stream) : p \notin Covered(stream)
  BY <1>2, <1>4, <1>6, <1>7, Uncovered
<1>9. Through(recorded \o tail, stream, Len(stream))
  BY <1>2, <1>4, <1>7, <1>8, FreeBytes
<1>10. recorded \o tail \in Seq(Bytes)
  BY <1>2, ConcatProperties
<1>11. recorded \o tail = Plain(stream)
  BY <1>2, <1>9, <1>10, ThroughIsPlain
<1> QED
  BY <1>3, <1>11 DEF OutputInv, Width

\* With one emitter the filter is transparent wherever the reads cut the stream,
\* for any bytes, any control sequence whose first byte occurs in it but once,
\* and any size of the scrollback.
THEOREM FilterHidesControls ==
  ASSUME NEW e, Emitters = {e}
  PROVE  OutputSpec => []FilterIsTransparent
<1>1. OutputInit => OutputInv(e)
  BY OutputInitInv
<1>2. OutputInv(e) /\ [OutputNext]_outputVars => OutputInv(e)'
  BY OutputStepInv
<1>3. OutputInv(e) => FilterIsTransparent
  BY AtRestTransparent
<1> QED
  BY <1>1, <1>2, <1>3, PTL DEF OutputSpec
=============================================================================
