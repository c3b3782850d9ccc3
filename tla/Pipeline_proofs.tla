-------------------------- MODULE Pipeline_proofs --------------------------
(***************************************************************************)
(* What holds of a pipeline of any number of programs, with pipes of any   *)
(* capacity: a Ctrl+C reaches each of them once the worker waits, and none *)
(* runs on after a command whose programs were all started.                *)
(*                                                                         *)
(* interrupt() signals what is registered, the worker what it registered   *)
(* too late.  So the invariant follows the worker's stage: below it every  *)
(* program is registered, and has its signal if there was a Ctrl+C; and as *)
(* the worker waits for the last program and then for the others, they     *)
(* have ended one after the other.  Nothing but Spawn makes a program run. *)
(***************************************************************************)
EXTENDS Pipeline, TLAPS

Starting == {"parse", "spawn", "register", "check"}
Waiting  == {"wait", "join", "upstream", "errors"}

WorkerTypes ==
  /\ pc \in Starting \union Waiting \union {"done"} /\ stage \in Stages
  /\ limited \in BOOLEAN /\ failed \in BOOLEAN
  /\ held \in SUBSET Stages /\ registered \in SUBSET Stages
  /\ latch \in BOOLEAN /\ int \in SUBSET Stages /\ timers \in SUBSET SUBSET Stages
  /\ interrupts \in 0 .. MaxInterrupts

ProgramTypes ==
  /\ proc \in [Stages -> {"none", "running", "out", "err", "in", "dead"}]
  /\ stubborn \in SUBSET Stages /\ linger \in BOOLEAN
  /\ writes \in [Stages -> 0 .. MaxWrites]
  /\ out \in [Stages -> 0 .. Capacity] /\ err \in [Stages -> 0 .. Capacity]

\* The variables have their types.
TypeOK == WorkerTypes /\ ProgramTypes

\* The worker waits when it has started the last program.
AllStarted == pc \in Waiting => stage = Last

\* The programs whose start the worker is through with.
Through(s) == s < stage \/ pc \in Waiting

\* What runs is registered, but for the program that was just started.
RegisteredInTime ==
  pc # "done" => \A s \in Stages : Through(s) \/ (s = stage /\ pc = "check") => s \in registered

\* No interrupt is lost between a spawn and its registration.
SignalledInTime ==
  pc # "done" /\ latch => \A s \in Stages : Through(s) /\ Alive(s) => s \in int

\* What the worker has waited for has ended.
EndedInTurn ==
  /\ pc \in {"join", "upstream", "errors"} => ~ Alive(Last)
  /\ pc = "errors" \/ (pc = "done" /\ ~ failed) => \A s \in Stages : ~ Alive(s)

IInv == TypeOK /\ AllStarted /\ RegisteredInTime /\ SignalledInTime /\ EndedInTurn

-----------------------------------------------------------------------------
LEMMA LastIsStage == 1 \in Stages /\ Last \in Stages /\ Stages \subseteq Nat
  BY LastAssumption DEF Stages

LEMMA ZeroFits == 0 \in 0 .. MaxWrites /\ 0 \in 0 .. MaxInterrupts /\ 0 \in 0 .. Capacity
  BY BoundsAssumption

LEMMA InitInv == Init => IInv
  <1> SUFFICES ASSUME Init PROVE IInv
    OBVIOUS
  <1>1. WorkerTypes
    BY LastIsStage, ZeroFits DEF Init, WorkerTypes, Starting, Waiting
  <1>2. ProgramTypes
    BY ZeroFits DEF Init, ProgramTypes
  <1>3. RegisteredInTime
    BY DEF Init, RegisteredInTime, Through, Waiting, Stages
  <1>4. AllStarted /\ SignalledInTime /\ EndedInTurn
    BY DEF Init, AllStarted, SignalledInTime, EndedInTurn, Waiting
  <1> QED
    BY <1>1, <1>2, <1>3, <1>4 DEF IInv, TypeOK

\* A step in which the worker and the signals rest and no program comes to life
\* keeps the invariant: so do all steps of the programs and of the kernel.
LEMMA OnlyDying ==
  ASSUME IInv, UNCHANGED <<worker, signals>>, ProgramTypes',
         \A s \in Stages : Alive(s)' => Alive(s)
  PROVE  IInv'
  <1>1. WorkerTypes' /\ AllStarted'
    BY DEF IInv, TypeOK, WorkerTypes, AllStarted, worker, signals
  <1>2. RegisteredInTime'
    BY DEF IInv, RegisteredInTime, Through, worker
  <1>3. SignalledInTime'
    BY DEF IInv, SignalledInTime, Through, worker, signals
  <1>4. EndedInTurn'
    BY LastIsStage DEF IInv, EndedInTurn, worker
  <1> QED
    BY <1>1, <1>2, <1>3, <1>4 DEF IInv, TypeOK

\* A program does one thing after another and lives until it dies.
LEMMA DoesLives ==
  ASSUME ProgramTypes, NEW s \in Stages, NEW from \in {"running", "out", "err", "in"},
         NEW to \in {"running", "out", "err", "in", "dead"}, Does(s, from, to)
  PROVE  /\ UNCHANGED <<worker, signals>>
         /\ proc' \in [Stages -> {"none", "running", "out", "err", "in", "dead"}]
         /\ stubborn' \in SUBSET Stages
         /\ \A r \in Stages : Alive(r)' => Alive(r)
  BY DEF Does, ProgramTypes, Alive

\* The steps of a program and of the kernel keep the invariant.
LEMMA ProgramSteps ==
  ASSUME IInv, NEW s \in Stages,
         Write(s, "out") \/ Write(s, "err") \/ Read(s) \/ Exit(s) \/ Kernel(s)
  PROVE  IInv'
  <1> USE DEF IInv, TypeOK
  <1>1. ASSUME NEW to \in {"out", "err"}, Write(s, to) PROVE IInv'
    <2>1. writes' \in [Stages -> 0 .. MaxWrites]
      BY <1>1, BoundsAssumption DEF Write, ProgramTypes
    <2> QED
      BY <1>1, <2>1, DoesLives, OnlyDying DEF Write, ProgramTypes
  <1>2. CASE Wrote(s)
    <2>1. out' \in [Stages -> 0 .. Capacity]
      BY <1>2, BoundsAssumption DEF Wrote, ProgramTypes
    <2> QED
      BY <1>2, <2>1, DoesLives, OnlyDying DEF Wrote, ProgramTypes
  <1>3. CASE WroteError(s)
    <2>1. err' \in [Stages -> 0 .. Capacity]
      BY <1>3, BoundsAssumption DEF WroteError, ProgramTypes
    <2> QED
      BY <1>3, <2>1, DoesLives, OnlyDying DEF WroteError, ProgramTypes
  <1>4. CASE Broken(s)
    BY <1>4, DoesLives, OnlyDying DEF Broken, ProgramTypes
  <1>5. CASE Read(s)
    BY <1>5, DoesLives, OnlyDying DEF Read, ProgramTypes
  <1>6. CASE WasRead(s)
    <2>1. out' \in [Stages -> 0 .. Capacity]
      BY <1>6, BoundsAssumption DEF WasRead, ProgramTypes, Stages
    <2> QED
      BY <1>6, <2>1, DoesLives, OnlyDying DEF WasRead, ProgramTypes
  <1>7. CASE Exit(s)
    <2>1. linger' \in BOOLEAN
      BY <1>7 DEF Exit, ProgramTypes
    <2> QED
      BY <1>7, <2>1, DoesLives, OnlyDying DEF Exit, ProgramTypes
  <1>8. CASE Die(s)
    <2>1. proc[s] \in {"running", "out", "err", "in"}
      BY <1>8 DEF Die, Alive, ProgramTypes
    <2> QED
      BY <1>8, <2>1, DoesLives, OnlyDying DEF Die, ProgramTypes
  <1> QED
    BY <1>1, <1>2, <1>3, <1>4, <1>5, <1>6, <1>7, <1>8 DEF Kernel

\* The worker's own steps keep it.
LEMMA WorkerSteps ==
  ASSUME IInv, Worker \/ Refuse \/ SpawnFails \/ TimedOut
  PROVE  IInv'
  <1> USE LastIsStage DEF IInv, TypeOK, Goto, programs, signals
  <1>1. CASE Refuse \/ SpawnFails
    BY <1>1 DEF Refuse, SpawnFails, WorkerTypes, ProgramTypes, AllStarted, RegisteredInTime,
                SignalledInTime, EndedInTurn, Waiting, Starting
  <1>2. CASE Parse
    BY <1>2 DEF Parse, WorkerTypes, ProgramTypes, AllStarted, RegisteredInTime, SignalledInTime,
                EndedInTurn, Through, Alive, Waiting, Starting
  <1>3. CASE Spawn
    <2>1. TypeOK'
      BY <1>3 DEF Spawn, WorkerTypes, ProgramTypes, Waiting, Starting
    <2>2. AllStarted' /\ RegisteredInTime' /\ EndedInTurn'
      BY <1>3 DEF Spawn, AllStarted, RegisteredInTime, EndedInTurn, Through, Waiting
    <2>3. SignalledInTime'
      BY <1>3 DEF Spawn, SignalledInTime, Through, Alive, WorkerTypes, ProgramTypes, Stages, Waiting
    <2> QED
      BY <2>1, <2>2, <2>3
  <1>4. CASE Register
    BY <1>4 DEF Register, WorkerTypes, ProgramTypes, AllStarted, RegisteredInTime, SignalledInTime,
                EndedInTurn, Through, Alive, Waiting, Starting
  <1>5. CASE Check
    <2>1. WorkerTypes' /\ ProgramTypes' /\ AllStarted'
      <3>1. stage' \in Stages
        BY <1>5, LastAssumption DEF Check, WorkerTypes, Stages
      <3>2. WorkerTypes' /\ ProgramTypes'
        BY <1>5, <3>1 DEF Check, WorkerTypes, ProgramTypes, Waiting, Starting
      <3>3. AllStarted'
        BY <1>5, LastAssumption DEF Check, WorkerTypes, AllStarted, Stages, Waiting
      <3> QED
        BY <3>2, <3>3
    <2>2. \A r \in Stages : Through(r)' => Through(r) \/ r = stage
      BY <1>5, LastAssumption DEF Check, Through, WorkerTypes, Stages, Waiting, Starting
    <2>3. RegisteredInTime'
      BY <1>5, <2>2 DEF Check, RegisteredInTime
    <2>4. SignalledInTime'
      BY <1>5, <2>2 DEF Check, SignalledInTime, Alive
    <2>5. EndedInTurn'
      BY <1>5 DEF Check, EndedInTurn
    <2> QED
      BY <2>1, <2>3, <2>4, <2>5
  <1>6. CASE LastEnded \/ Joined
    <2>1. TypeOK' /\ AllStarted'
      BY <1>6 DEF LastEnded, Joined, WorkerTypes, ProgramTypes, AllStarted, Waiting, Starting
    <2>2. RegisteredInTime' /\ SignalledInTime'
      BY <1>6 DEF LastEnded, Joined, RegisteredInTime, SignalledInTime, Through, Alive, Waiting
    <2>3. EndedInTurn'
      BY <1>6 DEF LastEnded, Joined, EndedInTurn, Alive
    <2> QED
      BY <2>1, <2>2, <2>3
  <1>7. CASE UpstreamEnded
    <2>1. \A s \in Stages : ~ Alive(s)
      BY <1>7 DEF UpstreamEnded, EndedInTurn, Stages
    <2> QED
      BY <1>7, <2>1 DEF UpstreamEnded, WorkerTypes, ProgramTypes, AllStarted, RegisteredInTime,
                        SignalledInTime, EndedInTurn, Through, Alive, Waiting, Starting
  <1>8. CASE ErrorsRead
    BY <1>8 DEF ErrorsRead, WorkerTypes, ProgramTypes, AllStarted, RegisteredInTime,
                SignalledInTime, EndedInTurn, Alive, Waiting, Starting
  <1>9. CASE TimedOut
    BY <1>9 DEF TimedOut, WorkerTypes, ProgramTypes, AllStarted, RegisteredInTime,
                SignalledInTime, EndedInTurn, Alive, Waiting, Starting
  <1> QED
    BY <1>1, <1>2, <1>3, <1>4, <1>5, <1>6, <1>7, <1>8, <1>9 DEF Worker

\* Every step keeps it.
LEMMA StepInv == IInv /\ [Next]_vars => IInv'
  <1> SUFFICES ASSUME IInv, [Next]_vars PROVE IInv'
    OBVIOUS
  <1> USE DEF IInv, TypeOK
  <1>1. CASE Worker \/ Refuse \/ SpawnFails \/ TimedOut
    BY <1>1, WorkerSteps
  <1>2. CASE Pump
    <2>1. out' \in [Stages -> 0 .. Capacity]
      BY <1>2, LastIsStage, BoundsAssumption DEF Pump, ProgramTypes
    <2> QED
      BY <1>2, <2>1, OnlyDying DEF Pump, ProgramTypes, Alive
  <1>3. ASSUME NEW s \in Stages, Drain(s) PROVE IInv'
    <2>1. err' \in [Stages -> 0 .. Capacity]
      BY <1>3, BoundsAssumption DEF Drain, ProgramTypes
    <2> QED
      BY <1>3, <2>1, OnlyDying DEF Drain, ProgramTypes, Alive
  <1>4. CASE Interrupt
    <2>1. TypeOK'
      BY <1>4, BoundsAssumption DEF Interrupt, WorkerTypes, ProgramTypes, worker, programs
    <2>2. AllStarted' /\ RegisteredInTime' /\ EndedInTurn'
      BY <1>4, LastIsStage DEF Interrupt, AllStarted, RegisteredInTime, EndedInTurn, Through, Alive,
                               worker, programs
    <2>3. SignalledInTime'
      BY <1>4 DEF Interrupt, SignalledInTime, RegisteredInTime, Through, Alive, worker, programs
    <2> QED
      BY <2>1, <2>2, <2>3
  <1>5. ASSUME NEW victims \in timers, Escalate(victims) PROVE IInv'
    <2>1. TypeOK'
      BY <1>5 DEF Escalate, WorkerTypes, ProgramTypes, worker
    <2>2. \A s \in Stages : Alive(s)' => Alive(s)
      BY <1>5 DEF Escalate, Alive
    <2>3. AllStarted' /\ RegisteredInTime' /\ EndedInTurn'
      BY <1>5, <2>2, LastIsStage DEF Escalate, AllStarted, RegisteredInTime, EndedInTurn, Through,
                                     worker
    <2>4. SignalledInTime'
      BY <1>5, <2>2 DEF Escalate, SignalledInTime, Through, worker
    <2> QED
      BY <2>1, <2>3, <2>4
  <1>6. CASE HelperEnds
    BY <1>6, OnlyDying DEF HelperEnds, ProgramTypes, Alive
  <1>7. ASSUME NEW s \in Stages,
               Write(s, "out") \/ Write(s, "err") \/ Read(s) \/ Exit(s) \/ Kernel(s)
        PROVE  IInv'
    BY <1>7, ProgramSteps
  <1>8. CASE UNCHANGED vars
    BY <1>8, OnlyDying DEF vars, programs, ProgramTypes, Alive
  <1> QED
    BY <1>1, <1>2, <1>3, <1>4, <1>5, <1>6, <1>7, <1>8 DEF Next, Rest

LEMMA Invariance == Spec => []IInv
  BY InitInv, StepInv, PTL DEF Spec

-----------------------------------------------------------------------------
\* The variables keep their types: no pipe holds more than it can, whatever
\* the programs write.
THEOREM TypeCorrect == Spec => []TypeOK
  BY Invariance, PTL DEF IInv

\* A Ctrl+C at any moment, also between the spawn of a program and its
\* registration, is sent to each program that runs when the worker waits
\* (PythonShell.interrupt and the look at _interrupt after a spawn).
THEOREM InterruptReaches == Spec => []InterruptReachesAll
  <1>1. IInv => InterruptReachesAll
    BY DEF IInv, SignalledInTime, InterruptReachesAll, Through, Waiting
  <1> QED
    BY <1>1, Invariance, PTL

\* When a command whose programs were all started is done, by itself or by its
\* timeout, none of them runs (_exec_subprocess_inner).
THEOREM NothingLeft == Spec => []NothingLeftRunning
  <1>1. IInv => NothingLeftRunning
    BY DEF IInv, EndedInTurn, NothingLeftRunning
  <1> QED
    BY <1>1, Invariance, PTL
=============================================================================
