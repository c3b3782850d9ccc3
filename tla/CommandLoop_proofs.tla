------------------------- MODULE CommandLoop_proofs -------------------------
(***************************************************************************)
(* What holds of the console of a session whatever is typed, for every     *)
(* number of lines and interrupts: its types, what _busy means, whose      *)
(* Ctrl+C the latch is, that it reaches the child, that nothing is started *)
(* after stop(), and that lines are kept, run once and in order.           *)
(*                                                                         *)
(* _busy and the latch are written in few places but read at any moment.   *)
(* The inductive invariant says, for every place of the worker, what it    *)
(* may rely on there: NextIsClear and MarkedIsBusy for _busy,              *)
(* InterruptIsFresh and LatchReachesChild for the latch.                   *)
(***************************************************************************)
EXTENDS CommandLoop, SequenceTheorems, TLAPS

\* The two halves of TypeOK: the queues with what they hold, and the rest.
QueueTypes ==
  /\ kinds \in Seq(AllKinds)
  /\ commands \in Seq(Lines \union {Pill})
  /\ stdin \in Seq(Lines) /\ leftovers \in Seq(Lines)
  /\ item \in Lines \union {Pill}
  /\ started \in Seq(Lines) /\ settled \in SUBSET Lines /\ ahead \in SUBSET Lines

ControlTypes ==
  /\ busy \in BOOLEAN /\ latch \in BOOLEAN /\ epoch \in Nat /\ pipeline \in BOOLEAN
  /\ signalled \in BOOLEAN /\ pending \in BOOLEAN /\ running \in BOOLEAN
  /\ awaiting \in BOOLEAN /\ setup \in BOOLEAN /\ alpine \in BOOLEAN
  /\ worker \in WorkerSteps
  /\ snapshot \in 0..epoch
  /\ interrupted \in BOOLEAN /\ dying \in BOOLEAN
  /\ typist \in TypistSteps

\* _busy is clear wherever the worker may go back to the queue from.
ClearSteps == GetSteps \union {"discard", "unlatch", "open", "drain", "resubmit"}
NextIsClear == worker \in ClearSteps => ~ busy

\* It is set from the mark until the line ends.
MarkedIsBusy == worker \in RunSteps \union {"comparing", "wiping"} => busy

\* Somebody is about to put a line into a queue, or to run one: there is one.
LineInHand ==
  /\ typist \in {"put_stdin", "submit"} => LastLine \in Lines
  /\ worker \in {"checked", "marking", "comparing", "wiping", "run"} => item \in Lines

IInv ==
  /\ ControlTypes
  /\ QueueTypes
  /\ LineInHand
  /\ NextIsClear
  /\ MarkedIsBusy
  /\ InterruptIsFresh
  /\ LatchReachesChild
  /\ NoChildAfterStop

-----------------------------------------------------------------------------
\* The parts of TypeOK make it up.
LEMMA TypesInTwo == ControlTypes /\ QueueTypes => TypeOK
  BY DEF ControlTypes, QueueTypes, TypeOK

\* Where no queue changes, the queues keep their types.
LEMMA QueuesAtRest ==
  ASSUME QueueTypes, UNCHANGED <<kinds, commands, stdin, leftovers, item, started, settled, ahead>>
  PROVE  QueueTypes' /\ Lines' = Lines /\ LastLine' = LastLine
  BY DEF QueueTypes, Lines, LastLine

LEMMA InitInv == Init => IInv
  <1> SUFFICES ASSUME Init PROVE IInv
    OBVIOUS
  <1>1. ControlTypes
    <2>1. alpine \in BOOLEAN
      BY DEF Init
    <2>2. worker \in WorkerSteps /\ typist \in TypistSteps
      BY DEF Init, WorkerSteps, TypistSteps, GetSteps
    <2>3. epoch \in Nat /\ snapshot \in 0..epoch
      BY DEF Init
    <2>4. awaiting \in BOOLEAN
      BY DEF Init
    <2> QED
      BY <2>1, <2>2, <2>3, <2>4 DEF Init, ControlTypes
  <1>2. QueueTypes
    BY DEF Init, QueueTypes, Lines, LastLine, Pill
  <1>3. LineInHand /\ NextIsClear /\ MarkedIsBusy
    BY DEF Init, LineInHand, NextIsClear, MarkedIsBusy, ClearSteps, RunSteps
  <1>4. InterruptIsFresh /\ LatchReachesChild /\ NoChildAfterStop
    BY DEF Init, InterruptIsFresh, LatchReachesChild, NoChildAfterStop, RunSteps
  <1> QED
    BY <1>1, <1>2, <1>3, <1>4 DEF IInv

\* Every step keeps the invariant.
LEMMA StepInv == IInv /\ [Next]_vars => IInv'
  <1> SUFFICES ASSUME IInv, [Next]_vars PROVE IInv'
    OBVIOUS
  <1> USE DEF IInv
  <1>1. ASSUME NEW k \in Kinds, TypeLine(k) PROVE IInv'
    <2> USE <1>1 DEF TypeLine, AtConsole, queues, signals, console, history, runtime
    <2>1. ControlTypes'
      <3>1. worker' \in WorkerSteps /\ typist' \in TypistSteps
        BY DEF ControlTypes, WorkerSteps, TypistSteps, GetSteps, RunSteps, FinishSteps
      <3> QED
        BY <3>1 DEF ControlTypes
    <2>2. QueueTypes' /\ LastLine' \in Lines' /\ Lines \subseteq Lines'
      <3>1. Len(kinds') = Len(kinds) + 1 /\ kinds' \in Seq(AllKinds)
        BY KindsAssumption, AppendProperties DEF QueueTypes
      <3>2. Lines \subseteq Lines' /\ LastLine' \in Lines'
        BY <3>1 DEF Lines, LastLine, QueueTypes
      <3>3. Seq(Lines) \subseteq Seq(Lines') /\ Seq(Lines \union {Pill}) \subseteq Seq(Lines' \union {Pill})
        BY <3>2, SeqMonotonic
      <3> QED
        BY <3>1, <3>2, <3>3 DEF QueueTypes
    <2>3. LineInHand'
      BY <2>2 DEF LineInHand, QueueTypes, Pill
    <2>4. NextIsClear' /\ MarkedIsBusy'
      BY DEF NextIsClear, MarkedIsBusy, ControlTypes, ClearSteps, GetSteps, RunSteps
    <2>5. InterruptIsFresh'
      BY DEF InterruptIsFresh, ControlTypes, RunSteps
    <2>6. LatchReachesChild' /\ NoChildAfterStop'
      BY DEF LatchReachesChild, NoChildAfterStop, ControlTypes
    <2> QED
      BY <2>1, <2>2, <2>3, <2>4, <2>5, <2>6
  <1>2. CASE CtrlC
    <2> USE <1>2 DEF CtrlC, AtConsole, queues, signals, console, history, runtime
    <2>1. ControlTypes'
      <3>1. worker' \in WorkerSteps /\ typist' \in TypistSteps
        BY DEF ControlTypes, WorkerSteps, TypistSteps, GetSteps, RunSteps, FinishSteps
      <3> QED
        BY <3>1 DEF ControlTypes
    <2>2. QueueTypes' /\ Lines' = Lines /\ LastLine' = LastLine
      BY QueuesAtRest
    <2>3. LineInHand'
      BY <2>2 DEF LineInHand, QueueTypes, Pill
    <2>4. NextIsClear' /\ MarkedIsBusy'
      BY DEF NextIsClear, MarkedIsBusy, ControlTypes, ClearSteps, GetSteps, RunSteps
    <2>5. InterruptIsFresh'
      BY DEF InterruptIsFresh, ControlTypes, RunSteps
    <2>6. LatchReachesChild' /\ NoChildAfterStop'
      BY DEF LatchReachesChild, NoChildAfterStop, ControlTypes
    <2> QED
      BY <2>1, <2>2, <2>3, <2>4, <2>5, <2>6
  <1>3. CASE Toggle
    <2> USE <1>3 DEF Toggle, Enter, queues, signals, console, history, runtime
    <2>1. ControlTypes'
      <3>1. alpine' \in BOOLEAN
        BY Zenon DEF ControlTypes
      <3> QED
        BY <3>1 DEF ControlTypes, WorkerSteps, TypistSteps, GetSteps, RunSteps, FinishSteps
    <2>2. QueueTypes' /\ Lines' = Lines /\ LastLine' = LastLine
      BY QueuesAtRest
    <2>3. LineInHand'
      BY <2>2 DEF LineInHand, QueueTypes, Pill
    <2>4. NextIsClear' /\ MarkedIsBusy'
      BY DEF NextIsClear, MarkedIsBusy, ControlTypes, ClearSteps, GetSteps, RunSteps
    <2>5. InterruptIsFresh'
      BY DEF InterruptIsFresh, ControlTypes, RunSteps
    <2>6. LatchReachesChild' /\ NoChildAfterStop'
      BY DEF LatchReachesChild, NoChildAfterStop, ControlTypes
    <2> QED
      BY <2>1, <2>2, <2>3, <2>4, <2>5, <2>6
  <1>4. CASE Stop
    <2> USE <1>4 DEF Stop, Goes, queues, signals, console, history, runtime
    <2>1. ControlTypes'
      <3>1. alpine' \in BOOLEAN /\ running' \in BOOLEAN
        BY Zenon DEF ControlTypes
      <3> QED
        BY <3>1 DEF ControlTypes, WorkerSteps, TypistSteps, GetSteps, RunSteps, FinishSteps
    <2>2. QueueTypes' /\ Lines' = Lines /\ LastLine' = LastLine
      BY QueuesAtRest
    <2>3. LineInHand'
      BY <2>2 DEF LineInHand, QueueTypes, Pill
    <2>4. NextIsClear' /\ MarkedIsBusy'
      BY DEF NextIsClear, MarkedIsBusy, ControlTypes, ClearSteps, GetSteps, RunSteps
    <2>5. InterruptIsFresh'
      BY DEF InterruptIsFresh, ControlTypes, RunSteps
    <2>6. LatchReachesChild' /\ NoChildAfterStop'
      BY DEF LatchReachesChild, NoChildAfterStop, ControlTypes
    <2> QED
      BY <2>1, <2>2, <2>3, <2>4, <2>5, <2>6
  <1>5. CASE PutStdin
    <2> USE <1>5 DEF PutStdin, Typed, queues, signals, console, history, runtime
    <2>1. ControlTypes'
      <3>1. worker' \in WorkerSteps /\ typist' \in TypistSteps
        BY DEF ControlTypes, WorkerSteps, TypistSteps, GetSteps, RunSteps, FinishSteps
      <3> QED
        BY <3>1 DEF ControlTypes
    <2>2. QueueTypes' /\ Lines' = Lines /\ LastLine' = LastLine
      <3>0. Lines' = Lines /\ LastLine' = LastLine
        BY DEF Lines, LastLine
      <3>1. LastLine \in Lines
        BY DEF LineInHand
      <3>2. stdin' \in Seq(Lines)
        BY <3>1, AppendProperties DEF QueueTypes
      <3>3. ahead' \in SUBSET Lines
        BY <3>1 DEF QueueTypes
      <3> QED
        BY <3>0, <3>1, <3>2, <3>3 DEF QueueTypes
    <2>3. LineInHand'
      BY <2>2 DEF LineInHand, QueueTypes, Pill
    <2>4. NextIsClear' /\ MarkedIsBusy'
      BY DEF NextIsClear, MarkedIsBusy, ControlTypes, ClearSteps, GetSteps, RunSteps
    <2>5. InterruptIsFresh'
      BY DEF InterruptIsFresh, ControlTypes, RunSteps
    <2>6. LatchReachesChild' /\ NoChildAfterStop'
      BY DEF LatchReachesChild, NoChildAfterStop, ControlTypes
    <2> QED
      BY <2>1, <2>2, <2>3, <2>4, <2>5, <2>6
  <1>6. CASE PutCommand
    <2> USE <1>6 DEF PutCommand, Typed, queues, signals, console, history, runtime
    <2>1. ControlTypes'
      <3>1. worker' \in WorkerSteps /\ typist' \in TypistSteps
        BY DEF ControlTypes, WorkerSteps, TypistSteps, GetSteps, RunSteps, FinishSteps
      <3> QED
        BY <3>1 DEF ControlTypes
    <2>2. QueueTypes' /\ Lines' = Lines /\ LastLine' = LastLine
      BY DEF QueueTypes, Lines, LastLine, LineInHand, Pill
    <2>3. LineInHand'
      BY <2>2 DEF LineInHand, QueueTypes, Pill
    <2>4. NextIsClear' /\ MarkedIsBusy'
      BY DEF NextIsClear, MarkedIsBusy, ControlTypes, ClearSteps, GetSteps, RunSteps
    <2>5. InterruptIsFresh'
      BY DEF InterruptIsFresh, ControlTypes, RunSteps
    <2>6. LatchReachesChild' /\ NoChildAfterStop'
      BY DEF LatchReachesChild, NoChildAfterStop, ControlTypes
    <2> QED
      BY <2>1, <2>2, <2>3, <2>4, <2>5, <2>6
  <1>7. CASE Answer
    <2> USE <1>7 DEF Answer, Typed, Enter, queues, signals, console, history, runtime
    <2>1. ControlTypes'
      <3>1. worker' \in WorkerSteps /\ typist' \in TypistSteps
        BY DEF ControlTypes, WorkerSteps, TypistSteps, GetSteps, RunSteps, FinishSteps
      <3> QED
        BY <3>1 DEF ControlTypes
    <2>2. QueueTypes' /\ Lines' = Lines /\ LastLine' = LastLine
      BY DEF QueueTypes, Lines, LastLine, LineInHand, Pill
    <2>3. LineInHand'
      BY <2>2 DEF LineInHand, QueueTypes, Pill
    <2>4. NextIsClear' /\ MarkedIsBusy'
      BY DEF NextIsClear, MarkedIsBusy, ControlTypes, ClearSteps, GetSteps, RunSteps
    <2>5. InterruptIsFresh'
      BY DEF InterruptIsFresh, ControlTypes, RunSteps
    <2>6. LatchReachesChild' /\ NoChildAfterStop'
      BY DEF LatchReachesChild, NoChildAfterStop, ControlTypes
    <2> QED
      BY <2>1, <2>2, <2>3, <2>4, <2>5, <2>6
  <1>8. CASE EndWrite
    <2> USE <1>8 DEF EndWrite, Goes, queues, signals, console, history, runtime
    <2>1. ControlTypes'
      <3>1. worker' \in WorkerSteps /\ typist' \in TypistSteps
        BY DEF ControlTypes, WorkerSteps, TypistSteps, GetSteps, RunSteps, FinishSteps
      <3> QED
        BY <3>1 DEF ControlTypes
    <2>2. QueueTypes' /\ Lines' = Lines /\ LastLine' = LastLine
      BY QueuesAtRest
    <2>3. LineInHand'
      BY <2>2 DEF LineInHand, QueueTypes, Pill
    <2>4. NextIsClear' /\ MarkedIsBusy'
      BY DEF NextIsClear, MarkedIsBusy, ControlTypes, ClearSteps, GetSteps, RunSteps
    <2>5. InterruptIsFresh'
      BY DEF InterruptIsFresh, ControlTypes, RunSteps
    <2>6. LatchReachesChild' /\ NoChildAfterStop'
      BY DEF LatchReachesChild, NoChildAfterStop, ControlTypes
    <2> QED
      BY <2>1, <2>2, <2>3, <2>4, <2>5, <2>6
  <1>9. CASE Interrupt
    <2> USE <1>9 DEF Interrupt, Goes, RaiseLatch, queues, signals, console, history, runtime
    <2>1. ControlTypes'
      <3>1. worker' \in WorkerSteps /\ typist' \in TypistSteps
        BY DEF ControlTypes, WorkerSteps, TypistSteps, GetSteps, RunSteps, FinishSteps
      <3> QED
        BY <3>1 DEF ControlTypes
    <2>2. QueueTypes' /\ Lines' = Lines /\ LastLine' = LastLine
      BY QueuesAtRest
    <2>3. LineInHand'
      BY <2>2 DEF LineInHand, QueueTypes, Pill
    <2>4. NextIsClear' /\ MarkedIsBusy'
      BY DEF NextIsClear, MarkedIsBusy, ControlTypes, ClearSteps, GetSteps, RunSteps
    <2>5. InterruptIsFresh'
      BY DEF InterruptIsFresh, ControlTypes, RunSteps
    <2>6. LatchReachesChild' /\ NoChildAfterStop'
      BY DEF LatchReachesChild, NoChildAfterStop, ControlTypes
    <2> QED
      BY <2>1, <2>2, <2>3, <2>4, <2>5, <2>6
  <1>10. CASE Probe
    <2> USE <1>10 DEF Probe, Goes, queues, signals, console, history, runtime
    <2>1. ControlTypes'
      <3>1. worker' \in WorkerSteps /\ typist' \in TypistSteps
        BY DEF ControlTypes, WorkerSteps, TypistSteps, GetSteps, RunSteps, FinishSteps
      <3> QED
        BY <3>1 DEF ControlTypes
    <2>2. QueueTypes' /\ Lines' = Lines /\ LastLine' = LastLine
      BY QueuesAtRest
    <2>3. LineInHand'
      BY <2>2 DEF LineInHand, QueueTypes, Pill
    <2>4. NextIsClear' /\ MarkedIsBusy'
      BY DEF NextIsClear, MarkedIsBusy, ControlTypes, ClearSteps, GetSteps, RunSteps
    <2>5. InterruptIsFresh'
      BY DEF InterruptIsFresh, ControlTypes, RunSteps
    <2>6. LatchReachesChild' /\ NoChildAfterStop'
      BY DEF LatchReachesChild, NoChildAfterStop, ControlTypes
    <2> QED
      BY <2>1, <2>2, <2>3, <2>4, <2>5, <2>6
  <1>11. CASE Inject
    <2> USE <1>11 DEF Inject, Goes, queues, signals, console, history, runtime
    <2>1. ControlTypes'
      <3>1. worker' \in WorkerSteps /\ typist' \in TypistSteps
        BY DEF ControlTypes, WorkerSteps, TypistSteps, GetSteps, RunSteps, FinishSteps
      <3> QED
        BY <3>1 DEF ControlTypes
    <2>2. QueueTypes' /\ Lines' = Lines /\ LastLine' = LastLine
      BY QueuesAtRest
    <2>3. LineInHand'
      BY <2>2 DEF LineInHand, QueueTypes, Pill
    <2>4. NextIsClear' /\ MarkedIsBusy'
      BY DEF NextIsClear, MarkedIsBusy, ControlTypes, ClearSteps, GetSteps, RunSteps
    <2>5. InterruptIsFresh'
      BY DEF InterruptIsFresh, ControlTypes, RunSteps
    <2>6. LatchReachesChild' /\ NoChildAfterStop'
      BY DEF LatchReachesChild, NoChildAfterStop, ControlTypes
    <2> QED
      BY <2>1, <2>2, <2>3, <2>4, <2>5, <2>6
  <1>12. CASE StopInterrupt
    <2> USE <1>12 DEF StopInterrupt, Goes, RaiseLatch, queues, signals, console, history, runtime
    <2>1. ControlTypes'
      <3>1. worker' \in WorkerSteps /\ typist' \in TypistSteps
        BY DEF ControlTypes, WorkerSteps, TypistSteps, GetSteps, RunSteps, FinishSteps
      <3> QED
        BY <3>1 DEF ControlTypes
    <2>2. QueueTypes' /\ Lines' = Lines /\ LastLine' = LastLine
      BY QueuesAtRest
    <2>3. LineInHand'
      BY <2>2 DEF LineInHand, QueueTypes, Pill
    <2>4. NextIsClear' /\ MarkedIsBusy'
      BY DEF NextIsClear, MarkedIsBusy, ControlTypes, ClearSteps, GetSteps, RunSteps
    <2>5. InterruptIsFresh'
      BY DEF InterruptIsFresh, ControlTypes, RunSteps
    <2>6. LatchReachesChild' /\ NoChildAfterStop'
      BY DEF LatchReachesChild, NoChildAfterStop, ControlTypes
    <2> QED
      BY <2>1, <2>2, <2>3, <2>4, <2>5, <2>6
  <1>13. CASE StopPoison
    <2> USE <1>13 DEF StopPoison, Goes, queues, signals, console, history, runtime
    <2>1. ControlTypes'
      <3>1. worker' \in WorkerSteps /\ typist' \in TypistSteps
        BY DEF ControlTypes, WorkerSteps, TypistSteps, GetSteps, RunSteps, FinishSteps
      <3> QED
        BY <3>1 DEF ControlTypes
    <2>2. QueueTypes' /\ Lines' = Lines /\ LastLine' = LastLine
      BY DEF QueueTypes, Lines, LastLine, LineInHand, Pill
    <2>3. LineInHand'
      BY <2>2 DEF LineInHand, QueueTypes, Pill
    <2>4. NextIsClear' /\ MarkedIsBusy'
      BY DEF NextIsClear, MarkedIsBusy, ControlTypes, ClearSteps, GetSteps, RunSteps
    <2>5. InterruptIsFresh'
      BY DEF InterruptIsFresh, ControlTypes, RunSteps
    <2>6. LatchReachesChild' /\ NoChildAfterStop'
      BY DEF LatchReachesChild, NoChildAfterStop, ControlTypes
    <2> QED
      BY <2>1, <2>2, <2>3, <2>4, <2>5, <2>6
  <1>14. CASE ReadStdin
    <2> USE <1>14 DEF ReadStdin, queues, signals, console, history, runtime
    <2>1. ControlTypes'
      <3>1. worker' \in WorkerSteps /\ typist' \in TypistSteps
        BY DEF ControlTypes, WorkerSteps, TypistSteps, GetSteps, RunSteps, FinishSteps
      <3> QED
        BY <3>1 DEF ControlTypes
    <2>2. QueueTypes' /\ Lines' = Lines /\ LastLine' = LastLine
      <3>0. Lines' = Lines /\ LastLine' = LastLine
        BY DEF Lines, LastLine
      <3>1. Head(stdin) \in Lines /\ Tail(stdin) \in Seq(Lines)
        BY HeadTailProperties DEF QueueTypes
      <3>2. settled' \in SUBSET Lines
        BY <3>1 DEF QueueTypes
      <3> QED
        BY <3>0, <3>1, <3>2 DEF QueueTypes
    <2>3. LineInHand'
      BY <2>2 DEF LineInHand, QueueTypes, Pill
    <2>4. NextIsClear' /\ MarkedIsBusy'
      BY DEF NextIsClear, MarkedIsBusy, ControlTypes, ClearSteps, GetSteps, RunSteps
    <2>5. InterruptIsFresh'
      BY DEF InterruptIsFresh, ControlTypes, RunSteps
    <2>6. LatchReachesChild' /\ NoChildAfterStop'
      BY DEF LatchReachesChild, NoChildAfterStop, ControlTypes
    <2> QED
      BY <2>1, <2>2, <2>3, <2>4, <2>5, <2>6
  <1>15. CASE Pop
    <2> USE <1>15 DEF Pop, Works, queues, signals, console, history, runtime
    <2>1. ControlTypes'
      <3>1. worker' \in WorkerSteps /\ typist' \in TypistSteps
        BY DEF ControlTypes, WorkerSteps, TypistSteps, GetSteps, RunSteps, FinishSteps
      <3> QED
        BY <3>1 DEF ControlTypes
    <2>2. QueueTypes' /\ Lines' = Lines /\ LastLine' = LastLine
      BY DEF QueueTypes, Lines, LastLine, LineInHand, Pill
    <2>3. LineInHand'
      BY <2>2 DEF LineInHand, QueueTypes, Pill
    <2>4. NextIsClear' /\ MarkedIsBusy'
      BY DEF NextIsClear, MarkedIsBusy, ControlTypes, ClearSteps, GetSteps, RunSteps
    <2>5. InterruptIsFresh'
      BY DEF InterruptIsFresh, ControlTypes, RunSteps
    <2>6. LatchReachesChild' /\ NoChildAfterStop'
      BY DEF LatchReachesChild, NoChildAfterStop, ControlTypes
    <2> QED
      BY <2>1, <2>2, <2>3, <2>4, <2>5, <2>6
  <1>16. CASE Take
    <2> USE <1>16 DEF Take, Works, queues, signals, console, history, runtime
    <2>1. ControlTypes'
      <3>1. worker' \in WorkerSteps /\ typist' \in TypistSteps
        BY DEF ControlTypes, WorkerSteps, TypistSteps, GetSteps, RunSteps, FinishSteps
      <3> QED
        BY <3>1 DEF ControlTypes
    <2>2. QueueTypes' /\ Lines' = Lines /\ LastLine' = LastLine
      BY QueuesAtRest
    <2>3. LineInHand'
      BY <2>2 DEF LineInHand, QueueTypes, Pill
    <2>4. NextIsClear' /\ MarkedIsBusy'
      BY DEF NextIsClear, MarkedIsBusy, ControlTypes, ClearSteps, GetSteps, RunSteps
    <2>5. InterruptIsFresh'
      BY DEF InterruptIsFresh, ControlTypes, RunSteps
    <2>6. LatchReachesChild' /\ NoChildAfterStop'
      BY DEF LatchReachesChild, NoChildAfterStop, ControlTypes
    <2> QED
      BY <2>1, <2>2, <2>3, <2>4, <2>5, <2>6
  <1>17. CASE CheckRunning
    <2> USE <1>17 DEF CheckRunning, Works, queues, signals, console, history, runtime
    <2>1. ControlTypes'
      <3>1. worker' \in WorkerSteps /\ typist' \in TypistSteps
        BY DEF ControlTypes, WorkerSteps, TypistSteps, GetSteps, RunSteps, FinishSteps
      <3> QED
        BY <3>1 DEF ControlTypes
    <2>2. QueueTypes' /\ Lines' = Lines /\ LastLine' = LastLine
      BY QueuesAtRest
    <2>3. LineInHand'
      BY <2>2 DEF LineInHand, QueueTypes, Pill
    <2>4. NextIsClear' /\ MarkedIsBusy'
      BY DEF NextIsClear, MarkedIsBusy, ControlTypes, ClearSteps, GetSteps, RunSteps
    <2>5. InterruptIsFresh'
      BY DEF InterruptIsFresh, ControlTypes, RunSteps
    <2>6. LatchReachesChild' /\ NoChildAfterStop'
      BY DEF LatchReachesChild, NoChildAfterStop, ControlTypes
    <2> QED
      BY <2>1, <2>2, <2>3, <2>4, <2>5, <2>6
  <1>18. CASE SnapshotEpoch
    <2> USE <1>18 DEF SnapshotEpoch, Works, queues, signals, console, history, runtime
    <2>1. ControlTypes'
      <3>1. worker' \in WorkerSteps /\ typist' \in TypistSteps
        BY DEF ControlTypes, WorkerSteps, TypistSteps, GetSteps, RunSteps, FinishSteps
      <3> QED
        BY <3>1 DEF ControlTypes
    <2>2. QueueTypes' /\ Lines' = Lines /\ LastLine' = LastLine
      BY QueuesAtRest
    <2>3. LineInHand'
      BY <2>2 DEF LineInHand, QueueTypes, Pill
    <2>4. NextIsClear' /\ MarkedIsBusy'
      BY DEF NextIsClear, MarkedIsBusy, ControlTypes, ClearSteps, GetSteps, RunSteps
    <2>5. InterruptIsFresh'
      BY DEF InterruptIsFresh, ControlTypes, RunSteps
    <2>6. LatchReachesChild' /\ NoChildAfterStop'
      BY DEF LatchReachesChild, NoChildAfterStop, ControlTypes
    <2> QED
      BY <2>1, <2>2, <2>3, <2>4, <2>5, <2>6
  <1>19. CASE SetBusy
    <2> USE <1>19 DEF SetBusy, Works, queues, signals, console, history, runtime
    <2>1. ControlTypes'
      <3>1. worker' \in WorkerSteps /\ typist' \in TypistSteps
        BY DEF ControlTypes, WorkerSteps, TypistSteps, GetSteps, RunSteps, FinishSteps
      <3> QED
        BY <3>1 DEF ControlTypes
    <2>2. QueueTypes' /\ Lines' = Lines /\ LastLine' = LastLine
      BY QueuesAtRest
    <2>3. LineInHand'
      BY <2>2 DEF LineInHand, QueueTypes, Pill
    <2>4. NextIsClear' /\ MarkedIsBusy'
      BY DEF NextIsClear, MarkedIsBusy, ControlTypes, ClearSteps, GetSteps, RunSteps
    <2>5. InterruptIsFresh'
      BY DEF InterruptIsFresh, ControlTypes, RunSteps
    <2>6. LatchReachesChild' /\ NoChildAfterStop'
      BY DEF LatchReachesChild, NoChildAfterStop, ControlTypes
    <2> QED
      BY <2>1, <2>2, <2>3, <2>4, <2>5, <2>6
  <1>20. CASE CompareEpoch
    <2> USE <1>20 DEF CompareEpoch, Works, queues, signals, console, history, runtime
    <2>1. ControlTypes'
      <3>1. worker' \in WorkerSteps /\ typist' \in TypistSteps
        BY DEF ControlTypes, WorkerSteps, TypistSteps, GetSteps, RunSteps, FinishSteps
      <3> QED
        BY <3>1 DEF ControlTypes
    <2>2. QueueTypes' /\ Lines' = Lines /\ LastLine' = LastLine
      BY QueuesAtRest
    <2>3. LineInHand'
      BY <2>2 DEF LineInHand, QueueTypes, Pill
    <2>4. NextIsClear' /\ MarkedIsBusy'
      BY DEF NextIsClear, MarkedIsBusy, ControlTypes, ClearSteps, GetSteps, RunSteps
    <2>5. InterruptIsFresh'
      BY DEF InterruptIsFresh, ControlTypes, RunSteps
    <2>6. LatchReachesChild' /\ NoChildAfterStop'
      BY DEF LatchReachesChild, NoChildAfterStop, ControlTypes
    <2> QED
      BY <2>1, <2>2, <2>3, <2>4, <2>5, <2>6
  <1>21. CASE WipeLatch
    <2> USE <1>21 DEF WipeLatch, Works, queues, signals, console, history, runtime
    <2>1. ControlTypes'
      <3>1. worker' \in WorkerSteps /\ typist' \in TypistSteps
        BY DEF ControlTypes, WorkerSteps, TypistSteps, GetSteps, RunSteps, FinishSteps
      <3> QED
        BY <3>1 DEF ControlTypes
    <2>2. QueueTypes' /\ Lines' = Lines /\ LastLine' = LastLine
      BY QueuesAtRest
    <2>3. LineInHand'
      BY <2>2 DEF LineInHand, QueueTypes, Pill
    <2>4. NextIsClear' /\ MarkedIsBusy'
      BY DEF NextIsClear, MarkedIsBusy, ControlTypes, ClearSteps, GetSteps, RunSteps
    <2>5. InterruptIsFresh'
      BY DEF InterruptIsFresh, ControlTypes, RunSteps
    <2>6. LatchReachesChild' /\ NoChildAfterStop'
      BY DEF LatchReachesChild, NoChildAfterStop, ControlTypes
    <2> QED
      BY <2>1, <2>2, <2>3, <2>4, <2>5, <2>6
  <1>22. CASE StartPython
    <2> USE <1>22 DEF StartPython, Works, queues, signals, console, history, runtime
    <2>1. ControlTypes'
      <3>1. worker' \in WorkerSteps /\ typist' \in TypistSteps
        BY DEF ControlTypes, WorkerSteps, TypistSteps, GetSteps, RunSteps, FinishSteps
      <3> QED
        BY <3>1 DEF ControlTypes
    <2>2. QueueTypes' /\ Lines' = Lines /\ LastLine' = LastLine
      BY DEF QueueTypes, Lines, LastLine, LineInHand, Pill
    <2>3. LineInHand'
      BY <2>2 DEF LineInHand, QueueTypes, Pill
    <2>4. NextIsClear' /\ MarkedIsBusy'
      BY DEF NextIsClear, MarkedIsBusy, ControlTypes, ClearSteps, GetSteps, RunSteps
    <2>5. InterruptIsFresh'
      BY DEF InterruptIsFresh, ControlTypes, RunSteps
    <2>6. LatchReachesChild' /\ NoChildAfterStop'
      BY DEF LatchReachesChild, NoChildAfterStop, ControlTypes
    <2> QED
      BY <2>1, <2>2, <2>3, <2>4, <2>5, <2>6
  <1>23. CASE EndPython
    <2> USE <1>23 DEF EndPython, Works, queues, signals, console, history, runtime
    <2>1. ControlTypes'
      <3>1. worker' \in WorkerSteps /\ typist' \in TypistSteps
        BY DEF ControlTypes, WorkerSteps, TypistSteps, GetSteps, RunSteps, FinishSteps
      <3> QED
        BY <3>1 DEF ControlTypes
    <2>2. QueueTypes' /\ Lines' = Lines /\ LastLine' = LastLine
      BY QueuesAtRest
    <2>3. LineInHand'
      BY <2>2 DEF LineInHand, QueueTypes, Pill
    <2>4. NextIsClear' /\ MarkedIsBusy'
      BY DEF NextIsClear, MarkedIsBusy, ControlTypes, ClearSteps, GetSteps, RunSteps
    <2>5. InterruptIsFresh'
      BY DEF InterruptIsFresh, ControlTypes, RunSteps
    <2>6. LatchReachesChild' /\ NoChildAfterStop'
      BY DEF LatchReachesChild, NoChildAfterStop, ControlTypes
    <2> QED
      BY <2>1, <2>2, <2>3, <2>4, <2>5, <2>6
  <1>24. CASE AwaitMore
    <2> USE <1>24 DEF AwaitMore, Works, queues, signals, console, history, runtime
    <2>1. ControlTypes'
      <3>1. busy' \in BOOLEAN
        BY DEF ControlTypes
      <3> QED
        BY <3>1 DEF ControlTypes, WorkerSteps, TypistSteps, GetSteps, RunSteps, FinishSteps
    <2>2. QueueTypes' /\ Lines' = Lines /\ LastLine' = LastLine
      BY DEF QueueTypes, Lines, LastLine, LineInHand, Pill
    <2>3. LineInHand'
      BY <2>2 DEF LineInHand, QueueTypes, Pill
    <2>4. NextIsClear' /\ MarkedIsBusy'
      BY DEF NextIsClear, MarkedIsBusy, ControlTypes, ClearSteps, GetSteps, RunSteps
    <2>5. InterruptIsFresh'
      BY DEF InterruptIsFresh, ControlTypes, RunSteps
    <2>6. LatchReachesChild' /\ NoChildAfterStop'
      BY DEF LatchReachesChild, NoChildAfterStop, ControlTypes
    <2> QED
      BY <2>1, <2>2, <2>3, <2>4, <2>5, <2>6
  <1>25. CASE StartPipeline
    <2> USE <1>25 DEF StartPipeline, Works, queues, signals, console, history, runtime
    <2>1. ControlTypes'
      <3>1. worker' \in WorkerSteps /\ typist' \in TypistSteps
        BY DEF ControlTypes, WorkerSteps, TypistSteps, GetSteps, RunSteps, FinishSteps
      <3> QED
        BY <3>1 DEF ControlTypes
    <2>2. QueueTypes' /\ Lines' = Lines /\ LastLine' = LastLine
      BY DEF QueueTypes, Lines, LastLine, LineInHand, Pill
    <2>3. LineInHand'
      BY <2>2 DEF LineInHand, QueueTypes, Pill
    <2>4. NextIsClear' /\ MarkedIsBusy'
      BY DEF NextIsClear, MarkedIsBusy, ControlTypes, ClearSteps, GetSteps, RunSteps
    <2>5. InterruptIsFresh'
      BY DEF InterruptIsFresh, ControlTypes, RunSteps
    <2>6. LatchReachesChild' /\ NoChildAfterStop'
      BY DEF LatchReachesChild, NoChildAfterStop, ControlTypes
    <2> QED
      BY <2>1, <2>2, <2>3, <2>4, <2>5, <2>6
  <1>26. CASE Spawn
    <2> USE <1>26 DEF Spawn, Works, queues, signals, console, history, runtime
    <2>1. ControlTypes'
      <3>1. worker' \in WorkerSteps /\ typist' \in TypistSteps
        BY DEF ControlTypes, WorkerSteps, TypistSteps, GetSteps, RunSteps, FinishSteps
      <3> QED
        BY <3>1 DEF ControlTypes
    <2>2. QueueTypes' /\ Lines' = Lines /\ LastLine' = LastLine
      BY QueuesAtRest
    <2>3. LineInHand'
      BY <2>2 DEF LineInHand, QueueTypes, Pill
    <2>4. NextIsClear' /\ MarkedIsBusy'
      BY DEF NextIsClear, MarkedIsBusy, ControlTypes, ClearSteps, GetSteps, RunSteps
    <2>5. InterruptIsFresh'
      BY DEF InterruptIsFresh, ControlTypes, RunSteps
    <2>6. LatchReachesChild' /\ NoChildAfterStop'
      BY DEF LatchReachesChild, NoChildAfterStop, ControlTypes
    <2> QED
      BY <2>1, <2>2, <2>3, <2>4, <2>5, <2>6
  <1>27. CASE EndPipeline
    <2> USE <1>27 DEF EndPipeline, Works, queues, signals, console, history, runtime
    <2>1. ControlTypes'
      <3>1. worker' \in WorkerSteps /\ typist' \in TypistSteps
        BY DEF ControlTypes, WorkerSteps, TypistSteps, GetSteps, RunSteps, FinishSteps
      <3> QED
        BY <3>1 DEF ControlTypes
    <2>2. QueueTypes' /\ Lines' = Lines /\ LastLine' = LastLine
      BY QueuesAtRest
    <2>3. LineInHand'
      BY <2>2 DEF LineInHand, QueueTypes, Pill
    <2>4. NextIsClear' /\ MarkedIsBusy'
      BY DEF NextIsClear, MarkedIsBusy, ControlTypes, ClearSteps, GetSteps, RunSteps
    <2>5. InterruptIsFresh'
      BY DEF InterruptIsFresh, ControlTypes, RunSteps
    <2>6. LatchReachesChild' /\ NoChildAfterStop'
      BY DEF LatchReachesChild, NoChildAfterStop, ControlTypes
    <2> QED
      BY <2>1, <2>2, <2>3, <2>4, <2>5, <2>6
  <1>28. CASE Render
    <2> USE <1>28 DEF Render, Works, queues, signals, console, history, runtime
    <2>1. ControlTypes'
      <3>1. awaiting' \in BOOLEAN /\ setup' \in BOOLEAN
        BY Zenon DEF ControlTypes
      <3> QED
        BY <3>1 DEF ControlTypes, WorkerSteps, TypistSteps, GetSteps, RunSteps, FinishSteps
    <2>2. QueueTypes' /\ Lines' = Lines /\ LastLine' = LastLine
      BY QueuesAtRest
    <2>3. LineInHand'
      BY <2>2 DEF LineInHand, QueueTypes, Pill
    <2>4. NextIsClear' /\ MarkedIsBusy'
      BY DEF NextIsClear, MarkedIsBusy, ControlTypes, ClearSteps, GetSteps, RunSteps
    <2>5. InterruptIsFresh'
      BY DEF InterruptIsFresh, ControlTypes, RunSteps
    <2>6. LatchReachesChild' /\ NoChildAfterStop'
      BY DEF LatchReachesChild, NoChildAfterStop, ControlTypes
    <2> QED
      BY <2>1, <2>2, <2>3, <2>4, <2>5, <2>6
  <1>29. CASE Caught
    <2> USE <1>29 DEF Caught, Works, queues, signals, console, history, runtime
    <2>1. ControlTypes'
      <3>1. worker' \in WorkerSteps /\ typist' \in TypistSteps
        BY DEF ControlTypes, WorkerSteps, TypistSteps, GetSteps, RunSteps, FinishSteps
      <3> QED
        BY <3>1 DEF ControlTypes
    <2>2. QueueTypes' /\ Lines' = Lines /\ LastLine' = LastLine
      BY QueuesAtRest
    <2>3. LineInHand'
      BY <2>2 DEF LineInHand, QueueTypes, Pill
    <2>4. NextIsClear' /\ MarkedIsBusy'
      BY DEF NextIsClear, MarkedIsBusy, ControlTypes, ClearSteps, GetSteps, RunSteps
    <2>5. InterruptIsFresh'
      BY DEF InterruptIsFresh, ControlTypes, RunSteps
    <2>6. LatchReachesChild' /\ NoChildAfterStop'
      BY DEF LatchReachesChild, NoChildAfterStop, ControlTypes
    <2> QED
      BY <2>1, <2>2, <2>3, <2>4, <2>5, <2>6
  <1>30. CASE ReadLatch
    <2> USE <1>30 DEF ReadLatch, Works, queues, signals, console, history, runtime
    <2>1. ControlTypes'
      <3>1. interrupted' \in BOOLEAN
        BY DEF ControlTypes
      <3> QED
        BY <3>1 DEF ControlTypes, WorkerSteps, TypistSteps, GetSteps, RunSteps, FinishSteps
    <2>2. QueueTypes' /\ Lines' = Lines /\ LastLine' = LastLine
      BY QueuesAtRest
    <2>3. LineInHand'
      BY <2>2 DEF LineInHand, QueueTypes, Pill
    <2>4. NextIsClear' /\ MarkedIsBusy'
      BY DEF NextIsClear, MarkedIsBusy, ControlTypes, ClearSteps, GetSteps, RunSteps
    <2>5. InterruptIsFresh'
      BY DEF InterruptIsFresh, ControlTypes, RunSteps
    <2>6. LatchReachesChild' /\ NoChildAfterStop'
      BY DEF LatchReachesChild, NoChildAfterStop, ControlTypes
    <2> QED
      BY <2>1, <2>2, <2>3, <2>4, <2>5, <2>6
  <1>31. CASE ClearBusy
    <2> USE <1>31 DEF ClearBusy, Works, queues, signals, console, history, runtime
    <2>1. ControlTypes'
      <3>1. busy' \in BOOLEAN
        BY DEF ControlTypes
      <3> QED
        BY <3>1 DEF ControlTypes, WorkerSteps, TypistSteps, GetSteps, RunSteps, FinishSteps
    <2>2. QueueTypes' /\ Lines' = Lines /\ LastLine' = LastLine
      BY QueuesAtRest
    <2>3. LineInHand'
      BY <2>2 DEF LineInHand, QueueTypes, Pill
    <2>4. NextIsClear' /\ MarkedIsBusy'
      BY DEF NextIsClear, MarkedIsBusy, ControlTypes, ClearSteps, GetSteps, RunSteps
    <2>5. InterruptIsFresh'
      BY DEF InterruptIsFresh, ControlTypes, RunSteps
    <2>6. LatchReachesChild' /\ NoChildAfterStop'
      BY DEF LatchReachesChild, NoChildAfterStop, ControlTypes
    <2> QED
      BY <2>1, <2>2, <2>3, <2>4, <2>5, <2>6
  <1>32. CASE Discard
    <2> USE <1>32 DEF Discard, Works, queues, signals, console, history, runtime
    <2>1. ControlTypes'
      <3>1. worker' \in WorkerSteps /\ typist' \in TypistSteps
        BY DEF ControlTypes, WorkerSteps, TypistSteps, GetSteps, RunSteps, FinishSteps
      <3> QED
        BY <3>1 DEF ControlTypes
    <2>2. QueueTypes' /\ Lines' = Lines /\ LastLine' = LastLine
      BY DEF QueueTypes, Lines, LastLine, LineInHand, Pill
    <2>3. LineInHand'
      BY <2>2 DEF LineInHand, QueueTypes, Pill
    <2>4. NextIsClear' /\ MarkedIsBusy'
      BY DEF NextIsClear, MarkedIsBusy, ControlTypes, ClearSteps, GetSteps, RunSteps
    <2>5. InterruptIsFresh'
      BY DEF InterruptIsFresh, ControlTypes, RunSteps
    <2>6. LatchReachesChild' /\ NoChildAfterStop'
      BY DEF LatchReachesChild, NoChildAfterStop, ControlTypes
    <2> QED
      BY <2>1, <2>2, <2>3, <2>4, <2>5, <2>6
  <1>33. CASE Unlatch
    <2> USE <1>33 DEF Unlatch, Works, Loops, queues, signals, console, history, runtime
    <2>1. ControlTypes'
      <3>1. latch' \in BOOLEAN
        BY DEF ControlTypes
      <3> QED
        BY <3>1 DEF ControlTypes, WorkerSteps, TypistSteps, GetSteps, RunSteps, FinishSteps
    <2>2. QueueTypes' /\ Lines' = Lines /\ LastLine' = LastLine
      BY QueuesAtRest
    <2>3. LineInHand'
      BY <2>2 DEF LineInHand, QueueTypes, Pill
    <2>4. NextIsClear' /\ MarkedIsBusy'
      BY DEF NextIsClear, MarkedIsBusy, ControlTypes, ClearSteps, GetSteps, RunSteps
    <2>5. InterruptIsFresh'
      BY DEF InterruptIsFresh, ControlTypes, RunSteps
    <2>6. LatchReachesChild' /\ NoChildAfterStop'
      BY DEF LatchReachesChild, NoChildAfterStop, ControlTypes
    <2> QED
      BY <2>1, <2>2, <2>3, <2>4, <2>5, <2>6
  <1>34. CASE OpenAlpine
    <2> USE <1>34 DEF OpenAlpine, Works, Loops, Enter, queues, signals, console, history, runtime
    <2>1. ControlTypes'
      <3>1. worker' \in WorkerSteps /\ typist' \in TypistSteps
        BY DEF ControlTypes, WorkerSteps, TypistSteps, GetSteps, RunSteps, FinishSteps
      <3> QED
        BY <3>1 DEF ControlTypes
    <2>2. QueueTypes' /\ Lines' = Lines /\ LastLine' = LastLine
      BY QueuesAtRest
    <2>3. LineInHand'
      BY <2>2 DEF LineInHand, QueueTypes, Pill
    <2>4. NextIsClear' /\ MarkedIsBusy'
      BY DEF NextIsClear, MarkedIsBusy, ControlTypes, ClearSteps, GetSteps, RunSteps
    <2>5. InterruptIsFresh'
      BY DEF InterruptIsFresh, ControlTypes, RunSteps
    <2>6. LatchReachesChild' /\ NoChildAfterStop'
      BY DEF LatchReachesChild, NoChildAfterStop, ControlTypes
    <2> QED
      BY <2>1, <2>2, <2>3, <2>4, <2>5, <2>6
  <1>35. CASE Drain
    <2> USE <1>35 DEF Drain, Works, queues, signals, console, history, runtime
    <2>1. ControlTypes'
      <3>1. worker' \in WorkerSteps /\ typist' \in TypistSteps
        BY DEF ControlTypes, WorkerSteps, TypistSteps, GetSteps, RunSteps, FinishSteps
      <3> QED
        BY <3>1 DEF ControlTypes
    <2>2. QueueTypes' /\ Lines' = Lines /\ LastLine' = LastLine
      BY DEF QueueTypes, Lines, LastLine, LineInHand, Pill
    <2>3. LineInHand'
      BY <2>2 DEF LineInHand, QueueTypes, Pill
    <2>4. NextIsClear' /\ MarkedIsBusy'
      BY DEF NextIsClear, MarkedIsBusy, ControlTypes, ClearSteps, GetSteps, RunSteps
    <2>5. InterruptIsFresh'
      BY DEF InterruptIsFresh, ControlTypes, RunSteps
    <2>6. LatchReachesChild' /\ NoChildAfterStop'
      BY DEF LatchReachesChild, NoChildAfterStop, ControlTypes
    <2> QED
      BY <2>1, <2>2, <2>3, <2>4, <2>5, <2>6
  <1>36. CASE Resubmit
    <2> USE <1>36 DEF Resubmit, Enter, queues, signals, console, history, runtime
    <2>1. ControlTypes'
      <3>1. worker' \in WorkerSteps /\ typist' \in TypistSteps
        BY DEF ControlTypes, WorkerSteps, TypistSteps, GetSteps, RunSteps, FinishSteps
      <3> QED
        BY <3>1 DEF ControlTypes
    <2>2. QueueTypes' /\ Lines' = Lines /\ LastLine' = LastLine
      <3>0. Lines' = Lines /\ LastLine' = LastLine
        BY DEF Lines, LastLine
      <3>1. Head(leftovers) \in Lines /\ Tail(leftovers) \in Seq(Lines)
        BY HeadTailProperties DEF QueueTypes
      <3>2. Append(commands, Head(leftovers)) \in Seq(Lines \union {Pill})
        BY <3>1, AppendProperties DEF QueueTypes
      <3>3. commands' \in Seq(Lines \union {Pill})
        BY <3>2 DEF QueueTypes
      <3>4. settled' \in SUBSET Lines
        BY <3>1 DEF QueueTypes
      <3> QED
        BY <3>0, <3>1, <3>2, <3>3, <3>4 DEF QueueTypes
    <2>3. LineInHand'
      BY <2>2 DEF LineInHand, QueueTypes, Pill
    <2>4. NextIsClear' /\ MarkedIsBusy'
      BY DEF NextIsClear, MarkedIsBusy, ControlTypes, ClearSteps, GetSteps, RunSteps
    <2>5. InterruptIsFresh'
      BY DEF InterruptIsFresh, ControlTypes, RunSteps
    <2>6. LatchReachesChild' /\ NoChildAfterStop'
      BY DEF LatchReachesChild, NoChildAfterStop, ControlTypes
    <2> QED
      BY <2>1, <2>2, <2>3, <2>4, <2>5, <2>6
  <1>37. CASE Resubmitted
    <2> USE <1>37 DEF Resubmitted, Works, Loops, queues, signals, console, history, runtime
    <2>1. ControlTypes'
      <3>1. worker' \in WorkerSteps /\ typist' \in TypistSteps
        BY DEF ControlTypes, WorkerSteps, TypistSteps, GetSteps, RunSteps, FinishSteps
      <3> QED
        BY <3>1 DEF ControlTypes
    <2>2. QueueTypes' /\ Lines' = Lines /\ LastLine' = LastLine
      BY QueuesAtRest
    <2>3. LineInHand'
      BY <2>2 DEF LineInHand, QueueTypes, Pill
    <2>4. NextIsClear' /\ MarkedIsBusy'
      BY DEF NextIsClear, MarkedIsBusy, ControlTypes, ClearSteps, GetSteps, RunSteps
    <2>5. InterruptIsFresh'
      BY DEF InterruptIsFresh, ControlTypes, RunSteps
    <2>6. LatchReachesChild' /\ NoChildAfterStop'
      BY DEF LatchReachesChild, NoChildAfterStop, ControlTypes
    <2> QED
      BY <2>1, <2>2, <2>3, <2>4, <2>5, <2>6
  <1>38. CASE RaiseIdle
    <2> USE <1>38 DEF RaiseIdle, Raise, queues, signals, console, history, runtime
    <2>1. ControlTypes'
      <3>1. worker' \in WorkerSteps /\ typist' \in TypistSteps
        BY DEF ControlTypes, WorkerSteps, TypistSteps, GetSteps, RunSteps, FinishSteps
      <3> QED
        BY <3>1 DEF ControlTypes
    <2>2. QueueTypes' /\ Lines' = Lines /\ LastLine' = LastLine
      BY QueuesAtRest
    <2>3. LineInHand'
      BY <2>2 DEF LineInHand, QueueTypes, Pill
    <2>4. NextIsClear' /\ MarkedIsBusy'
      BY DEF NextIsClear, MarkedIsBusy, ControlTypes, ClearSteps, GetSteps, RunSteps
    <2>5. InterruptIsFresh'
      BY DEF InterruptIsFresh, ControlTypes, RunSteps
    <2>6. LatchReachesChild' /\ NoChildAfterStop'
      BY DEF LatchReachesChild, NoChildAfterStop, ControlTypes
    <2> QED
      BY <2>1, <2>2, <2>3, <2>4, <2>5, <2>6
  <1>39. CASE RaisePython
    <2> USE <1>39 DEF RaisePython, Raise, queues, signals, console, history, runtime
    <2>1. ControlTypes'
      <3>1. worker' \in WorkerSteps /\ typist' \in TypistSteps
        BY DEF ControlTypes, WorkerSteps, TypistSteps, GetSteps, RunSteps, FinishSteps
      <3> QED
        BY <3>1 DEF ControlTypes
    <2>2. QueueTypes' /\ Lines' = Lines /\ LastLine' = LastLine
      BY QueuesAtRest
    <2>3. LineInHand'
      BY <2>2 DEF LineInHand, QueueTypes, Pill
    <2>4. NextIsClear' /\ MarkedIsBusy'
      BY DEF NextIsClear, MarkedIsBusy, ControlTypes, ClearSteps, GetSteps, RunSteps
    <2>5. InterruptIsFresh'
      BY DEF InterruptIsFresh, ControlTypes, RunSteps
    <2>6. LatchReachesChild' /\ NoChildAfterStop'
      BY DEF LatchReachesChild, NoChildAfterStop, ControlTypes
    <2> QED
      BY <2>1, <2>2, <2>3, <2>4, <2>5, <2>6
  <1>40. CASE RaiseRunning
    <2> USE <1>40 DEF RaiseRunning, Raise, queues, signals, console, history, runtime
    <2>1. ControlTypes'
      <3>1. worker' \in WorkerSteps /\ typist' \in TypistSteps
        BY DEF ControlTypes, WorkerSteps, TypistSteps, GetSteps, RunSteps, FinishSteps
      <3> QED
        BY <3>1 DEF ControlTypes
    <2>2. QueueTypes' /\ Lines' = Lines /\ LastLine' = LastLine
      BY QueuesAtRest
    <2>3. LineInHand'
      BY <2>2 DEF LineInHand, QueueTypes, Pill
    <2>4. NextIsClear' /\ MarkedIsBusy'
      BY DEF NextIsClear, MarkedIsBusy, ControlTypes, ClearSteps, GetSteps, RunSteps
    <2>5. InterruptIsFresh'
      BY DEF InterruptIsFresh, ControlTypes, RunSteps
    <2>6. LatchReachesChild' /\ NoChildAfterStop'
      BY DEF LatchReachesChild, NoChildAfterStop, ControlTypes
    <2> QED
      BY <2>1, <2>2, <2>3, <2>4, <2>5, <2>6
  <1>41. CASE RaiseCaught
    <2> USE <1>41 DEF RaiseCaught, Raise, queues, signals, console, history, runtime
    <2>1. ControlTypes'
      <3>1. worker' \in WorkerSteps /\ typist' \in TypistSteps
        BY DEF ControlTypes, WorkerSteps, TypistSteps, GetSteps, RunSteps, FinishSteps
      <3> QED
        BY <3>1 DEF ControlTypes
    <2>2. QueueTypes' /\ Lines' = Lines /\ LastLine' = LastLine
      BY QueuesAtRest
    <2>3. LineInHand'
      BY <2>2 DEF LineInHand, QueueTypes, Pill
    <2>4. NextIsClear' /\ MarkedIsBusy'
      BY DEF NextIsClear, MarkedIsBusy, ControlTypes, ClearSteps, GetSteps, RunSteps
    <2>5. InterruptIsFresh'
      BY DEF InterruptIsFresh, ControlTypes, RunSteps
    <2>6. LatchReachesChild' /\ NoChildAfterStop'
      BY DEF LatchReachesChild, NoChildAfterStop, ControlTypes
    <2> QED
      BY <2>1, <2>2, <2>3, <2>4, <2>5, <2>6
  <1>42. CASE RaiseFatal
    <2> USE <1>42 DEF RaiseFatal, Raise, queues, signals, console, history, runtime
    <2>1. ControlTypes'
      <3>1. worker' \in WorkerSteps /\ typist' \in TypistSteps
        BY DEF ControlTypes, WorkerSteps, TypistSteps, GetSteps, RunSteps, FinishSteps
      <3> QED
        BY <3>1 DEF ControlTypes
    <2>2. QueueTypes' /\ Lines' = Lines /\ LastLine' = LastLine
      BY QueuesAtRest
    <2>3. LineInHand'
      BY <2>2 DEF LineInHand, QueueTypes, Pill
    <2>4. NextIsClear' /\ MarkedIsBusy'
      BY DEF NextIsClear, MarkedIsBusy, ControlTypes, ClearSteps, GetSteps, RunSteps
    <2>5. InterruptIsFresh'
      BY DEF InterruptIsFresh, ControlTypes, RunSteps
    <2>6. LatchReachesChild' /\ NoChildAfterStop'
      BY DEF LatchReachesChild, NoChildAfterStop, ControlTypes
    <2> QED
      BY <2>1, <2>2, <2>3, <2>4, <2>5, <2>6
  <1>43. CASE UNCHANGED vars
    <2> USE <1>43 DEF vars, queues, signals, console, history, runtime
    <2>1. ControlTypes'
      <3>1. worker' \in WorkerSteps /\ typist' \in TypistSteps
        BY DEF ControlTypes, WorkerSteps, TypistSteps, GetSteps, RunSteps, FinishSteps
      <3> QED
        BY <3>1 DEF ControlTypes
    <2>2. QueueTypes' /\ Lines' = Lines /\ LastLine' = LastLine
      BY QueuesAtRest
    <2>3. LineInHand'
      BY <2>2 DEF LineInHand, QueueTypes, Pill
    <2>4. NextIsClear' /\ MarkedIsBusy'
      BY DEF NextIsClear, MarkedIsBusy, ControlTypes, ClearSteps, GetSteps, RunSteps
    <2>5. InterruptIsFresh'
      BY DEF InterruptIsFresh, ControlTypes, RunSteps
    <2>6. LatchReachesChild' /\ NoChildAfterStop'
      BY DEF LatchReachesChild, NoChildAfterStop, ControlTypes
    <2> QED
      BY <2>1, <2>2, <2>3, <2>4, <2>5, <2>6
  <1> QED
    BY <1>1, <1>2, <1>3, <1>4, <1>5, <1>6, <1>7, <1>8, <1>9, <1>10, <1>11, <1>12, <1>13, <1>14, <1>15, <1>16, <1>17, <1>18, <1>19, <1>20, <1>21, <1>22, <1>23, <1>24, <1>25, <1>26, <1>27, <1>28, <1>29, <1>30, <1>31, <1>32, <1>33, <1>34, <1>35, <1>36, <1>37, <1>38, <1>39, <1>40, <1>41, <1>42, <1>43 DEF Next, UserAction, TypistStep, WorkerStep

-----------------------------------------------------------------------------
\* The inductive invariant holds in every reachable state.
THEOREM Invariance == Spec => []IInv
  BY InitInv, StepInv, PTL DEF Spec

\* Every variable has its type, and queues, history and the hands of both
\* threads hold only lines that were typed, however many.
THEOREM TypeCorrect == Spec => []TypeOK
  <1>1. IInv => TypeOK
    BY TypesInTwo DEF IInv
  <1> QED
    BY <1>1, Invariance, PTL

\* _busy, by which the typist chooses the queue and Ctrl+C its effect, is set
\* while a line runs and clear while the worker waits for one, wherever a
\* KeyboardInterrupt was raised.
THEOREM BusyIsRight == Spec => []BusyMeansWorking
  <1>1. IInv => BusyMeansWorking
    BY DEF IInv, NextIsClear, MarkedIsBusy, BusyMeansWorking, ClearSteps
  <1> QED
    BY <1>1, Invariance, PTL

\* The latch a running command sees was raised after that command was marked:
\* a late Ctrl+C for its predecessor never cancels it.
THEOREM InterruptsAreFresh == Spec => []InterruptIsFresh
  BY Invariance, PTL DEF IInv

\* A latch that is set while a child runs has reached it, on whichever side of
\* the registration the Ctrl+C came.
THEOREM LatchesReachChildren == Spec => []LatchReachesChild
  BY Invariance, PTL DEF IInv

\* Neither a toggle nor the end of linux-setup opens Alpine after stop().
THEOREM StoppedHasNoChild == Spec => []NoChildAfterStop
  BY Invariance, PTL DEF IInv

-----------------------------------------------------------------------------
(***************************************************************************)
(* The lines.  A line is in one place: the typist's hand, a queue, the     *)
(* hands of the worker, or the past.  Seen from the place it is in, a step *)
(* hands over one line or takes all of a queue; so the places stay apart   *)
(* (Apart), no queue holds a line twice (Distinct), lines that were typed  *)
(* ahead keep their order, queue by queue (InOrder) and in each (Sorted),  *)
(* and until the first interrupt (Quiet) none is dropped (Kept).           *)
(***************************************************************************)
Distinct(s) == \A i, j \in DOMAIN s : s[i] = s[j] /\ s[i] # Pill => i = j
Sorted(s, A) == \A i, j \in DOMAIN s : i < j /\ s[i] \in A /\ s[j] \in A => s[i] < s[j]

\* Only who resubmits has leftovers, or died of an interrupt over them.
NoLeftovers == worker \notin {"resubmit", "dead"} => leftovers = << >>

InQueues == ToSet(commands) \union ToSet(stdin) \union ToSet(leftovers)

Apart ==
  /\ \A l \in ToSet(commands) \ {Pill} : l \notin ToSet(stdin) /\ l \notin ToSet(leftovers)
  /\ \A l \in ToSet(stdin) : l \notin ToSet(leftovers)
  /\ \A l \in ToSet(Taken) : l \notin InQueues
  /\ \A l \in ToSet(started) : l \notin InQueues /\ l \notin ToSet(Taken)
  /\ \A l \in settled : l \notin InQueues /\ l \notin ToSet(Taken) /\ l \notin ToSet(started)
  /\ \A l \in InHand : l \notin InQueues /\ l \notin ToSet(Taken) /\ l \notin ToSet(started)
                      /\ l \notin settled /\ l \notin ahead

QueuesSorted ==
  /\ Distinct(commands) /\ Distinct(stdin) /\ Distinct(leftovers) /\ Distinct(started)
  /\ Sorted(commands, ahead) /\ Sorted(stdin, ahead) /\ Sorted(leftovers, ahead)
  /\ Sorted(started, ahead)

\* Lines typed ahead that are in S are before those that are in T.
Before(S, T) == \A k \in S \intersect ahead, l \in T \intersect ahead : k < l

InOrder ==
  /\ Before(ToSet(started), ToSet(Taken) \union InQueues)
  /\ Before(ToSet(Taken), InQueues)
  /\ Before(ToSet(commands), ToSet(leftovers) \union ToSet(stdin))
  /\ Before(ToSet(leftovers), ToSet(stdin))

\* Where the worker carries a line that is not yet started.
Carrying == {"popped", "taken", "checked", "marking", "comparing", "wiping", "run"}

\* Nobody has interrupted or stopped the session.
Calm == running /\ epoch = 0

Quiet == Calm =>
  /\ ~ pending /\ ~ latch /\ ~ interrupted /\ ~ dying
  /\ typist \notin {"probe", "inject", "stop", "poison"}
  /\ worker \notin {"caught", "discard", "unlatch", "dead", "stopped"}
  /\ Pill \notin ToSet(commands)
  /\ worker \in Carrying => item # Pill

Kept == Calm =>
  \A l \in Lines : l \in InQueues \union ToSet(Taken) \union ToSet(started) \union settled \union InHand

LinesInv == NoLeftovers /\ Apart /\ QueuesSorted /\ InOrder /\ Quiet /\ Kept

-----------------------------------------------------------------------------
(* Queues.                                                                 *)

\* A line at the end of a queue.
LEMMA AppendFacts ==
  ASSUME NEW S \in SUBSET Nat, NEW s \in Seq(S), NEW e \in S
  PROVE  /\ Append(s, e) \in Seq(S) /\ ToSet(Append(s, e)) = ToSet(s) \union {e}
         /\ Distinct(s) /\ (e = Pill \/ e \notin ToSet(s)) => Distinct(Append(s, e))
         /\ \A A : Sorted(s, A) /\ (e \in A => \A k \in ToSet(s) \intersect A : k < e)
                     => Sorted(Append(s, e), A)
  <1> DEFINE t == Append(s, e)
  <1>1. /\ t \in Seq(S) /\ Len(s) \in Nat /\ DOMAIN s = 1 .. Len(s) /\ DOMAIN t = 1 .. Len(s) + 1
        /\ t[Len(s) + 1] = e /\ \A i \in DOMAIN s : t[i] = s[i] /\ s[i] \in S
    OBVIOUS
  <1>2. \A i \in DOMAIN s : s[i] \in ToSet(s)
    BY DEF ToSet
  <1>3. \A i \in DOMAIN t : i \in DOMAIN s \/ i = Len(s) + 1
    BY <1>1
  <1> HIDE DEF t
  <1>4. ToSet(t) = ToSet(s) \union {e}
    <2>1. ToSet(t) \subseteq ToSet(s) \union {e}
      BY <1>1, <1>2, <1>3 DEF ToSet
    <2>2. ToSet(s) \union {e} \subseteq ToSet(t)
      BY <1>1 DEF ToSet
    <2> QED
      BY <2>1, <2>2
  <1>5. ASSUME Distinct(s), e = Pill \/ e \notin ToSet(s) PROVE Distinct(t)
    BY <1>1, <1>2, <1>3, <1>5 DEF Distinct
  <1>6. ASSUME NEW A, Sorted(s, A), e \in A => \A k \in ToSet(s) \intersect A : k < e
        PROVE  Sorted(t, A)
    BY <1>1, <1>2, <1>3, <1>6 DEF Sorted
  <1> QED
    BY <1>1, <1>4, <1>5, <1>6 DEF t

\* A queue and the one that is left when its first line is taken.
LEMMA TailFacts ==
  ASSUME NEW S \in SUBSET Nat, NEW s \in Seq(S), s # << >>
  PROVE  /\ Head(s) \in S /\ Tail(s) \in Seq(S) /\ ToSet(s) = ToSet(Tail(s)) \union {Head(s)}
         /\ Distinct(s) => Distinct(Tail(s)) /\ (Head(s) = Pill \/ Head(s) \notin ToSet(Tail(s)))
         /\ \A A : Sorted(s, A) =>
                     /\ Sorted(Tail(s), A)
                     /\ Head(s) \in A => \A k \in ToSet(Tail(s)) \intersect A : Head(s) < k
  <1> DEFINE t == Tail(s)
  <1>1. /\ t \in Seq(S) /\ Len(s) \in Nat \ {0} /\ DOMAIN s = 1 .. Len(s) /\ DOMAIN t = 1 .. Len(s) - 1
        /\ Head(s) = s[1] /\ s[1] \in S
        /\ \A i \in DOMAIN t : t[i] = s[i + 1] /\ i + 1 \in DOMAIN s /\ i \in Nat \ {0}
    <2>1. Len(s) # 0
      OBVIOUS
    <2> QED
      BY <2>1
  <1>2. \A i \in DOMAIN s : i = 1 \/ (i - 1 \in DOMAIN t /\ s[i] = t[i - 1])
    BY <1>1
  <1> HIDE DEF t
  <1>3. ToSet(s) = ToSet(t) \union {s[1]}
    <2>1. ToSet(s) \subseteq ToSet(t) \union {s[1]}
      BY <1>2 DEF ToSet
    <2>2. ToSet(t) \union {s[1]} \subseteq ToSet(s)
      BY <1>1 DEF ToSet
    <2> QED
      BY <2>1, <2>2
  <1>4. ASSUME Distinct(s) PROVE Distinct(t) /\ (s[1] = Pill \/ s[1] \notin ToSet(t))
    <2>1. Distinct(t)
      <3> SUFFICES ASSUME NEW i \in DOMAIN t, NEW j \in DOMAIN t, t[i] = t[j], t[i] # Pill PROVE i = j
        BY DEF Distinct
      <3>1. i + 1 = j + 1
        BY <1>1, <1>4 DEF Distinct
      <3> QED
        BY <1>1, <3>1
    <2>2. \A i \in DOMAIN t : 1 # i + 1
      BY <1>1
    <2>3. s[1] = Pill \/ s[1] \notin ToSet(t)
      BY <1>1, <1>4, <2>2 DEF Distinct, ToSet
    <2> QED
      BY <2>1, <2>3
  <1>5. ASSUME NEW A, Sorted(s, A)
        PROVE  Sorted(t, A) /\ (s[1] \in A => \A k \in ToSet(t) \intersect A : s[1] < k)
    <2>1. Sorted(t, A)
      <3> SUFFICES ASSUME NEW i \in DOMAIN t, NEW j \in DOMAIN t, i < j, t[i] \in A, t[j] \in A
                   PROVE  t[i] < t[j]
        BY DEF Sorted
      <3>1. i + 1 < j + 1
        BY <1>1
      <3> QED
        BY <1>1, <1>5, <3>1 DEF Sorted
    <2>2. \A i \in DOMAIN t : 1 < i + 1
      BY <1>1
    <2>3. s[1] \in A => \A k \in ToSet(t) \intersect A : s[1] < k
      BY <1>1, <1>5, <2>2 DEF Sorted, ToSet
    <2> QED
      BY <2>1, <2>3
  <1> QED
    BY <1>1, <1>3, <1>4, <1>5 DEF t

\* An empty queue, and a queue of one line.
LEMMA SmallQueues ==
  /\ ToSet(<< >>) = {} /\ Distinct(<< >>) /\ \A A : Sorted(<< >>, A)
  /\ ToSet(Taken) = (IF Taken = << >> THEN {} ELSE {item})
  BY DEF ToSet, Distinct, Sorted, Taken

-----------------------------------------------------------------------------
(* What each step does with the lines.                                     *)

LEMMA LinesInit == Init => LinesInv
  <1> SUFFICES ASSUME Init PROVE LinesInv
    OBVIOUS
  <1>1. /\ commands = << >> /\ stdin = << >> /\ leftovers = << >> /\ started = << >> /\ Taken = << >>
        /\ settled = {} /\ ahead = {} /\ InHand = {} /\ Lines = {}
    BY DEF Init, Taken, InHand, Lines, LastLine
  <1>2. ToSet(commands) = {} /\ ToSet(stdin) = {} /\ ToSet(leftovers) = {} /\ ToSet(started) = {}
        /\ ToSet(Taken) = {}
    BY <1>1, SmallQueues
  <1>3. Apart /\ InOrder /\ Kept /\ NoLeftovers
    BY <1>1, <1>2 DEF Apart, InOrder, Before, Kept, NoLeftovers, InQueues
  <1>4. QueuesSorted
    BY <1>1, SmallQueues DEF QueuesSorted
  <1>5. Quiet
    BY <1>2 DEF Init, Quiet, Carrying
  <1> QED
    BY <1>3, <1>4, <1>5 DEF LinesInv

\* A step that leaves the queues alone; what the worker carries is dropped only
\* after an interrupt.
AtRest ==
  /\ UNCHANGED <<kinds, commands, stdin, leftovers, started, settled, ahead, item>>
  /\ typist' \in {"submit", "put_stdin"} <=> typist \in {"submit", "put_stdin"}
  /\ worker' \in Carrying => worker \in Carrying
  /\ worker' \in Carrying \/ worker \notin Carrying \/ ~ Calm'
  /\ (Calm' => Calm) /\ Quiet' /\ NoLeftovers'

LEMMA LinesAtRest ==
  ASSUME LinesInv, AtRest
  PROVE  LinesInv'
  <1>1. InHand' = InHand /\ LastLine' = LastLine /\ Lines' = Lines /\ (Calm' => Calm)
    BY DEF AtRest, InHand, LastLine, Lines
  <1>2. ToSet(Taken') = ToSet(Taken) \/ (ToSet(Taken') = {} /\ ~ Calm')
    <2>1. Taken' = Taken \/ (Taken' = << >> /\ ~ Calm')
      BY DEF AtRest, Taken, Carrying
    <2> QED
      BY <2>1, SmallQueues
  <1>3. UNCHANGED <<commands, stdin, leftovers, started, settled, ahead>> /\ Quiet' /\ NoLeftovers'
    BY DEF AtRest
  <1>4. Apart'
    BY <1>1, <1>2, <1>3 DEF LinesInv, Apart, InQueues
  <1>5. InOrder'
    BY <1>2, <1>3 DEF LinesInv, InOrder, Before, InQueues
  <1>6. QueuesSorted'
    BY <1>3 DEF LinesInv, QueuesSorted
  <1>7. Kept'
    BY <1>1, <1>2, <1>3 DEF LinesInv, Kept, InQueues
  <1> QED
    BY <1>3, <1>4, <1>5, <1>6, <1>7 DEF LinesInv

\* The steps that leave them alone.
LEMMA QuietSteps ==
  ASSUME IInv, LinesInv,
         EndWrite \/ Interrupt \/ Probe \/ Inject \/ StopInterrupt \/ CtrlC \/ Toggle \/ Stop \/
         Take \/ CheckRunning \/ SnapshotEpoch \/ SetBusy \/ CompareEpoch \/ WipeLatch \/ EndPython
         \/ Spawn \/ EndPipeline \/ Render \/ Caught \/ ReadLatch \/ ClearBusy \/ Unlatch \/
         OpenAlpine \/ Resubmitted \/ RaiseIdle \/ RaisePython \/ RaiseRunning \/ RaiseCaught \/
         RaiseFatal
  PROVE  LinesInv'
  <1> USE DEF queues, signals, console, history, runtime, Calm, Quiet, NoLeftovers, Carrying, AtRest
  <1>0. /\ worker \in WorkerSteps /\ epoch \in Nat /\ Quiet /\ NoLeftovers /\ running \in BOOLEAN
    BY DEF IInv, ControlTypes, LinesInv
  <1>1. EndWrite => AtRest
    BY <1>0 DEF EndWrite, Goes
  <1>2. Interrupt => AtRest
    BY <1>0 DEF Interrupt, Goes, RaiseLatch
  <1>3. Probe => AtRest
    BY <1>0 DEF Probe, Goes
  <1>4. Inject => AtRest
    BY <1>0 DEF Inject, Goes
  <1>5. StopInterrupt => AtRest
    BY <1>0 DEF StopInterrupt, Goes, RaiseLatch
  <1>6. CtrlC => AtRest
    BY <1>0 DEF CtrlC, AtConsole
  <1>7. Toggle => AtRest
    BY <1>0 DEF Toggle, Enter
  <1>8. Stop => AtRest
    BY <1>0 DEF Stop, Goes
  <1>9. Take => AtRest
    BY <1>0 DEF Take, Works
  <1>10. CheckRunning => AtRest
    BY <1>0 DEF CheckRunning, Works
  <1>11. SnapshotEpoch => AtRest
    BY <1>0 DEF SnapshotEpoch, Works
  <1>12. SetBusy => AtRest
    BY <1>0 DEF SetBusy, Works
  <1>13. CompareEpoch => AtRest
    BY <1>0 DEF CompareEpoch, Works
  <1>14. WipeLatch => AtRest
    BY <1>0 DEF WipeLatch, Works
  <1>15. EndPython => AtRest
    BY <1>0 DEF EndPython, Works
  <1>16. Spawn => AtRest
    BY <1>0 DEF Spawn, Works
  <1>17. EndPipeline => AtRest
    BY <1>0 DEF EndPipeline, Works
  <1>18. Render => AtRest
    BY <1>0 DEF Render, Works
  <1>19. Caught => AtRest
    BY <1>0 DEF Caught, Works
  <1>20. ReadLatch => AtRest
    BY <1>0 DEF ReadLatch, Works
  <1>21. ClearBusy => AtRest
    BY <1>0 DEF ClearBusy, Works
  <1>22. Unlatch => AtRest
    BY <1>0 DEF Unlatch, Works, Loops
  <1>23. OpenAlpine => AtRest
    BY <1>0 DEF OpenAlpine, Works, Loops, Enter
  <1>24. Resubmitted => AtRest
    BY <1>0 DEF Resubmitted, Works, Loops
  <1>25. RaiseIdle => AtRest
    BY <1>0 DEF RaiseIdle, Raise
  <1>26. RaisePython => AtRest
    BY <1>0 DEF RaisePython, Raise
  <1>27. RaiseRunning => AtRest
    BY <1>0 DEF RaiseRunning, Raise
  <1>28. RaiseCaught => AtRest
    BY <1>0 DEF RaiseCaught, Raise
  <1>29. RaiseFatal => AtRest
    BY <1>0 DEF RaiseFatal, Raise
  <1> HIDE DEF AtRest
  <1> QED
    BY <1>1, <1>2, <1>3, <1>4, <1>5, <1>6, <1>7, <1>8, <1>9, <1>10, <1>11, <1>12, <1>13, <1>14, <1>15, <1>16, <1>17, <1>18, <1>19, <1>20, <1>21, <1>22, <1>23, <1>24, <1>25, <1>26, <1>27, <1>28, <1>29, LinesAtRest

\* What the other steps need to know of the types.
LEMMA LineTypes ==
  ASSUME IInv
  PROVE  /\ Lines \subseteq Nat \ {Pill} /\ Lines \union {Pill} \subseteq Nat
         /\ commands \in Seq(Lines \union {Pill}) /\ stdin \in Seq(Lines) /\ leftovers \in Seq(Lines)
         /\ started \in Seq(Lines) /\ settled \in SUBSET Lines /\ ahead \in SUBSET Lines
         /\ ToSet(commands) \subseteq Lines \union {Pill} /\ ToSet(stdin) \subseteq Lines
         /\ ToSet(leftovers) \subseteq Lines /\ ToSet(started) \subseteq Lines
         /\ ToSet(Taken) \subseteq Lines /\ item \in Lines \union {Pill} /\ InHand \subseteq Lines
         /\ LastLine \in Nat /\ Lines = 1 .. LastLine /\ Pill = 0
  <1>1. QueueTypes /\ LineInHand
    BY DEF IInv
  <1>2. LastLine \in Nat /\ Lines = 1 .. LastLine /\ Pill = 0
    BY <1>1 DEF QueueTypes, LastLine, Lines, Pill
  <1>3. ToSet(commands) \subseteq Lines \union {Pill} /\ ToSet(stdin) \subseteq Lines
        /\ ToSet(leftovers) \subseteq Lines /\ ToSet(started) \subseteq Lines
    BY <1>1 DEF QueueTypes, ToSet
  <1>4. ToSet(Taken) \subseteq Lines
    BY <1>1, SmallQueues DEF QueueTypes, Taken
  <1>5. InHand \subseteq Lines
    BY <1>1 DEF LineInHand, InHand
  <1> QED
    BY <1>1, <1>2, <1>3, <1>4, <1>5 DEF QueueTypes

\* A line, or the pill, at the end of the command queue.
LEMMA QueueCommand ==
  ASSUME IInv, LinesInv, NEW e \in Lines \union {Pill}, e = Pill \/ e \notin ToSet(commands),
         e \in ahead => \A k \in ToSet(commands) \intersect ahead : k < e
  PROVE  /\ ToSet(Append(commands, e)) = ToSet(commands) \union {e}
         /\ Distinct(Append(commands, e)) /\ Sorted(Append(commands, e), ahead)
  <1>1. PICK S \in SUBSET Nat : S = Lines \union {Pill}
    BY LineTypes
  <1>2. commands \in Seq(S) /\ e \in S /\ Distinct(commands) /\ Sorted(commands, ahead)
    BY <1>1, LineTypes DEF LinesInv, QueuesSorted
  <1> QED
    BY <1>2, AppendFacts

\* A line is typed: it is the last one, and in the typist's hand.
LEMMA TypeLineStep == ASSUME IInv, LinesInv, NEW k \in Kinds, TypeLine(k) PROVE LinesInv'
  <1> USE DEF TypeLine, queues, signals, console, history, runtime
  <1>1. LastLine' = LastLine + 1 /\ LastLine \in Nat /\ Lines' = Lines \union {LastLine'}
        /\ LastLine' \notin Lines
    <2>1. Len(kinds') = Len(kinds) + 1
      BY KindsAssumption, AppendProperties DEF IInv, QueueTypes
    <2> QED
      BY <2>1, LineTypes DEF LastLine, Lines
  <1>2. InHand = {} /\ InHand' = {LastLine'} /\ Taken' = Taken
    BY DEF AtConsole, InHand, Taken
  <1>3. Apart' /\ InOrder' /\ QueuesSorted'
    BY <1>1, <1>2, LineTypes DEF LinesInv, Apart, InOrder, Before, QueuesSorted, InQueues, Pill
  <1>4. Quiet' /\ NoLeftovers'
    BY DEF LinesInv, Quiet, NoLeftovers, Calm, AtConsole
  <1>5. Kept'
    BY <1>1, <1>2 DEF LinesInv, Kept, Calm, InQueues
  <1> QED
    BY <1>3, <1>4, <1>5 DEF LinesInv

\* It is put into one of the queues, or answered.
LEMMA PutStdinStep == ASSUME IInv, LinesInv, PutStdin PROVE LinesInv'
  <1> USE DEF PutStdin, Typed, queues, signals, console, history, runtime
  <1>1. LastLine \in InHand /\ InHand' = {} /\ InHand = {LastLine} /\ LastLine \in Lines
        /\ Lines' = Lines /\ Taken' = Taken
    BY DEF InHand, Lines, LastLine, Taken, IInv, LineInHand
  <1>2. /\ stdin' = Append(stdin, LastLine) /\ ToSet(stdin') = ToSet(stdin) \union {LastLine}
        /\ Distinct(stdin')
        /\ \A A : Sorted(stdin, A) /\ (LastLine \in A => \A k \in ToSet(stdin) \intersect A : k < LastLine)
                    => Sorted(stdin', A)
    BY <1>1, LineTypes, AppendFacts DEF LinesInv, Apart, InQueues, QueuesSorted
  <1>3. Apart'
    BY <1>1, <1>2 DEF LinesInv, Apart, InQueues
  <1>4. \A l \in Lines \ {LastLine} : l < LastLine
    BY LineTypes
  <1>5. \A l \in InQueues \union ToSet(Taken) \union ToSet(started) :
           l # LastLine /\ (l \in ahead' <=> l \in ahead) /\ (l \in ahead => l < LastLine)
    BY <1>1, <1>4, LineTypes DEF LinesInv, Apart
  <1>6. InOrder'
    BY <1>1, <1>2, <1>5 DEF LinesInv, InOrder, Before, InQueues
  <1>7. QueuesSorted'
    <2>1. \A s \in {commands, stdin, leftovers, started} : Sorted(s, ahead) => Sorted(s, ahead')
      BY <1>5 DEF Sorted, InQueues, ToSet
    <2>2. Sorted(stdin', ahead')
      BY <1>2, <1>5, <2>1 DEF LinesInv, QueuesSorted, InQueues
    <2> QED
      BY <1>2, <2>1, <2>2 DEF LinesInv, QueuesSorted
  <1>8. Quiet' /\ NoLeftovers'
    BY DEF LinesInv, Quiet, NoLeftovers, Calm
  <1>9. Kept'
    BY <1>1, <1>2 DEF LinesInv, Kept, Calm, InQueues
  <1> QED
    BY <1>3, <1>6, <1>7, <1>8, <1>9 DEF LinesInv

LEMMA PutCommandStep == ASSUME IInv, LinesInv, PutCommand PROVE LinesInv'
  <1> USE DEF PutCommand, Typed, queues, signals, console, history, runtime
  <1>1. InHand' = {} /\ InHand = {LastLine} /\ LastLine \in Lines /\ LastLine # Pill
        /\ Lines' = Lines /\ Taken' = Taken
    BY LineTypes DEF InHand, Lines, LastLine, Taken
  <1>2. LastLine \notin ahead /\ LastLine \notin InQueues
    BY <1>1 DEF LinesInv, Apart
  <1>3. /\ ToSet(commands') = ToSet(commands) \union {LastLine}
        /\ Distinct(commands') /\ Sorted(commands', ahead)
    BY <1>1, <1>2, QueueCommand DEF InQueues
  <1>4. Apart'
    BY <1>1, <1>3 DEF LinesInv, Apart, InQueues
  <1>5. InOrder' /\ QueuesSorted'
    BY <1>1, <1>2, <1>3 DEF LinesInv, InOrder, Before, InQueues, QueuesSorted
  <1>6. Quiet' /\ NoLeftovers'
    BY <1>1, <1>3 DEF LinesInv, Quiet, NoLeftovers, Calm
  <1>7. Kept'
    BY <1>1, <1>3 DEF LinesInv, Kept, Calm, InQueues
  <1> QED
    BY <1>4, <1>5, <1>6, <1>7 DEF LinesInv

LEMMA AnswerStep == ASSUME IInv, LinesInv, Answer PROVE LinesInv'
  <1> USE DEF Answer, Typed, queues, signals, history, runtime
  <1>1. InHand' = {} /\ InHand = {LastLine} /\ Lines' = Lines /\ Taken' = Taken
        /\ settled' = settled \union {LastLine}
    BY DEF InHand, Lines, LastLine, Taken
  <1>2. Apart'
    BY <1>1 DEF LinesInv, Apart, InQueues
  <1>3. InOrder' /\ QueuesSorted'
    BY <1>1 DEF LinesInv, InOrder, Before, InQueues, QueuesSorted
  <1>4. Quiet' /\ NoLeftovers'
    BY DEF LinesInv, Quiet, NoLeftovers, Calm
  <1>5. Kept'
    BY <1>1 DEF LinesInv, Kept, Calm, InQueues
  <1> QED
    BY <1>2, <1>3, <1>4, <1>5 DEF LinesInv

\* stop() puts the pill behind the lines.
LEMMA StopPoisonStep == ASSUME IInv, LinesInv, StopPoison PROVE LinesInv'
  <1> USE DEF StopPoison, Goes, queues, signals, console, history, runtime
  <1>1. InHand' = InHand /\ Lines' = Lines /\ Taken' = Taken /\ ~ Calm' /\ ~ Calm /\ Pill \notin ahead
    BY LineTypes DEF InHand, Lines, LastLine, Taken, LinesInv, Quiet, Calm
  <1>2. /\ ToSet(commands') = ToSet(commands) \union {Pill}
        /\ Distinct(commands') /\ Sorted(commands', ahead)
    BY <1>1, QueueCommand
  <1>3. Apart'
    BY <1>1, <1>2, LineTypes DEF LinesInv, Apart, InQueues
  <1>4. InOrder' /\ QueuesSorted'
    BY <1>1, <1>2 DEF LinesInv, InOrder, Before, InQueues, QueuesSorted
  <1>5. Quiet' /\ NoLeftovers' /\ Kept'
    BY <1>1 DEF LinesInv, Quiet, NoLeftovers, Kept
  <1> QED
    BY <1>3, <1>4, <1>5 DEF LinesInv

\* The worker takes the first line, or the pill.
LEMMA PopStep == ASSUME IInv, LinesInv, Pop PROVE LinesInv'
  <1> USE DEF Pop, Works, queues, signals, console, history, runtime
  <1>1. InHand' = InHand /\ Lines' = Lines /\ ToSet(Taken) = {} /\ ToSet(Taken') = {item'} \ {Pill}
    BY SmallQueues DEF InHand, Lines, LastLine, Taken, ToSet
  <1>2. /\ ToSet(commands) = ToSet(commands') \union {item'}
        /\ Distinct(commands') /\ (item' = Pill \/ item' \notin ToSet(commands'))
        /\ Sorted(commands', ahead)
        /\ item' \in ahead => \A k \in ToSet(commands') \intersect ahead : item' < k
    <2>1. PICK S \in SUBSET Nat : S = Lines \union {Pill}
      BY LineTypes
    <2>2. commands \in Seq(S) /\ Distinct(commands) /\ Sorted(commands, ahead)
      BY <2>1, LineTypes DEF LinesInv, QueuesSorted
    <2> QED
      BY <2>2, TailFacts
  <1>3. Apart'
    BY <1>1, <1>2, LineTypes DEF LinesInv, Apart, InQueues
  <1>4. InOrder'
    BY <1>1, <1>2 DEF LinesInv, InOrder, Before, InQueues
  <1>5. QueuesSorted'
    BY <1>2 DEF LinesInv, QueuesSorted
  <1>6. Quiet' /\ NoLeftovers'
    BY <1>2 DEF LinesInv, Quiet, NoLeftovers, Calm
  <1>7. Kept'
    BY <1>1, <1>2, LineTypes DEF LinesInv, Kept, Quiet, Calm, InQueues
  <1> QED
    BY <1>3, <1>4, <1>5, <1>6, <1>7 DEF LinesInv

\* It starts to run it.
LEMMA StartSteps ==
  ASSUME IInv, LinesInv, StartPython \/ AwaitMore \/ StartPipeline
  PROVE  LinesInv'
  <1>1. /\ started' = Append(started, item) /\ worker = "run" /\ worker' \in {"python", "finish", "spawn"}
        /\ UNCHANGED <<kinds, commands, stdin, leftovers, settled, ahead, item, typist, epoch, running,
                       latch, pending, interrupted, dying>>
    BY DEF StartPython, AwaitMore, StartPipeline, Works, queues, signals, runtime
  <1>2. InHand' = InHand /\ Lines' = Lines /\ item \in Lines /\ item # Pill
        /\ ToSet(Taken) = {item} /\ ToSet(Taken') = {}
    BY <1>1, LineTypes, SmallQueues DEF InHand, Lines, LastLine, Taken, IInv, LineInHand
  <1>3. /\ ToSet(started') = ToSet(started) \union {item} /\ Distinct(started')
        /\ Sorted(started', ahead)
    <2>1. item \notin ToSet(started)
      BY <1>2 DEF LinesInv, Apart
    <2>2. item \in ahead => \A k \in ToSet(started) \intersect ahead : k < item
      BY <1>2 DEF LinesInv, InOrder, Before
    <2> QED
      BY <1>1, <1>2, <2>1, <2>2, LineTypes, AppendFacts DEF LinesInv, QueuesSorted
  <1>4. Apart'
    BY <1>1, <1>2, <1>3 DEF LinesInv, Apart, InQueues
  <1>5. InOrder'
    BY <1>1, <1>2, <1>3 DEF LinesInv, InOrder, Before, InQueues
  <1>6. QueuesSorted'
    BY <1>1, <1>3 DEF LinesInv, QueuesSorted
  <1>7. Quiet' /\ NoLeftovers'
    BY <1>1 DEF LinesInv, Quiet, NoLeftovers, Calm, Carrying
  <1>8. Kept'
    BY <1>1, <1>2, <1>3 DEF LinesInv, Kept, Calm, InQueues
  <1> QED
    BY <1>4, <1>5, <1>6, <1>7, <1>8 DEF LinesInv

\* A program reads it.
LEMMA ReadStdinStep == ASSUME IInv, LinesInv, ReadStdin PROVE LinesInv'
  <1> USE DEF ReadStdin, queues, signals, console, history, runtime
  <1>1. InHand' = InHand /\ Lines' = Lines /\ Taken' = Taken
    BY DEF InHand, Lines, LastLine, Taken
  <1>2. PICK l : l = Head(stdin) /\ settled' = settled \union {l}
    OBVIOUS
  <1>3. /\ ToSet(stdin) = ToSet(stdin') \union {l} /\ l \in Lines /\ l # Pill
        /\ Distinct(stdin') /\ l \notin ToSet(stdin') /\ Sorted(stdin', ahead)
    <2>1. stdin \in Seq(Lines) /\ Lines \in SUBSET Nat /\ Pill \notin Lines
      BY LineTypes
    <2> QED
      BY <1>2, <2>1, TailFacts DEF LinesInv, QueuesSorted
  <1>4. Apart'
    BY <1>1, <1>2, <1>3 DEF LinesInv, Apart, InQueues
  <1>5. InOrder' /\ QueuesSorted'
    BY <1>1, <1>3 DEF LinesInv, InOrder, Before, InQueues, QueuesSorted
  <1>6. Quiet' /\ NoLeftovers'
    BY DEF LinesInv, Quiet, NoLeftovers, Calm
  <1>7. Kept'
    BY <1>1, <1>2, <1>3 DEF LinesInv, Kept, Calm, InQueues
  <1> QED
    BY <1>4, <1>5, <1>6, <1>7 DEF LinesInv

\* What was typed ahead is thrown away after an interrupt, or taken as a whole.
LEMMA DiscardStep == ASSUME IInv, LinesInv, Discard PROVE LinesInv'
  <1> USE DEF Discard, Works, queues, signals, console, history, runtime
  <1>1. InHand' = InHand /\ Lines' = Lines /\ Taken' = Taken /\ ToSet(stdin') = {} /\ ~ Calm'
    BY SmallQueues DEF InHand, Lines, LastLine, Taken, LinesInv, Quiet, Calm
  <1>2. Apart' /\ InOrder'
    BY <1>1 DEF LinesInv, Apart, InOrder, Before, InQueues
  <1>3. QueuesSorted'
    BY SmallQueues DEF LinesInv, QueuesSorted
  <1>4. Quiet' /\ NoLeftovers' /\ Kept'
    BY <1>1 DEF LinesInv, Quiet, NoLeftovers, Kept
  <1> QED
    BY <1>2, <1>3, <1>4 DEF LinesInv

LEMMA DrainStep == ASSUME IInv, LinesInv, Drain PROVE LinesInv'
  <1> USE DEF Drain, Works, queues, signals, console, history, runtime
  <1>1. InHand' = InHand /\ Lines' = Lines /\ Taken' = Taken /\ ToSet(stdin') = {}
        /\ ToSet(leftovers') = ToSet(stdin) /\ ToSet(leftovers) = {}
    BY SmallQueues DEF InHand, Lines, LastLine, Taken, LinesInv, NoLeftovers
  <1>2. Apart'
    BY <1>1 DEF LinesInv, Apart, InQueues
  <1>3. InOrder'
    BY <1>1 DEF LinesInv, InOrder, Before, InQueues
  <1>4. QueuesSorted'
    BY SmallQueues DEF LinesInv, QueuesSorted
  <1>5. Quiet' /\ NoLeftovers'
    BY DEF LinesInv, Quiet, NoLeftovers, Calm, Carrying
  <1>6. Kept'
    BY <1>1 DEF LinesInv, Kept, Calm, InQueues
  <1> QED
    BY <1>2, <1>3, <1>4, <1>5, <1>6 DEF LinesInv

\* One leftover goes behind the commands, or is answered.
LEMMA ResubmitStep == ASSUME IInv, LinesInv, Resubmit PROVE LinesInv'
  <1> USE DEF Resubmit, queues, signals, history, runtime
  <1>1. InHand' = InHand /\ Lines' = Lines /\ Taken' = Taken
    BY DEF InHand, Lines, LastLine, Taken
  <1>2. PICK l : l = Head(leftovers)
    OBVIOUS
  <1>3. /\ ToSet(leftovers) = ToSet(leftovers') \union {l} /\ l \in Lines /\ l # Pill
        /\ Distinct(leftovers') /\ l \notin ToSet(leftovers') /\ Sorted(leftovers', ahead)
        /\ l \in ahead => \A k \in ToSet(leftovers') \intersect ahead : l < k
    <2>1. leftovers \in Seq(Lines) /\ Lines \in SUBSET Nat /\ Pill \notin Lines
      BY LineTypes
    <2> QED
      BY <1>2, <2>1, TailFacts DEF LinesInv, QueuesSorted
  <1>4. ASSUME Pill \in ToSet(commands') => Pill \in ToSet(commands) PROVE Quiet' /\ NoLeftovers'
    BY <1>4 DEF LinesInv, Quiet, NoLeftovers, Calm, Carrying
  <1>5. CASE ForWorker(l)
    <2>1. commands' = Append(commands, l) /\ settled' = settled
      BY <1>2, <1>5
    <2>2. l \notin ToSet(commands) /\ (l \in ahead => \A k \in ToSet(commands) \intersect ahead : k < l)
      BY <1>3 DEF LinesInv, Apart, InOrder, Before
    <2>3. /\ ToSet(commands') = ToSet(commands) \union {l}
          /\ Distinct(commands') /\ Sorted(commands', ahead)
      BY <1>3, <2>1, <2>2, QueueCommand
    <2>4. Apart'
      BY <1>1, <1>3, <2>1, <2>3 DEF LinesInv, Apart, InQueues
    <2>5. InOrder'
      BY <1>1, <1>3, <2>1, <2>3 DEF LinesInv, InOrder, Before, InQueues
    <2>6. QueuesSorted'
      BY <1>3, <2>3 DEF LinesInv, QueuesSorted
    <2>7. Kept'
      BY <1>1, <1>3, <2>1, <2>3 DEF LinesInv, Kept, Calm, InQueues
    <2> QED
      BY <1>3, <1>4, <2>3, <2>4, <2>5, <2>6, <2>7 DEF LinesInv
  <1>6. CASE ~ ForWorker(l)
    <2>1. commands' = commands /\ settled' = settled \union {l}
      BY <1>2, <1>6
    <2>2. Apart'
      BY <1>1, <1>3, <2>1 DEF LinesInv, Apart, InQueues
    <2>3. InOrder' /\ QueuesSorted'
      BY <1>1, <1>3, <2>1 DEF LinesInv, InOrder, Before, InQueues, QueuesSorted
    <2>4. Kept'
      BY <1>1, <1>3, <2>1 DEF LinesInv, Kept, Calm, InQueues
    <2> QED
      BY <1>4, <2>1, <2>2, <2>3, <2>4 DEF LinesInv
  <1> QED
    BY <1>5, <1>6

LEMMA LinesStep == IInv /\ LinesInv /\ [Next]_vars => LinesInv'
  <1> SUFFICES ASSUME IInv, LinesInv, [Next]_vars PROVE LinesInv'
    OBVIOUS
  <1>1. CASE UNCHANGED vars
    BY <1>1 DEF vars, queues, history, signals, runtime, LinesInv, NoLeftovers, Apart, InQueues,
                QueuesSorted, InOrder, Before, Quiet, Kept, Calm, Taken, InHand, Lines, LastLine
  <1> QED
    BY <1>1, QuietSteps, TypeLineStep, PutStdinStep, PutCommandStep, AnswerStep, StopPoisonStep,
       PopStep, StartSteps, ReadStdinStep, DiscardStep, DrainStep, ResubmitStep
    DEF Next, UserAction, TypistStep, WorkerStep

LEMMA LinesInvariance == Spec => [](IInv /\ LinesInv)
  BY InitInv, LinesInit, StepInv, LinesStep, PTL DEF Spec

\* Two queues, one after the other.
LEMMA ConcatFacts ==
  ASSUME NEW S \in SUBSET Nat, NEW s \in Seq(S), NEW t \in Seq(S)
  PROVE  /\ s \o t \in Seq(S) /\ ToSet(s \o t) = ToSet(s) \union ToSet(t)
         /\ Distinct(s) /\ Distinct(t) /\ (\A e \in ToSet(s) \ {Pill} : e \notin ToSet(t))
              => Distinct(s \o t)
  <1> DEFINE r == s \o t
  <1>1. /\ r \in Seq(S) /\ DOMAIN s = 1 .. Len(s) /\ DOMAIN t = 1 .. Len(t)
        /\ DOMAIN r = 1 .. Len(s) + Len(t) /\ Len(s) \in Nat /\ Len(t) \in Nat
    BY ConcatProperties
  <1>2. /\ \A i \in DOMAIN s : i \in DOMAIN r /\ r[i] = s[i]
        /\ \A i \in DOMAIN t : i + Len(s) \in DOMAIN r /\ r[i + Len(s)] = t[i]
    BY <1>1, ConcatProperties
  <1> HIDE DEF r
  <1>3. \A i \in DOMAIN r : i \in DOMAIN s \/ (~ (i <= Len(s)) /\ i - Len(s) \in DOMAIN t)
    BY <1>1
  <1>4. \A i \in DOMAIN r : i \notin DOMAIN s => r[i] = t[i - Len(s)]
    <2> SUFFICES ASSUME NEW i \in DOMAIN r, i \notin DOMAIN s PROVE r[i] = t[i - Len(s)]
      OBVIOUS
    <2>1. i - Len(s) \in DOMAIN t /\ (i - Len(s)) + Len(s) = i
      BY <1>1, <1>3
    <2> QED
      BY <1>2, <2>1
  <1>5. ToSet(r) = ToSet(s) \union ToSet(t)
    <2>1. ToSet(r) \subseteq ToSet(s) \union ToSet(t)
      BY <1>2, <1>3, <1>4 DEF ToSet
    <2>2. ToSet(s) \union ToSet(t) \subseteq ToSet(r)
      BY <1>2 DEF ToSet
    <2> QED
      BY <2>1, <2>2
  <1>6. ASSUME Distinct(s), Distinct(t), \A e \in ToSet(s) \ {Pill} : e \notin ToSet(t)
        PROVE  Distinct(r)
    <2> SUFFICES ASSUME NEW i \in DOMAIN r, NEW j \in DOMAIN r, r[i] = r[j], r[i] # Pill PROVE i = j
      BY DEF Distinct
    <2>1. CASE i \in DOMAIN s /\ j \in DOMAIN s
      BY <1>2, <1>6, <2>1 DEF Distinct
    <2>2. CASE i \notin DOMAIN s /\ j \notin DOMAIN s
      <3>1. i - Len(s) = j - Len(s)
        BY <1>3, <1>4, <1>6, <2>2 DEF Distinct
      <3> QED
        BY <1>1, <3>1
    <2>3. ASSUME NEW k \in DOMAIN s, NEW l \in DOMAIN r, l \notin DOMAIN s, r[k] # Pill
          PROVE  r[k] # r[l]
      <3>1. r[k] \in ToSet(s)
        BY <1>2 DEF ToSet
      <3>2. r[l] \in ToSet(t)
        BY <1>3, <1>4, <2>3 DEF ToSet
      <3> QED
        BY <1>6, <2>3, <3>1, <3>2
    <2> QED
      BY <2>1, <2>2, <2>3
  <1> QED
    BY <1>1, <1>5, <1>6 DEF r

LEMMA HeldFacts ==
  ASSUME IInv, LinesInv
  PROVE  /\ ToSet(Held) = InQueues \union ToSet(Taken) \union ToSet(started)
         /\ Distinct(Held)
  <1>1. PICK S \in SUBSET Nat : S = Lines \union {Pill}
    BY LineTypes
  <1>2. /\ commands \in Seq(S) /\ stdin \in Seq(S) /\ leftovers \in Seq(S) /\ started \in Seq(S)
        /\ Taken \in Seq(S)
    <2>1. Seq(Lines) \subseteq Seq(S)
      BY <1>1, SeqMonotonic
    <2>2. item \in S
      BY <1>1, LineTypes
    <2>3. Taken \in Seq(S)
      <3>1. << >> \in Seq(S) /\ <<item>> \in Seq(S)
        BY <2>2
      <3> QED
        BY <3>1 DEF Taken
    <2> QED
      BY <1>1, <2>1, <2>3, LineTypes
  <1>3. /\ Distinct(commands) /\ Distinct(stdin) /\ Distinct(leftovers) /\ Distinct(started)
        /\ Distinct(Taken)
    BY DEF LinesInv, QueuesSorted, Distinct, Taken
  <1>4. /\ \A e \in ToSet(commands) \ {Pill} : e \notin ToSet(stdin)
        /\ \A e \in (ToSet(commands) \union ToSet(stdin)) \ {Pill} : e \notin ToSet(leftovers)
        /\ \A e \in InQueues \ {Pill} : e \notin ToSet(Taken)
        /\ \A e \in (InQueues \union ToSet(Taken)) \ {Pill} : e \notin ToSet(started)
    BY DEF LinesInv, Apart
  <1> DEFINE two == commands \o stdin
             three == two \o leftovers
             four == three \o Taken
  <1>5. two \in Seq(S) /\ Distinct(two) /\ ToSet(two) = ToSet(commands) \union ToSet(stdin)
    BY <1>2, <1>3, <1>4, ConcatFacts
  <1> HIDE DEF two
  <1>6. three \in Seq(S) /\ Distinct(three) /\ ToSet(three) = InQueues
    <2>1. \A e \in ToSet(two) \ {Pill} : e \notin ToSet(leftovers)
      BY <1>4, <1>5
    <2>2. three \in Seq(S) /\ Distinct(three) /\ ToSet(three) = ToSet(two) \union ToSet(leftovers)
      BY <1>2, <1>3, <1>5, <2>1, ConcatFacts
    <2> HIDE DEF three
    <2> QED
      BY <1>5, <2>2 DEF InQueues
  <1> HIDE DEF three
  <1>7. four \in Seq(S) /\ Distinct(four) /\ ToSet(four) = InQueues \union ToSet(Taken)
    <2>1. \A e \in ToSet(three) \ {Pill} : e \notin ToSet(Taken)
      BY <1>4, <1>6
    <2> QED
      BY <1>2, <1>3, <1>6, <2>1, ConcatFacts
  <1> HIDE DEF four
  <1>8. Distinct(four \o started) /\ ToSet(four \o started) = ToSet(four) \union ToSet(started)
    <2>1. \A e \in ToSet(four) \ {Pill} : e \notin ToSet(started)
      BY <1>4, <1>7
    <2> QED
      BY <1>2, <1>3, <1>7, <2>1, ConcatFacts
  <1>9. Held = four \o started
    BY DEF Held, four, three, two
  <1> QED
    BY <1>7, <1>8, <1>9

\* Until the first Ctrl+C or stop(), a line that was typed waits in a queue or in
\* somebody's hands, was started, or was answered or read: whichever queue the
\* typist chose by a _busy that is stale by then (pty_session.py:480), it is
\* found there, run or resubmitted.
THEOREM LinesAreKept == Spec => []NoLineLost
  <1>1. IInv /\ LinesInv => NoLineLost
    <2> SUFFICES ASSUME IInv, LinesInv, running /\ epoch = 0
                 PROVE  Lines = ToSet(Held) \union settled \union InHand
      BY DEF NoLineLost
    <2>1. Lines \subseteq ToSet(Held) \union settled \union InHand
      BY HeldFacts DEF LinesInv, Kept, Calm
    <2>2. ToSet(Held) \union settled \union InHand \subseteq Lines
      BY HeldFacts, LineTypes DEF LinesInv, Quiet, Calm, InQueues
    <2> QED
      BY <2>1, <2>2
  <1> QED
    BY LinesInvariance, <1>1, PTL

\* No line is run twice, nor both run and read by a program, though lines move
\* between two queues and an interrupt may come at any point of the move.
THEOREM LinesRunOnce == Spec => []RunsOnce
  <1>1. IInv /\ LinesInv => RunsOnce
    <2> SUFFICES ASSUME IInv, LinesInv PROVE RunsOnce
      OBVIOUS
    <2>1. \A i, j \in DOMAIN Held : Held[i] = Held[j] /\ Held[i] # Pill => i = j
      BY HeldFacts DEF Distinct
    <2>2. ToSet(stdin \o leftovers \o started) \intersect settled = {}
      <3> DEFINE two == stdin \o leftovers
      <3>1. /\ Lines \in SUBSET Nat /\ stdin \in Seq(Lines) /\ leftovers \in Seq(Lines)
            /\ started \in Seq(Lines)
        BY LineTypes
      <3>2. two \in Seq(Lines) /\ ToSet(two) = ToSet(stdin) \union ToSet(leftovers)
        BY <3>1, ConcatFacts
      <3> HIDE DEF two
      <3>3. ToSet(two \o started) = ToSet(two) \union ToSet(started)
        BY <3>1, <3>2, ConcatFacts
      <3>4. \A l \in ToSet(two) \union ToSet(started) : l \notin settled
        BY <3>2 DEF LinesInv, Apart, InQueues
      <3> QED
        BY <3>3, <3>4 DEF two
    <2> QED
      BY <2>1, <2>2 DEF RunsOnce
  <1> QED
    BY LinesInvariance, <1>1, PTL

\* Lines that were typed while a command ran are run in the order they were
\* typed, also if more are typed while the worker resubmits them
\* (pty_session.py:766).
THEOREM TypeAheadIsOrdered == Spec => []TypeAheadInOrder
  <1>1. IInv /\ LinesInv => TypeAheadInOrder
    BY DEF LinesInv, QueuesSorted, Sorted, TypeAheadInOrder
  <1> QED
    BY LinesInvariance, <1>1, PTL
=============================================================================
