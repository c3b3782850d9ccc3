\* Lines of every kind and Ctrl+C; the session is stopped in the end.
SPECIFICATION FairSpec
CONSTANTS
  MaxLines = 3
  MaxInterrupts = 2
  MaxInputs = 4
  Kinds <- Every
INVARIANT TypeOK
INVARIANT NoLineLost
INVARIANT RunsOnce
INVARIANT TypeAheadInOrder
INVARIANT BusyMeansWorking
 
 
 
PROPERTY QueuedLineRuns
CHECK_DEADLOCK FALSE
