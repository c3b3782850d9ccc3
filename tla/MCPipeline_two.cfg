\* Two programs and a Ctrl+C.
SPECIFICATION FairSpec
CONSTANTS
  Last = 2
  Capacity = 1
  MaxWrites = 2
  MaxInterrupts = 1
INVARIANTS
  
  NothingLeftRunning
PROPERTIES
  PipelineEnds
  InterruptEnds
