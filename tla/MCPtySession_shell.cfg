\* Two users toggle, write and resize while shells die; then stop.
SPECIFICATION FairSpec
CONSTANTS
  Users = {u1, u2}
  Worker = worker
  Prober = prober
  MaxSpawns = 3
  MaxProbes = 0
  MaxOps = 3
  MaxOutputs = 1
  MaxOpens = 1
  Descriptors = 3
INVARIANTS
  SessionCallsReachItsShell
  OneShell
SYMMETRY UserSymmetry
