\* Shells that end by themselves, and the probe of zmux-pty-probe.
SPECIFICATION FairSpec
CONSTANTS
  Users = {u1}
  Worker = worker
  Prober = prober
  MaxSpawns = 2
  MaxProbes = 1
  MaxOps = 0
  MaxOutputs = 1
  MaxOpens = 0
  Descriptors = 3
PROPERTY ExitedShellIsReaped
