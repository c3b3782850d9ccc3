\* Two clients race with each other; sessions print only their banner.
SPECIFICATION FairSpec
CONSTANTS
  Handlers = {h1, h2}
  NoHandler = NoHandler
  MaxSessions = 3
  MaxOps = 4
  MaxChunks = 1
INVARIANT TabsWellFormed
INVARIANT ActiveIsOpen
INVARIANT NeverZero
INVARIANT NoOrphans
PROPERTY RequestsFinish
