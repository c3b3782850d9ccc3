\* One client and three tabs; sessions print while it works.
SPECIFICATION Spec
CONSTANTS
  Handlers = {h1}
  NoHandler = NoHandler
  MaxSessions = 3
  MaxOps = 4
  MaxChunks = 2
INVARIANT TypeOK
INVARIANT NothingMissing
PROPERTY ImplementsTabStrip
