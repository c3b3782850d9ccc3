\* A client that comes, reads slowly and leaves, while the server starts.
SPECIFICATION FairSpec
CONSTANTS
  Clients = {c1}
  Server = server
  Emitter = emitter
  Buffer = 2
  Restricted <- MCRestricted
  HttpRange = 1
  WsRange = 2
  MaxTries = 1
  MaxChunks = 2
  MaxMessages = 1
INVARIANTS
  NothingMissing
 
