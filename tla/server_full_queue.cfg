\* The queue is smaller than the backlog and the sentinels together.
SPECIFICATION Spec
CONSTANTS
  Clients = {c1, c2, c3}
  kInvalidClientId = 0
  NoJob = NoJob
  WorkersArg = 2
  kDefaultWorkerCount = 3
  MaxMessages = 2
PROPERTY
  ShutdownCompletes
