\* Signals may arrive before start() resets the shutdown flag.
SPECIFICATION Spec
CONSTANTS
  Clients = {c1}
  kInvalidClientId = 0
  NoJob = NoJob
  WorkersArg = 2
  kDefaultWorkerCount = 3
  MaxMessages <- RoomForSentinels
PROPERTY
  SignalHonoured
