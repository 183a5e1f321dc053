\* Two workers, three clients, and room in the queue for every sentinel.
SPECIFICATION Spec
CONSTANTS
  Clients = {c1, c2, c3}
  kInvalidClientId = 0
  NoJob = NoJob
  WorkersArg = 0
  kDefaultWorkerCount = 2
  MaxMessages <- RoomForSentinels
INVARIANTS
  TypeOK
  NoUseAfterClose
  NoLostRequest
  EnoughSentinels
  OnlyOwnSentinels
PROPERTIES
  RequestAnswered
  ShutdownCompletes
