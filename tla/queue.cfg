\* One name is the owner's alone, the other one may fail to be unlinked or be
\* unlinked by somebody else.
SPECIFICATION Spec
CONSTANTS
  Objects = {o1, o2, o3}
  Names = {n1, n2}
  Troubled = {n2}
  Configs = {small, large}
  Queues = {q1, q2, q3}
  Descriptors = {d1, d2, d3}
  NoName = NoName
  NoConfig = NoConfig
  NoQueue = NoQueue
  kInvalidMqd = kInvalidMqd
SYMMETRY QueueSymmetry
INVARIANTS TypeOK NamesOwned DescriptorsOwned GeometryAgrees
PROPERTY OwnershipRetained
