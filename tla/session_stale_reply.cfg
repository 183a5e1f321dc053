\* One id is used again after its process has ended.
SPECIFICATION Spec
CONSTANTS
  alice = alice
  bob = bob
  carol = carol
  Processes = {1, 2, 3}
  Ids = {alice}
  Reused = {alice}
  Shared = {}
  NoId = NoId
  Workers = {w1, w2}
  NoQueue = NoQueue
  NoMessage = NoMessage
  MaxRequests = 1
  Plans <- RestartPlans
  MaxMessages = 2
  ReplyMessages = 1
SYMMETRY SessionSymmetry
INVARIANT ResponseMatches
\* The processes end.
CHECK_DEADLOCK FALSE
