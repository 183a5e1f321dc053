\* alice starts the client again after it has ended, bob starts several at
\* once, carol starts one.
SPECIFICATION Spec
CONSTANTS
  alice = alice
  bob = bob
  carol = carol
  Processes = {1, 2, 3, 4}
  Ids = {alice, bob, carol}
  Reused = {alice}
  Shared = {bob}
  NoId = NoId
  Workers = {w1, w2}
  NoQueue = NoQueue
  NoMessage = NoMessage
  MaxRequests = 3
  Plans <- SessionPlans
  MaxMessages = 2
  ReplyMessages = 1
INVARIANTS TypeOK OwnResponse OwnReplyQueue NoReplyQueueLeft HeldUpByAbandoned
PROPERTY WaitEnds
\* The processes end.
CHECK_DEADLOCK FALSE
