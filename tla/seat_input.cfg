\* The reply queue name of client 101 just fits, and a typed seat id of four
\* characters does not.
SPECIFICATION Spec
CONSTANTS
  kMaxQueueNameLength = 7
  kClientQueuePrefix <- ShortPrefix
  ReplySuffix <- ShortSuffix
  kMaxSeatIdLength = 4
  SeatIds <- TwoSeats
  ClientIds = {10, 101}
  MaxLine = 5
INVARIANTS
  TypeOK
  KeysLeaveNoTrace
  SanitizeIdempotent
  SeatUnderstood
  ReplyNameOfClient
PROPERTY
  LineHandled
