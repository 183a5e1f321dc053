\* Every mode of the user interface, with one other client at work.
SPECIFICATION Spec
CONSTANTS
  A1 = A1
  B3 = B3
  Seats = {A1, B3, D5}
  NoSeat = NoSeat
  me = 1
  kBarWidth = 40
  other = 2
  ClientIds = {0, 1, 2}
  kInvalidClientId = 0
  Nobody = Nobody
  DemoTable <- Demo
INVARIANTS TypeOK TicketHonest OwnSeatsShown StatusHonest LoadHonest EndExcused
\* The session ends.
CHECK_DEADLOCK FALSE
