\* The mutex promises no order among its waiters.
SPECIFICATION Spec
CONSTANTS
  Seats = {A1}
  NoSeat = NoSeat
  ClientIds = {0, 1}
  kInvalidClientId = 0
  Nobody = Nobody
  Workers = {w1, w2}
  Synchronized = TRUE
  Commands <- RaceCommands
PROPERTY
  BoundedWaiting
