\* The default server: mutex enabled, every command, two seats.
SPECIFICATION Spec
CONSTANTS
  Seats = {A1, A2}
  NoSeat = NoSeat
  ClientIds = {0, 1, 2}
  kInvalidClientId = 0
  Nobody = Nobody
  Workers = {w1, w2}
  Synchronized = TRUE
  Commands <- AllCommands
INVARIANTS
  TypeOK
  NoDoubleBooking
  OwnerHoldsTicket
  CheckedValuesHold
  StatusNotTorn
  LockInv
PROPERTIES
  MutexReleased
  ImplementsService
