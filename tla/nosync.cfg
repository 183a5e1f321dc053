\* --no-sync: three workers race for one seat, nobody cancels.
SPECIFICATION Spec
CONSTANTS
  Seats = {A1}
  NoSeat = NoSeat
  ClientIds = {0, 1, 2}
  kInvalidClientId = 0
  Nobody = Nobody
  Workers = {w1, w2, w3}
  Synchronized = FALSE
  Commands <- RaceCommands
SYMMETRY WorkerSymmetry
INVARIANTS
  OwnerHoldsTicket
  SuccessFollowsCheck
