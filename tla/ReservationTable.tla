-------------------------- MODULE ReservationTable --------------------------
(***************************************************************************)
(* The domain model of src/core: a Seat (status_, owner_client_id_) and    *)
(* the questions ReservationTable and Seat ask of it before they change    *)
(* it.  The module has no state: RequestProcessor lets several threads     *)
(* work on one table field by field, ReservationService is the same table  *)
(* with every request executed in a single step.                           *)
(***************************************************************************)

CONSTANTS
  Seats,              \* kCanonicalSeatIds
  NoSeat,             \* every seat id that is not canonical, "" included
  ClientIds,          \* values of the 32-bit client_id of a request
  kInvalidClientId,   \* 0, the id no client process may have
  Nobody              \* std::nullopt: no owner, and the mutex held by no one

ASSUME TableAssumption ==
  /\ NoSeat \notin Seats
  /\ kInvalidClientId \in ClientIds
  /\ Nobody \notin ClientIds

Clients == ClientIds \ {kInvalidClientId}
SeatIds == Seats \cup {NoSeat}

SeatStatus == {"Available", "Reserved"}
Owners     == ClientIds \cup {Nobody}
Seat       == [status : SeatStatus, owner : Owners]

\* What the constructor and Seat::reset leave, and what Seat::reserve leaves.
Vacant    == [status |-> "Available", owner |-> Nobody]
HeldBy(c) == [status |-> "Reserved", owner |-> c]

NewTable == [s \in Seats |-> Vacant]

has_seat(s)          == s \in Seats
is_available(status) == status = "Available"
is_reserved(status)  == status = "Reserved"

\* The guard of Seat::reserve.
SeatAcceptsReserve(status, c) == ~is_reserved(status) /\ c # kInvalidClientId

(***************************************************************************)
(* reserve_seat and cancel_seat executed with nobody else at the table:    *)
(* whether they return true, and the table they leave.                     *)
(***************************************************************************)
reserve_seat(table, s, c) ==
  /\ has_seat(s)
  /\ is_available(table[s].status)
  /\ SeatAcceptsReserve(table[s].status, c)

cancel_seat(table, s, c) ==
  /\ has_seat(s)
  /\ is_reserved(table[s].status)
  /\ table[s].owner = c

(***************************************************************************)
(* The messages.  request_id, client_id and seat_id are copied verbatim    *)
(* from the request into the response, so a response is identified with    *)
(* the call it answers and keeps only the fields the server computes.      *)
(***************************************************************************)
SeatCommands  == {"Status", "Reserve", "Cancel"}
OtherCommands == {"List", "Quit", "Unknown"}

Requests ==
  [command : SeatCommands, client : ClientIds, seat : SeatIds]
    \cup [command : OtherCommands, client : ClientIds, seat : {NoSeat}]

Responses == [result : {"Success", "Failure"}, status : SeatStatus, owner : ClientIds]

\* ResponseMessage's member initialisers: a failure carries status Available.
Answer(result) == [result |-> result, status |-> "Available", owner |-> kInvalidClientId]
Failure == Answer("Failure")

\* owner_client_id().value_or(kInvalidClientId)
OwnerOrInvalid(owner) == IF owner = Nobody THEN kInvalidClientId ELSE owner

Seen(snapshot) ==
  [result |-> "Success", status |-> snapshot.status, owner |-> OwnerOrInvalid(snapshot.owner)]

Booked(c) == [result |-> "Success", status |-> "Reserved", owner |-> c]
=============================================================================
