------------------------- MODULE ReservationService -------------------------
(***************************************************************************)
(* What the server promises its clients: every request takes effect at     *)
(* one instant between its arrival at a worker and the worker's answer,    *)
(* and the answer is the one the sequential table gives at that instant.   *)
(* RequestProcessor with the mutex enabled implements this specification.  *)
(***************************************************************************)
EXTENDS ReservationTable

CONSTANT Workers     \* the worker threads, one call at a time each

VARIABLES
  table,             \* the seats
  call               \* what each worker is doing for its caller

vars == <<table, call>>

Idle            == [phase |-> "idle"]
Pending(r)      == [phase |-> "pending", req |-> r]
Done(r, answer) == [phase |-> "done", req |-> r, answer |-> answer]

\* The table after request r, and the answer to r, executed alone.
After(t, r) ==
  IF r.command = "Reserve" /\ reserve_seat(t, r.seat, r.client)
    THEN [t EXCEPT ![r.seat] = HeldBy(r.client)]
  ELSE IF r.command = "Cancel" /\ cancel_seat(t, r.seat, r.client)
    THEN [t EXCEPT ![r.seat] = Vacant]
  ELSE t

Reply(t, r) ==
  CASE r.command \in {"List", "Quit"} -> Answer("Success")
    [] r.command = "Status" /\ has_seat(r.seat) -> Seen(t[r.seat])
    [] r.command = "Reserve" /\ reserve_seat(t, r.seat, r.client) -> Booked(r.client)
    [] r.command = "Cancel" /\ cancel_seat(t, r.seat, r.client) -> Answer("Success")
    [] OTHER -> Failure

Init ==
  /\ table = NewTable
  /\ call = [w \in Workers |-> Idle]

Invoke(w, r) ==
  /\ call[w] = Idle
  /\ call' = [call EXCEPT ![w] = Pending(r)]
  /\ UNCHANGED table

Perform(w, r) ==
  /\ call[w] = Pending(r)
  /\ table' = After(table, r)
  /\ call' = [call EXCEPT ![w] = Done(r, Reply(table, r))]

Return(w) ==
  /\ call[w].phase = "done"
  /\ call' = [call EXCEPT ![w] = Idle]
  /\ UNCHANGED table

Next ==
  \E w \in Workers :
    \/ \E r \in Requests : Invoke(w, r) \/ Perform(w, r)
    \/ Return(w)

Spec == Init /\ [][Next]_vars
=============================================================================
