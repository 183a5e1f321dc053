------------------------------ MODULE MCKiosk ------------------------------
(* Kiosk with few seats and one other client.                              *)
EXTENDS Kiosk

\* demo_table: seats reserved for client 1 (the user), one for client 2.
CONSTANTS A1, B3, other
Demo == [s \in Seats |-> CASE s = A1 -> HeldBy(me) [] s = B3 -> HeldBy(other) [] OTHER -> Vacant]
=============================================================================
