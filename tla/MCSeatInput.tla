---------------------------- MODULE MCSeatInput ----------------------------
(* SeatInput with short names and buffers whose ends are reached.          *)
EXTENDS SeatInput

TwoSeats == {<<"A", "2">>, <<"A", "3">>}
ShortPrefix == <<"/", "a">>
ShortSuffix == <<"_">>
=============================================================================
