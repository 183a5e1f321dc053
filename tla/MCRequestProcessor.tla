------------------------- MODULE MCRequestProcessor -------------------------
(* Instances of RequestProcessor for TLC: workers and seats are model      *)
(* values, the clients are 1 and 2 and the invalid id 0.                   *)
EXTENDS RequestProcessor, TLC

AllCommands == SeatCommands \cup OtherCommands

\* Experiment 2 sends RESERVE and STATUS only.
RaceCommands == {"Status", "Reserve"}

\* Workers are interchangeable; used by the runs that check no liveness.
WorkerSymmetry == Permutations(Workers)
=============================================================================
