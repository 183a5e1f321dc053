------------------------------ MODULE MCServer ------------------------------
(* Instances of Server for TLC: client processes are model values.         *)
EXTENDS Server

\* Every client can have a request in the queue and stop() still finds room
\* for one sentinel per worker.
RoomForSentinels == Cardinality(Clients) + WorkerCount
=============================================================================
