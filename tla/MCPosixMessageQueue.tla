------------------------ MODULE MCPosixMessageQueue ------------------------
(* PosixMessageQueue with few objects, names and kernel queues.            *)
EXTENDS PosixMessageQueue, TLC

QueueSymmetry == Permutations(Objects) \cup Permutations(Queues)
                   \cup Permutations(Descriptors)
=============================================================================
