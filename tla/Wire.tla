-------------------------------- MODULE Wire --------------------------------
(***************************************************************************)
(* Text on its way through a message: the fixed char arrays of             *)
(* RequestMessage and ResponseMessage, the functions that fill and read    *)
(* them, and the names of the queues.  A char array is a function on       *)
(* 1..size, a string a sequence without a terminator.                      *)
(***************************************************************************)
EXTENDS Naturals, Sequences

CONSTANTS
  kMaxQueueNameLength,   \* sizeof(RequestMessage::reply_queue_name)
  kClientQueuePrefix,    \* "/css223_client_"
  ReplySuffix            \* "_reply"

\* The characters that the code tells apart, and some it does not.
NUL == "NUL"
ESC == "ESC"
CR  == "CR"
SP  == "SP"
Digits == {"0", "1", "2", "3", "4", "5", "6", "7", "8", "9"}
Chars == Digits \cup {NUL, ESC, CR, SP, "/", "_", "[", "O", "a", "A"}

ASSUME WireAssumption ==
  /\ kMaxQueueNameLength \in Nat \ {0}
  /\ kClientQueuePrefix \in Seq(Chars) /\ kClientQueuePrefix # <<>>
  /\ kClientQueuePrefix[1] = "/"
  /\ \A k \in 2..Len(kClientQueuePrefix) : kClientQueuePrefix[k] \notin {"/", NUL}
  /\ ReplySuffix \in Seq(Chars \ {"/", NUL})

Smaller(m, n) == IF m < n THEN m ELSE n

\* char buffer[size]{0}
ZeroBuffer(size) == [k \in 1..size |-> NUL]

\* Slip: one byte too many is kept for the terminator.
copy_string_to_buffer_short(size, dest, src) ==
  LET copy_length == Smaller(Len(src), size - 2)
  IN [k \in 1..size |-> IF k <= copy_length THEN src[k]
                        ELSE IF k = copy_length + 1 THEN NUL ELSE dest[k]]

\* What does not fit in front of the terminator is cut off; what was behind
\* the terminator stays.
copy_string_to_buffer(size, dest, src) ==
  LET copy_length == Smaller(Len(src), size - 1)
  IN [k \in 1..size |-> IF k <= copy_length THEN src[k]
                        ELSE IF k = copy_length + 1 THEN NUL ELSE dest[k]]

Least(S) == CHOOSE k \in S : \A j \in S : k <= j

strnlen(buffer, max_size) ==
  Least({k \in 0..max_size : k = max_size \/ buffer[k + 1] = NUL})

\* Slip: the whole array is taken for the string.
buffer_to_string_view_whole(buffer, max_size) == [k \in 1..max_size |-> buffer[k]]

buffer_to_string_view(buffer, max_size) == [k \in 1..strnlen(buffer, max_size) |-> buffer[k]]

\* A string as the other side reads it.
Received(size, src) ==
  buffer_to_string_view(copy_string_to_buffer(size, ZeroBuffer(size), src), size)

\* std::to_string of a client id.
DigitChars == <<"0", "1", "2", "3", "4", "5", "6", "7", "8", "9">>
to_string[n \in Nat] ==
  IF n < 10 THEN <<DigitChars[n + 1]>>
  ELSE Append(to_string[n \div 10], DigitChars[(n % 10) + 1])

format_client_reply_queue_name(client_id) ==
  kClientQueuePrefix \o to_string[client_id] \o ReplySuffix

is_valid_posix_queue_name(name) ==
  /\ Len(name) >= 2
  /\ Len(name) < kMaxQueueNameLength
  /\ name[1] = "/"
  /\ \A k \in 1..Len(name) : name[k] # NUL
  /\ \A k \in 2..Len(name) : name[k] # "/"
=============================================================================
