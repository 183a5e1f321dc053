------------------------------ MODULE SeatInput ------------------------------
(***************************************************************************)
(* The way of a seat id from the keyboard to the server: the user's keys,  *)
(* TerminalUi::sanitize_input, the command line and the seat prompt of the *)
(* client, the buffers of the request, and the server's look-up.  RESERVE  *)
(* (typed as 2) stands for the three commands that name a seat, which      *)
(* treat it alike.                                                         *)
(***************************************************************************)
EXTENDS Wire

CONSTANTS
  kMaxSeatIdLength,      \* sizeof(RequestMessage::seat_id)
  SeatIds,               \* kCanonicalSeatIds
  ClientIds,             \* ids the client program is started with
  MaxLine                \* bound: no key is pressed once the line is this long

ASSUME SeatInputAssumption ==
  /\ kMaxSeatIdLength \in Nat \ {0}
  /\ SeatIds \subseteq Seq(Chars \ {NUL})
  /\ \A s \in SeatIds : Len(s) < kMaxSeatIdLength - 1
  /\ ClientIds \subseteq Nat \ {0}
  /\ \A c \in ClientIds : Len(format_client_reply_queue_name(c)) < kMaxQueueNameLength
  /\ MaxLine \in Nat

VARIABLES
  pc,                    \* where the client is
  client_id,
  line,                  \* the characters std::getline returns
  typed,                 \* history: the keys of that line that stand for themselves
  escape,                \* history: the Escape key alone is among them
  pass,                  \* which call of sanitize_input is running
  i,                     \* its position in line
  result,                \* its result so far
  once,                  \* history: the line after the first call
  seat,                  \* seat id the client sends and prints on the ticket
  request,               \* the buffers of the request
  seen                   \* the strings the server finds in them

keyboard == <<line, typed, escape>>
scan     == <<pass, i, result>>
message  == <<request, seen>>
vars == <<pc, client_id, line, typed, escape, pass, i, result, once, seat, request, seen>>

PCs == {"read", "prompt", "scan", "parse", "send", "serve", "answer"}

NoRequest == [seat_id |-> ZeroBuffer(kMaxSeatIdLength),
              reply_queue_name |-> ZeroBuffer(kMaxQueueNameLength)]
NothingSeen == [seat_id |-> <<>>, reply_queue_name |-> <<>>]

Init ==
  /\ pc = "read"
  /\ client_id \in ClientIds
  /\ line = <<>> /\ typed = <<>> /\ escape = FALSE
  /\ pass = "line" /\ i = 1 /\ result = <<>> /\ once = <<>>
  /\ seat = <<>>
  /\ request = NoRequest /\ seen = NothingSeen

-----------------------------------------------------------------------------
(* The keyboard.  Cursor and function keys send escape sequences.          *)

PlainKeys  == {<<"a">>, <<"2">>, <<"O">>, <<SP>>, <<NUL>>}
CursorKeys == {<<ESC, "[", "A">>, <<ESC, "[", "2", "A">>, <<ESC, "O", "A">>}

Press(key) ==
  /\ pc \in {"read", "prompt"}
  /\ Len(line) < MaxLine
  /\ line' = line \o key
  /\ typed' = IF key \in PlainKeys THEN typed \o key ELSE typed
  /\ escape' = (escape \/ key = <<ESC>>)
  /\ UNCHANGED <<pc, client_id, scan, once, seat, message>>

\* std::getline returns, of the main prompt or of the seat prompt.
Enter ==
  /\ pc \in {"read", "prompt"}
  /\ pass' = IF pc = "read" THEN "line" ELSE "seat"
  /\ pc' = "scan"
  /\ i' = 1
  /\ result' = <<>>
  /\ UNCHANGED <<client_id, keyboard, once, seat, message>>

-----------------------------------------------------------------------------
(* TerminalUi::sanitize_input, one action per path through its loop.       *)

Scanning(c) == pc = "scan" /\ i <= Len(line) /\ line[i] = c

IsParameter(c) == c \in Digits \cup {SP}      \* and ; and ?
AfterParameters(k) ==
  Least({j \in k..(Len(line) + 1) : j = Len(line) + 1 \/ ~IsParameter(line[j])})

\* Slip: a control sequence ends with the character after the bracket.
AfterEscapeShort(k) ==
  IF k > Len(line) THEN k
  ELSE IF line[k] \in {"[", "O"} THEN k + 2 ELSE k

\* The position behind the sequence whose escape is in front of k.
AfterEscape(k) ==
  IF k > Len(line) THEN k
  ELSE IF line[k] = "[" THEN Smaller(AfterParameters(k + 1), Len(line)) + 1
  ELSE IF line[k] = "O" THEN k + 2
  ELSE k

SkipEscape ==
  /\ Scanning(ESC)
  /\ i' = AfterEscape(i + 1)
  /\ UNCHANGED <<pc, client_id, keyboard, pass, result, once, seat, message>>

\* Slip: continue without ++i.
SkipReturnNever ==
  /\ Scanning(CR)
  /\ UNCHANGED vars

SkipReturn ==
  /\ Scanning(CR)
  /\ i' = i + 1
  /\ UNCHANGED <<pc, client_id, keyboard, pass, result, once, seat, message>>

\* Slip: carriage returns are kept.
KeepReturn ==
  /\ pc = "scan" /\ i <= Len(line) /\ line[i] # ESC
  /\ result' = Append(result, line[i])
  /\ i' = i + 1
  /\ UNCHANGED <<pc, client_id, keyboard, pass, once, seat, message>>

Keep ==
  /\ pc = "scan" /\ i <= Len(line) /\ line[i] \notin {ESC, CR}
  /\ result' = Append(result, line[i])
  /\ i' = i + 1
  /\ UNCHANGED <<pc, client_id, keyboard, pass, once, seat, message>>

\* Slip: one space is removed at each end.
TrimOnce(s) ==
  LET start == IF s # <<>> /\ s[1] = SP THEN 2 ELSE 1
      end   == IF Len(s) > start /\ s[Len(s)] = SP THEN Len(s) - 1 ELSE Len(s)
  IN [k \in 1..(end - start + 1) |-> s[start + k - 1]]

\* The two loops at the end of sanitize_input.
Trim(s) ==
  LET start == Least({k \in 1..(Len(s) + 1) : k = Len(s) + 1 \/ s[k] # SP})
      tail  == Least({k \in 0..(Len(s) + 1 - start) : k = Len(s) + 1 - start \/ s[Len(s) - k] # SP})
  IN [k \in 1..(Len(s) + 1 - start - tail) |-> s[start + k - 1]]

toupper(c) == IF c = "a" THEN "A" ELSE c
ToUpper(s) == [k \in 1..Len(s) |-> toupper(s[k])]

\* Nothing of the line is left for the next one.
NextLine ==
  /\ line' = <<>> /\ typed' = <<>> /\ escape' = FALSE
  /\ pass' = "line" /\ i' = 1 /\ result' = <<>> /\ once' = <<>>

\* ClientRepl::run goes on to parse_line, which sanitizes the line again.
LineSanitized ==
  /\ pc = "scan" /\ i > Len(line) /\ pass = "line"
  /\ \/ /\ Trim(result) = <<>>
        /\ pc' = "read"
        /\ NextLine
     \/ /\ Trim(result) # <<>>
        /\ line' = Trim(result)
        /\ once' = Trim(result)
        /\ pass' = "again"
        /\ i' = 1
        /\ result' = <<>>
        /\ UNCHANGED <<pc, typed, escape>>
  /\ UNCHANGED <<client_id, seat, message>>

CommandSanitized ==
  /\ pc = "scan" /\ i > Len(line) /\ pass = "again"
  /\ pc' = "parse"
  /\ result' = Trim(result)
  /\ UNCHANGED <<client_id, keyboard, pass, i, once, seat, message>>

\* The seat prompt takes the whole line for the seat.
SeatSanitized ==
  /\ pc = "scan" /\ i > Len(line) /\ pass = "seat"
  /\ pc' = "send"
  /\ seat' = ToUpper(Trim(result))
  /\ UNCHANGED <<client_id, keyboard, scan, once, message>>

-----------------------------------------------------------------------------
(* CommandParser::parse_line and the request.                              *)

\* The word of s that begins at or after k, as operator>> reads it.
WordFrom(s, k) ==
  LET start == Least({j \in k..(Len(s) + 1) : j = Len(s) + 1 \/ s[j] # SP})
      end   == Least({j \in start..(Len(s) + 1) : j = Len(s) + 1 \/ s[j] = SP})
  IN [j \in 1..(end - start) |-> s[start + j - 1]]

Verb == WordFrom(result, 1)
Operand == WordFrom(result, Len(Verb) + 1)

\* Another command, or none: module Kiosk.
OtherCommand ==
  /\ pc = "parse"
  /\ Verb # <<"2">>
  /\ pc' = "read"
  /\ NextLine
  /\ UNCHANGED <<client_id, seat, message>>

SeatPrompt ==
  /\ pc = "parse"
  /\ Verb = <<"2">> /\ Operand = <<>>
  /\ pc' = "prompt"
  /\ NextLine
  /\ UNCHANGED <<client_id, seat, message>>

SeatCommand ==
  /\ pc = "parse"
  /\ Verb = <<"2">> /\ Operand # <<>>
  /\ pc' = "send"
  /\ seat' = ToUpper(Operand)
  /\ UNCHANGED <<client_id, keyboard, scan, once, message>>

send_request ==
  /\ pc = "send"
  /\ pc' = "serve"
  /\ request' =
       [seat_id |-> copy_string_to_buffer(kMaxSeatIdLength, NoRequest.seat_id, seat),
        reply_queue_name |->
          copy_string_to_buffer(kMaxQueueNameLength, NoRequest.reply_queue_name,
                                format_client_reply_queue_name(client_id))]
  /\ UNCHANGED <<client_id, keyboard, scan, once, seat, seen>>

\* process_request reads the seat id, the worker the reply queue's name.
Serve ==
  /\ pc = "serve"
  /\ pc' = "answer"
  /\ seen' =
       [seat_id |-> buffer_to_string_view(request.seat_id, kMaxSeatIdLength),
        reply_queue_name |->
          buffer_to_string_view(request.reply_queue_name, kMaxQueueNameLength)]
  /\ UNCHANGED <<client_id, keyboard, scan, once, seat, request>>

\* The client shows the ticket or the error and goes back to its prompt.
Answer ==
  /\ pc = "answer"
  /\ pc' = "read"
  /\ NextLine
  /\ seat' = <<>> /\ request' = NoRequest /\ seen' = NothingSeen
  /\ UNCHANGED client_id

Program ==
  \/ SkipEscape \/ SkipReturn \/ Keep
  \/ LineSanitized \/ CommandSanitized \/ SeatSanitized
  \/ OtherCommand \/ SeatPrompt \/ SeatCommand
  \/ send_request \/ Serve \/ Answer

Next ==
  \/ \E key \in PlainKeys \cup CursorKeys \cup {<<CR>>, <<ESC>>} : Press(key)
  \/ Enter
  \/ Program

\* The program runs; the user types when they like.
Spec == Init /\ [][Next]_vars /\ WF_vars(Program)

-----------------------------------------------------------------------------
(* Properties.                                                             *)

Visible == Chars \ {ESC, CR}

\* The scan stays within one position of the line's end (i += 2 may leave the
\* line), and no string it produces holds an escape or a carriage return.
TypeOK ==
  /\ pc \in PCs
  /\ client_id \in ClientIds
  /\ line \in Seq(Chars) /\ typed \in Seq(Visible) /\ escape \in BOOLEAN
  /\ pass \in {"line", "again", "seat"}
  /\ i \in 1..(Len(line) + 2)
  /\ result \in Seq(Visible) /\ once \in Seq(Visible) /\ seat \in Seq(Visible)
  /\ request.seat_id \in [1..kMaxSeatIdLength -> Chars]
  /\ seen.seat_id \in Seq(Chars)

\* Cursor and function keys leave no trace and take nothing else with them:
\* what the client works on is what the user typed.  (After a lone Escape the
\* next keys can be taken for a sequence.)
KeysLeaveNoTrace ==
  ~escape =>
    /\ pc = "parse" => result = Trim(typed)
    /\ pc = "send" /\ pass = "seat" => seat = ToUpper(Trim(typed))

\* parse_line's second sanitize_input changes nothing: ClientRepl::run and the
\* parser look at the same line, whatever bytes were in it.
SanitizeIdempotent == pc = "parse" => result = once

\* The server acts on the seat the client will name on the ticket: neither the
\* cut at the end of the buffer nor its padding turns one seat into another,
\* and a seat that exists is found.
SeatUnderstood ==
  pc = "answer" /\ (\A k \in 1..Len(seat) : seat[k] # NUL) =>
    /\ seen.seat_id \in SeatIds <=> seat \in SeatIds
    /\ seat \in SeatIds => seen.seat_id = seat

\* The name the worker opens for the reply is one mq_open accepts, and it is
\* the name of this client's queue and of no other's.
ReplyNameOfClient ==
  pc = "answer" =>
    /\ is_valid_posix_queue_name(seen.reply_queue_name)
    /\ \A c \in ClientIds :
         format_client_reply_queue_name(c) = seen.reply_queue_name <=> c = client_id

\* Whatever was typed, the scan comes to its end and the client to its prompt.
LineHandled == (pc = "scan") ~> (pc \in {"read", "prompt"})
=============================================================================
