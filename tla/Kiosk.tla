------------------------------- MODULE Kiosk -------------------------------
(***************************************************************************)
(* The client's user interface: ClientRepl::run with its interactive kiosk *)
(* and its line mode, run_preview_mode, CommandParser::parse_line, and     *)
(* SIGWINCH, which makes a blocked getline fail.                           *)
(*                                                                         *)
(* The screen shows the grid drawn from a copy of the seat map, the last   *)
(* message (its type and the owner a STATUS names) and a ticket stub.  A   *)
(* request is one step at the server (RequestProcessor implements that);   *)
(* the seat map takes one STATUS per seat, with other clients at work in   *)
(* between.  client_id is unique: two processes of one id are the subject  *)
(* of ClientSession.                                                       *)
(***************************************************************************)
EXTENDS ReservationTable, Naturals, FiniteSets

CONSTANTS
  me,                 \* client_.client_id(), 1 in the preview
  kBarWidth,          \* segments of the LOAD bar
  DemoTable           \* the table the preview starts with

ASSUME KioskAssumption ==
  /\ me \in Clients
  /\ IsFiniteSet(Seats)
  /\ kBarWidth \in Nat
  /\ Cardinality(Seats) < 2 * kBarWidth  \* 20 seats, 40 segments
  /\ DemoTable \in [Seats -> {Vacant} \cup {HeldBy(c) : c \in Clients}]

VARIABLES
  mode,               \* "kiosk", "lines" (not a terminal) or "preview"
  table,              \* the server's ReservationTable, or demo_table
  pc,                 \* where the loop is
  verb,               \* the request under way
  seat,               \* its seat
  current_seats,      \* the seat map on the screen
  fetched,            \* fetch_seat_map: the seats answered so far
  feedback,           \* feedback_type
  told,               \* feedback_msg of a STATUS: the seat and the owner it names
  ticket,             \* ticket_seat_id
  resized,            \* g_terminal_resized
  failbit,            \* state of std::cin
  excuse              \* history: why the session may end

input  == <<resized, failbit>>
notice == <<feedback, told, ticket>>
screen == <<current_seats, feedback, told, ticket>>
vars == <<mode, table, pc, verb, seat, current_seats, fetched, feedback, told, ticket,
          resized, failbit, excuse>>

PCs      == {"top", "read", "failed", "prompt", "request", "fetch", "ended"}
Shown    == [status : SeatStatus, owner : ClientIds]
Feedback == {"", "INFO", "SUCCESS", "FAILED"}

\* Slip: the owner is shown without value_or(kInvalidClientId).
DisplayRaw(s) == [status |-> s.status, owner |-> s.owner]

\* One seat as SeatDisplayInfo has it.
Display(s) == [status |-> s.status, owner |-> OwnerOrInvalid(s.owner)]

\* The owner format_single_seat prints, kInvalidClientId for none.
format_single_seat(shown) ==
  IF shown.status = "Reserved" /\ shown.owner # kInvalidClientId
    THEN shown.owner ELSE kInvalidClientId

Told == [seat : SeatIds, owner : ClientIds]
NothingTold == [seat |-> NoSeat, owner |-> kInvalidClientId]

Nothing == [s \in {} |-> Display(Vacant)]
DisplayAll(t) == [s \in Seats |-> Display(t[s])]

\* The kiosk fetches the map before it reads a line, and shows no message
\* with it, just as CLEAR does.
Init ==
  /\ mode \in {"kiosk", "lines", "preview"}
  /\ table = IF mode = "preview" THEN DemoTable ELSE NewTable
  /\ pc = CASE mode = "kiosk" -> "fetch" [] mode = "lines" -> "read" [] OTHER -> "top"
  /\ verb = "Clear"
  /\ seat = NoSeat
  /\ current_seats = DisplayAll(table)
  /\ fetched = Nothing
  /\ feedback = ""
  /\ told = NothingTold
  /\ ticket = NoSeat
  /\ resized = FALSE
  /\ failbit = FALSE
  /\ excuse = {}

Goto(at, next) == pc = at /\ pc' = next
LoopStart == IF mode = "lines" THEN "read" ELSE "top"

-----------------------------------------------------------------------------
(* format_grid: a token for each seat, and how full the house is.          *)

\* current_client_id is me.  Where the output is not a terminal the token has
\* the owner's number in place of MINE and BOOKED.
Token(shown) ==
  CASE shown.status = "Available" -> "FREE"
    [] shown.status # "Available" /\ shown.owner = me -> "MINE"
    [] OTHER -> "BOOKED"

available_count(seats) == Cardinality({s \in DOMAIN seats : seats[s].status = "Available"})
reserved_count(seats)  == Cardinality({s \in DOMAIN seats : seats[s].status # "Available"})
total_seats(seats)     == available_count(seats) + reserved_count(seats)

\* Slip: the quotient is cut off.
filled_segments_cut(seats) ==
  IF total_seats(seats) = 0 THEN 0
  ELSE (reserved_count(seats) * kBarWidth) \div total_seats(seats)

\* lround of the share of kBarWidth that is reserved, which is at most 1.
filled_segments(seats) ==
  IF total_seats(seats) = 0 THEN 0
  ELSE (2 * reserved_count(seats) * kBarWidth + total_seats(seats)) \div (2 * total_seats(seats))

-----------------------------------------------------------------------------
(* parse_line.  A line is what the sanitised text says: a verb, with       *)
(* abbreviations and digits resolved, whether it is spelled so that the    *)
(* kiosk asks for a missing seat ("2", "RESERVE", "reserve"), and a seat.  *)

Verbs == {"Help", "Clear", "Quit", "List"} \cup SeatCommands
Missing == "missing"

Lines ==
  {[verb |-> v, full |-> TRUE, seat |-> NoSeat] : v \in Verbs \ SeatCommands}
    \cup [verb : SeatCommands, full : BOOLEAN, seat : SeatIds \cup {Missing}]
    \cup {[verb |-> "other", full |-> FALSE, seat |-> NoSeat],
          [verb |-> "empty", full |-> FALSE, seat |-> NoSeat]}

\* parse_line returns a value; a request needs its seat.
Parsed(l) == l.verb \in Verbs /\ (l.verb \in SeatCommands => l.seat # Missing)

Prompted(l) == l.verb \in SeatCommands /\ l.seat = Missing /\ l.full /\ mode # "lines"

-----------------------------------------------------------------------------
(* SIGWINCH and the loop.                                                  *)

\* The handler runs; nothing was blocked in read().
sigwinch_handler ==
  /\ pc # "ended"
  /\ resized' = TRUE
  /\ UNCHANGED <<mode, table, pc, verb, seat, screen, fetched, failbit, excuse>>

\* The top of the loop: redraw after a resize.
LoopTop ==
  /\ Goto("top", "read")
  /\ resized' = FALSE
  /\ UNCHANGED <<mode, table, verb, seat, screen, fetched, failbit, excuse>>

\* getline returns false: the stream had failed already, the input ends, or
\* SIGWINCH interrupts read() (no SA_RESTART).
GetlineFails(why) ==
  /\ failbit' = TRUE
  /\ \/ failbit /\ UNCHANGED <<resized, excuse>>
     \/ ~failbit /\ excuse' = excuse \cup {"eof"} /\ UNCHANGED resized
     \/ ~failbit /\ resized' = TRUE /\ excuse' = why

ReadFails ==
  /\ Goto("read", "failed")
  /\ GetlineFails(IF mode = "lines" THEN excuse \cup {"resized"} ELSE excuse)
  /\ UNCHANGED <<mode, table, verb, seat, screen, fetched>>

\* Slip: the stream is not cleared.
RecoverUncleared ==
  /\ mode # "lines" /\ resized
  /\ Goto("failed", "top")
  /\ resized' = FALSE
  /\ excuse' = {}
  /\ UNCHANGED <<mode, table, verb, seat, screen, fetched, failbit>>

\* After a resize the stream is cleared and read again.
Recover ==
  /\ mode # "lines" /\ resized
  /\ Goto("failed", "top")
  /\ failbit' = FALSE
  /\ resized' = FALSE
  /\ excuse' = {}
  /\ UNCHANGED <<mode, table, verb, seat, screen, fetched>>

\* Otherwise handle_quit (the preview just leaves).
EndOfInput ==
  /\ mode = "lines" \/ ~resized
  /\ Goto("failed", "ended")
  /\ UNCHANGED <<mode, table, verb, seat, screen, fetched, input, excuse>>

-----------------------------------------------------------------------------
(* A line.                                                                 *)

\* Slip: a new message type with the old message.
ReportOldMessage(f, t) == feedback' = f /\ ticket' = t /\ UNCHANGED told

Report(f, t) == feedback' = f /\ ticket' = t /\ told' = NothingTold

GetLine(l) == ~failbit /\ l \in Lines

\* An empty line redraws; line mode calls it a syntax error.
EmptyLine(l) ==
  /\ GetLine(l) /\ l.verb = "empty"
  /\ Goto("read", LoopStart)
  /\ IF mode = "lines" THEN Report("FAILED", NoSeat) ELSE UNCHANGED notice
  /\ UNCHANGED <<mode, table, verb, seat, current_seats, fetched, input, excuse>>

Unrecognised(l) ==
  /\ GetLine(l) /\ l.verb # "empty" /\ ~Parsed(l) /\ ~Prompted(l)
  /\ Goto("read", LoopStart)
  /\ Report("FAILED", NoSeat)
  /\ UNCHANGED <<mode, table, verb, seat, current_seats, fetched, input, excuse>>

Help(l) ==
  /\ GetLine(l) /\ l.verb = "Help"
  /\ Goto("read", LoopStart)
  /\ Report("INFO", NoSeat)
  /\ UNCHANGED <<mode, table, verb, seat, current_seats, fetched, input, excuse>>

Quit(l) ==
  /\ GetLine(l) /\ l.verb = "Quit"
  /\ Goto("read", "ended")
  /\ excuse' = excuse \cup {"quit"}
  /\ UNCHANGED <<mode, table, verb, seat, screen, fetched, input>>

\* Line mode prints the map of LIST without a message.
SuccessFeedback(v) ==
  CASE v \in {"Reserve", "Cancel"} -> "SUCCESS"
    [] v = "Clear" \/ (v = "List" /\ mode = "lines") -> ""
    [] OTHER -> "INFO"

\* LIST and CLEAR fetch the map anew; the preview redraws from its table.
List(l) ==
  /\ GetLine(l) /\ l.verb \in {"List", "Clear"}
  /\ verb' = l.verb
  /\ fetched' = Nothing
  /\ IF mode = "preview"
       THEN /\ Goto("read", "top")
            /\ Report(SuccessFeedback(l.verb), NoSeat)
            /\ current_seats' = DisplayAll(table)
       ELSE Goto("read", "fetch") /\ UNCHANGED screen
  /\ UNCHANGED <<mode, table, seat, input, excuse>>

\* STATUS, RESERVE or CANCEL with a seat.
SeatLine(l) ==
  /\ GetLine(l) /\ Parsed(l) /\ l.verb \in SeatCommands
  /\ Goto("read", "request")
  /\ verb' = l.verb /\ seat' = l.seat
  /\ UNCHANGED <<mode, table, screen, fetched, input, excuse>>

\* The same verbs without: "Enter Seat ID ...".
Prompt(l) ==
  /\ GetLine(l) /\ Prompted(l)
  /\ Goto("read", "prompt")
  /\ verb' = l.verb
  /\ UNCHANGED <<mode, table, seat, screen, fetched, input, excuse>>

PromptLine(s) ==
  /\ Goto("prompt", "request")
  /\ seat' = s
  /\ UNCHANGED <<mode, table, verb, screen, fetched, input, excuse>>

\* The second getline fails; the code goes on to "Unknown command syntax" and
\* leaves the stream failed.
PromptFails ==
  /\ Goto("prompt", "top")
  /\ GetlineFails(excuse \cup {"prompt"})
  /\ Report("FAILED", NoSeat)
  /\ UNCHANGED <<mode, table, verb, seat, current_seats, fetched>>

-----------------------------------------------------------------------------
(* Requests.                                                               *)

Granted ==
  CASE verb = "Status"  -> has_seat(seat)
    [] verb = "Reserve" -> reserve_seat(table, seat, me)
    [] OTHER            -> cancel_seat(table, seat, me)

NewTableAfter ==
  IF ~Granted \/ verb = "Status" THEN table
  ELSE [table EXCEPT ![seat] = IF verb = "Reserve" THEN HeldBy(me) ELSE Vacant]

\* Slip: a cancellation leaves the ticket stub on the screen.
TicketKept(v, s) == IF v \in {"Reserve", "Cancel"} THEN s ELSE NoSeat

\* The seat on the ticket stub after a successful request.
TicketFor(v, s) == IF v = "Reserve" THEN s ELSE NoSeat

\* Slip: a cancellation does not fetch the map.
RefetchAfterReserve == mode = "kiosk" /\ Granted /\ verb = "Reserve"

\* A successful RESERVE or CANCEL makes the kiosk fetch the map again.
Refetch == mode = "kiosk" /\ Granted /\ verb # "Status"

\* What the screen says of a request that succeeded.
Success ==
  /\ feedback' = SuccessFeedback(verb)
  /\ told' = IF verb = "Status"
               THEN [seat |-> seat, owner |-> format_single_seat(Display(table[seat]))]
               ELSE NothingTold
  /\ ticket' = TicketFor(verb, seat)

\* request_*() and its answer.  Line mode prints the ticket at once.
Request ==
  /\ Goto("request", IF Refetch THEN "fetch" ELSE LoopStart)
  /\ table' = NewTableAfter
  /\ fetched' = Nothing
  /\ IF Refetch THEN UNCHANGED notice
     ELSE IF Granted THEN Success
     ELSE Report("FAILED", NoSeat)
  /\ current_seats' = IF mode = "preview" THEN DisplayAll(table') ELSE current_seats
  /\ UNCHANGED <<mode, verb, seat, input, excuse>>

\* fetch_seat_map: the STATUS answer for one more seat; a canonical seat's
\* STATUS is always a success.
FetchSeat(s) ==
  /\ pc = "fetch"
  /\ s \in Seats \ DOMAIN fetched
  /\ fetched' = [t \in DOMAIN fetched \cup {s} |->
                   IF t = s THEN Display(table[s]) ELSE fetched[t]]
  /\ UNCHANGED <<mode, table, pc, verb, seat, screen, input, excuse>>

\* The map is complete and the screen redrawn; line mode prints it and keeps
\* no copy.
ShowMap ==
  /\ Goto("fetch", LoopStart)
  /\ DOMAIN fetched = Seats
  /\ current_seats' = IF mode = "lines" THEN current_seats ELSE fetched
  /\ Report(SuccessFeedback(verb), TicketFor(verb, seat))
  /\ fetched' = Nothing
  /\ UNCHANGED <<mode, table, verb, seat, input, excuse>>

\* Another client's request succeeds.
OtherClient(c, s) ==
  /\ mode # "preview"
  /\ \/ reserve_seat(table, s, c) /\ table' = [table EXCEPT ![s] = HeldBy(c)]
     \/ cancel_seat(table, s, c) /\ table' = [table EXCEPT ![s] = Vacant]
  /\ UNCHANGED <<mode, pc, verb, seat, screen, fetched, input, excuse>>

Handle(l) ==
  EmptyLine(l) \/ Unrecognised(l) \/ Help(l) \/ Quit(l) \/ List(l) \/ SeatLine(l) \/ Prompt(l)

Next ==
  \/ sigwinch_handler
  \/ LoopTop
  \/ ReadFails \/ Recover \/ EndOfInput
  \/ \E l \in Lines : Handle(l)
  \/ \E s \in SeatIds : PromptLine(s)
  \/ PromptFails
  \/ Request
  \/ \E s \in Seats : FetchSeat(s)
  \/ ShowMap
  \/ \E c \in Clients \ {me}, s \in Seats : OtherClient(c, s)

Spec == Init /\ [][Next]_vars

-----------------------------------------------------------------------------
(* Properties.                                                             *)

\* The session's variables hold values of their types.
TypeOK ==
  /\ mode \in {"kiosk", "lines", "preview"}
  /\ table \in [Seats -> Seat]
  /\ pc \in PCs
  /\ verb \in Verbs
  /\ seat \in SeatIds
  /\ current_seats \in [Seats -> Shown]
  /\ \E D \in SUBSET Seats : fetched \in [D -> Shown]
  /\ feedback \in Feedback
  /\ told \in Told
  /\ ticket \in SeatIds
  /\ resized \in BOOLEAN /\ failbit \in BOOLEAN
  /\ excuse \subseteq {"quit", "eof", "prompt", "resized"}

\* A line is being awaited, so the screen is what the user sees.
AtRest == pc \in {"read", "prompt"}

\* A ticket stub on the screen is good: the message is the SUCCESS of the
\* reservation and the server's table has that seat for this client.
TicketHonest ==
  AtRest /\ ticket # NoSeat => feedback = "SUCCESS" /\ table[ticket] = HeldBy(me)

\* The grid, drawn from a map fetched seat by seat while others book and
\* cancel, marks exactly this client's seats as MINE, never a seat it has given
\* up nor one it has not got.
OwnSeatsShown ==
  AtRest /\ mode # "lines" =>
    \A s \in Seats : Token(current_seats[s]) = "MINE" <=> table[s].owner = me

\* A STATUS message names this client as the seat's owner exactly when it is,
\* for as long as the message stays on the screen.
StatusHonest ==
  AtRest /\ told.seat # NoSeat => (told.owner = me <=> table[told.seat].owner = me)

\* The LOAD bar accounts for the seats this client holds now, to half a
\* segment, and it is full only when no seat is FREE.
LoadHonest ==
  AtRest /\ mode # "lines" =>
    LET own   == Cardinality({s \in Seats : table[s].owner = me})
        total == Cardinality(Seats)
    IN /\ 2 * total * filled_segments(current_seats) + total >= 2 * kBarWidth * own
       /\ filled_segments(current_seats) = kBarWidth =>
            \A s \in Seats : Token(current_seats[s]) # "FREE"

\* A resize at the main prompt never ends the session: it ends by QUIT, at the
\* end of the input, or after a resize in the middle of a seat prompt; in line
\* mode any resize that interrupts a read ends it.
EndExcused == pc = "ended" => excuse # {}
=============================================================================
