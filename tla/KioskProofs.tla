---------------------------- MODULE KioskProofs ----------------------------
(***************************************************************************)
(* Proofs about Kiosk for any seats and clients: what the screen says of   *)
(* this client's seats is true in every mode, although the map is fetched  *)
(* seat by seat while others book and cancel, and no resize at the main    *)
(* prompt ends the session.                                                *)
(***************************************************************************)
EXTENDS Kiosk, FiniteSetTheorems, TLAPS

Tables == [Seats -> {Vacant} \cup {HeldBy(c) : c \in Clients}]
Mine(s) == table[s].owner = me
ShownMine(shown, s) == Token(shown) = "MINE" <=> Mine(s)

\* A seat has an owner exactly when it is reserved, and a request that is
\* under way has the verb of one.
SessionInv ==
  /\ TypeOK
  /\ table \in Tables
  /\ pc \in {"prompt", "request"} => verb \in SeatCommands

\* The map on the screen shows this client's seats except while a new one is
\* fetched, and then the part that has been fetched does.
MapInv ==
  /\ pc # "fetch" /\ mode # "lines" => \A s \in Seats : ShownMine(current_seats[s], s)
  /\ pc = "fetch" => \A s \in DOMAIN fetched : ShownMine(fetched[s], s)

\* The ticket is good except while the map is fetched, and the one that will
\* be printed then is.
TicketInv ==
  /\ pc # "fetch" /\ ticket # NoSeat => feedback = "SUCCESS" /\ table[ticket] = HeldBy(me)
  /\ pc = "fetch" /\ verb = "Reserve" => seat \in Seats /\ table[seat] = HeldBy(me)

\* The message of a STATUS stays true until the screen is drawn anew.
ToldInv == pc # "fetch" /\ told.seat # NoSeat => (told.owner = me <=> Mine(told.seat))

\* The stream has failed for a reason, or is about to be cleared.
ExcuseInv ==
  /\ failbit /\ pc # "failed" => excuse # {}
  /\ pc = "failed" => failbit /\ (excuse # {} \/ (mode # "lines" /\ resized))
  /\ pc = "ended" => excuse # {}

Inv == SessionInv /\ MapInv /\ TicketInv /\ ToldInv /\ ExcuseInv

-----------------------------------------------------------------------------
(* Seats and lines.                                                        *)

\* This client is a client, and not nobody.
LEMMA Me == me \in ClientIds /\ me # kInvalidClientId /\ me # Nobody
  BY KioskAssumption, TableAssumption DEF Clients

\* A seat of the table is vacant or held by a client.
LEMMA SeatCases ==
  ASSUME NEW t \in Tables, NEW s \in Seats
  PROVE  /\ t[s] = Vacant \/ \E c \in Clients : t[s] = HeldBy(c)
         /\ t[s] \in Seat
<1>0. t[s] \in {Vacant} \cup {HeldBy(c) : c \in Clients}
  BY DEF Tables
<1>1. t[s] = Vacant \/ \E c \in Clients : t[s] = HeldBy(c)
  BY <1>0, Zenon
<1>2. Vacant \in Seat /\ \A c \in Clients : HeldBy(c) \in Seat
  BY DEF Vacant, HeldBy, Seat, SeatStatus, Owners, Clients
<1> QED
  BY <1>1, <1>2

\* What is displayed of a seat is MINE exactly when it is.
LEMMA DisplayHonest ==
  ASSUME NEW t \in Tables, NEW s \in Seats
  PROVE  /\ Display(t[s]) \in Shown
         /\ Token(Display(t[s])) = "MINE" <=> t[s].owner = me
         /\ format_single_seat(Display(t[s])) \in ClientIds
         /\ format_single_seat(Display(t[s])) = me <=> t[s].owner = me
<1> USE TableAssumption, Me
    DEF Display, OwnerOrInvalid, Shown, SeatStatus, Token, format_single_seat
<1>1. CASE t[s] = Vacant
  BY <1>1 DEF Vacant
<1>2. ASSUME NEW c \in Clients, t[s] = HeldBy(c)
      PROVE  /\ Display(t[s]) \in Shown
             /\ Token(Display(t[s])) = "MINE" <=> t[s].owner = me
             /\ format_single_seat(Display(t[s])) \in ClientIds
             /\ format_single_seat(Display(t[s])) = me <=> t[s].owner = me
  BY <1>2 DEF HeldBy, Clients
<1> QED
  BY <1>1, <1>2, SeatCases

\* A line that names a seat names one the client can send.
LEMMA LineSeat ==
  ASSUME NEW l \in Lines, l.verb \in SeatCommands
  PROVE  l.seat \in SeatIds \cup {Missing}
<1>1. CASE l \in {[verb |-> v, full |-> TRUE, seat |-> NoSeat] : v \in Verbs \ SeatCommands}
  BY <1>1
<1>2. CASE l \in [verb : SeatCommands, full : BOOLEAN, seat : SeatIds \cup {Missing}]
  BY <1>2
<1>3. CASE l \in {[verb |-> "other", full |-> FALSE, seat |-> NoSeat],
                  [verb |-> "empty", full |-> FALSE, seat |-> NoSeat]}
  BY <1>3 DEF SeatCommands
<1> QED
  BY <1>1, <1>2, <1>3 DEF Lines

-----------------------------------------------------------------------------
(* Steps that leave the table and the screen alone.                        *)

\* Nothing new is shown, and nothing of what is shown has changed.
LEMMA ScreenKept ==
  ASSUME Inv, UNCHANGED <<mode, table, current_seats, feedback, told, ticket, fetched>>,
         pc' = "fetch" <=> pc = "fetch",
         pc = "fetch" => verb' = verb /\ seat' = seat
  PROVE  MapInv' /\ TicketInv' /\ ToldInv'
  BY DEF Inv, MapInv, TicketInv, ToldInv, ShownMine, Mine

\* A message without a ticket, under the same map.
LEMMA MessageOnly ==
  ASSUME Inv, UNCHANGED <<mode, table, current_seats, fetched>>,
         pc # "fetch", pc' # "fetch",
         \/ told' = NothingTold /\ ticket' = NoSeat
         \/ UNCHANGED <<feedback, told, ticket>>
  PROVE  MapInv' /\ TicketInv' /\ ToldInv'
<1>1. MapInv'
  BY DEF Inv, MapInv, ShownMine, Mine
<1>2. TicketInv' /\ ToldInv'
  BY DEF Inv, TicketInv, ToldInv, Mine, NothingTold
<1> QED
  BY <1>1, <1>2

\* The loop, the end of the input and resizes.
LEMMA LoopStep ==
  ASSUME Inv, sigwinch_handler \/ LoopTop \/ ReadFails \/ Recover \/ EndOfInput
  PROVE  Inv'
<1> USE DEF screen, input, notice, Goto
<1>1. /\ UNCHANGED <<mode, table, verb, seat, current_seats, feedback, told, ticket, fetched>>
      /\ pc' = "fetch" <=> pc = "fetch"
  BY DEF sigwinch_handler, LoopTop, ReadFails, Recover, EndOfInput
<1>2. /\ (pc' \in PCs /\ pc' \notin {"prompt", "request"}) \/ pc' = pc
      /\ resized' \in BOOLEAN /\ failbit' \in BOOLEAN
      /\ excuse' \subseteq {"quit", "eof", "prompt", "resized"}
  <2>1. CASE sigwinch_handler
    BY <2>1 DEF sigwinch_handler, Inv, SessionInv, TypeOK
  <2>2. CASE LoopTop
    BY <2>2 DEF LoopTop, Inv, SessionInv, TypeOK, PCs
  <2>3. CASE ReadFails
    BY <2>3 DEF ReadFails, GetlineFails, Inv, SessionInv, TypeOK, PCs
  <2>4. CASE Recover
    BY <2>4 DEF Recover, PCs
  <2>5. CASE EndOfInput
    BY <2>5 DEF EndOfInput, Inv, SessionInv, TypeOK, PCs
  <2> QED
    BY <2>1, <2>2, <2>3, <2>4, <2>5
<1>3. SessionInv'
  BY <1>1, <1>2 DEF Inv, SessionInv, TypeOK
<1>4. ExcuseInv'
  <2>1. CASE sigwinch_handler
    BY <2>1 DEF sigwinch_handler, Inv, ExcuseInv
  <2>2. CASE LoopTop
    BY <2>2 DEF LoopTop, Inv, ExcuseInv
  <2>3. CASE ReadFails
    BY <2>3 DEF ReadFails, GetlineFails, Inv, ExcuseInv
  <2>4. CASE Recover
    BY <2>4 DEF Recover, ExcuseInv
  <2>5. CASE EndOfInput
    BY <2>5 DEF EndOfInput, Inv, ExcuseInv
  <2> QED
    BY <2>1, <2>2, <2>3, <2>4, <2>5
<1> QED
  BY <1>1, <1>3, <1>4, ScreenKept DEF Inv

\* Lines that are answered with a message, and those that begin a request.
LEMMA LineStep ==
  ASSUME Inv, NEW l \in Lines,
         EmptyLine(l) \/ Unrecognised(l) \/ Help(l) \/ Quit(l) \/ SeatLine(l) \/ Prompt(l)
  PROVE  Inv'
<1> USE DEF screen, input, notice, Goto
<1>0. pc = "read" /\ ~failbit /\ UNCHANGED <<mode, table, current_seats, fetched>>
  BY DEF EmptyLine, Unrecognised, Help, Quit, SeatLine, Prompt, GetLine
<1>t. /\ TypeOK /\ LoopStart \in {"read", "top"}
      /\ NothingTold \in Told /\ NoSeat \in SeatIds
  BY TableAssumption DEF Inv, SessionInv, LoopStart, NothingTold, Told, SeatIds
<1>1. CASE EmptyLine(l) \/ Unrecognised(l) \/ Help(l)
  <2>1. /\ pc' \in {"read", "top"} /\ UNCHANGED <<verb, seat, resized, failbit, excuse>>
        /\ feedback' \in Feedback
        /\ \/ told' = NothingTold /\ ticket' = NoSeat
           \/ UNCHANGED <<feedback, told, ticket>>
    BY <1>1, <1>t DEF EmptyLine, Unrecognised, Help, Report, Feedback, TypeOK
  <2>2. SessionInv'
    BY <1>0, <1>t, <2>1 DEF Inv, SessionInv, TypeOK, PCs
  <2>3. ExcuseInv'
    BY <1>0, <2>1 DEF ExcuseInv
  <2> QED
    BY <1>0, <2>1, <2>2, <2>3, MessageOnly DEF Inv
<1>2. CASE Quit(l)
  <2>1. /\ pc' = "ended" /\ UNCHANGED <<verb, seat, feedback, told, ticket, resized, failbit>>
        /\ excuse' = excuse \cup {"quit"}
    BY <1>2 DEF Quit
  <2>2. SessionInv'
    BY <1>0, <1>t, <2>1 DEF Inv, SessionInv, TypeOK, PCs
  <2>3. ExcuseInv'
    BY <1>0, <2>1 DEF ExcuseInv
  <2> QED
    BY <1>0, <2>1, <2>2, <2>3, ScreenKept DEF Inv
<1>3. CASE SeatLine(l) \/ Prompt(l)
  <2>1. /\ pc' \in {"request", "prompt"} /\ verb' \in SeatCommands /\ seat' \in SeatIds
        /\ UNCHANGED <<feedback, told, ticket, resized, failbit, excuse>>
    BY <1>3, <1>t, LineSeat DEF SeatLine, Prompt, Parsed, Prompted, TypeOK
  <2>2. SessionInv'
    BY <1>0, <1>t, <2>1 DEF Inv, SessionInv, TypeOK, PCs, Verbs
  <2>3. ExcuseInv'
    BY <1>0, <2>1 DEF ExcuseInv
  <2> QED
    BY <1>0, <2>1, <2>2, <2>3, ScreenKept DEF Inv
<1> QED
  BY <1>1, <1>2, <1>3

\* The prompt for a seat, answered or interrupted.
LEMMA PromptStep ==
  ASSUME Inv, PromptFails \/ \E s \in SeatIds : PromptLine(s)
  PROVE  Inv'
<1> USE DEF screen, input, notice, Goto
<1>t. /\ TypeOK /\ NothingTold \in Told /\ NoSeat \in SeatIds
  BY TableAssumption DEF Inv, SessionInv, NothingTold, Told, SeatIds
<1>1. CASE PromptFails
  <2>1. /\ pc = "prompt" /\ pc' = "top" /\ UNCHANGED <<mode, table, verb, seat, current_seats, fetched>>
        /\ told' = NothingTold /\ ticket' = NoSeat /\ feedback' \in Feedback
    BY <1>1 DEF PromptFails, Report, Feedback
  <2>2. /\ resized' \in BOOLEAN /\ failbit' = TRUE
        /\ excuse' \subseteq {"quit", "eof", "prompt", "resized"}
    BY <1>1, <1>t DEF PromptFails, GetlineFails, TypeOK
  <2>3. SessionInv'
    BY <1>t, <2>1, <2>2 DEF Inv, SessionInv, TypeOK, PCs
  <2>4. ExcuseInv'
    BY <1>1, <2>1 DEF PromptFails, GetlineFails, Inv, ExcuseInv
  <2> QED
    BY <2>1, <2>3, <2>4, MessageOnly DEF Inv
<1>2. ASSUME NEW s \in SeatIds, PromptLine(s) PROVE Inv'
  <2>1. /\ pc = "prompt" /\ pc' = "request" /\ seat' = s
        /\ UNCHANGED <<mode, table, verb, current_seats, feedback, told, ticket, fetched,
                       resized, failbit, excuse>>
    BY <1>2 DEF PromptLine
  <2>2. SessionInv'
    BY <1>t, <2>1 DEF Inv, SessionInv, TypeOK, PCs
  <2>3. ExcuseInv'
    BY <2>1 DEF Inv, ExcuseInv
  <2> QED
    BY <2>1, <2>2, <2>3, ScreenKept DEF Inv
<1> QED
  BY <1>1, <1>2

-----------------------------------------------------------------------------
(* Requests, the map and the other clients.                                *)

\* A client that is not this one neither takes nor frees a seat of its.
LEMMA OtherStep ==
  ASSUME Inv, NEW c \in Clients \ {me}, NEW s \in Seats, OtherClient(c, s)
  PROVE  Inv'
<1> USE DEF screen, input, notice
<1>0. UNCHANGED <<mode, pc, verb, seat, current_seats, feedback, told, ticket, fetched,
                  resized, failbit, excuse>>
  BY DEF OtherClient
<1>t. TypeOK /\ table \in Tables /\ table[s] \in Seat
  BY SeatCases DEF Inv, SessionInv
<1>c. c # me /\ c \in ClientIds /\ c # Nobody
  BY TableAssumption DEF Clients
<1>1. /\ table' \in Tables /\ table' \in [Seats -> Seat]
      /\ \A r \in Seats : table'[r] # table[r] => table[r].owner # me /\ table'[r].owner # me
  <2>1. CASE reserve_seat(table, s, c) /\ table' = [table EXCEPT ![s] = HeldBy(c)]
    <3>0. table[s].status # "Reserved" /\ \A d \in Clients : HeldBy(d).status = "Reserved"
      BY <2>1 DEF reserve_seat, is_available, HeldBy
    <3>1. table[s] = Vacant
      BY <1>t, <3>0, SeatCases
    <3>2. HeldBy(c) \in {Vacant} \cup {HeldBy(d) : d \in Clients}
      BY Zenon
    <3>3. HeldBy(c) \in Seat /\ HeldBy(c).owner # me /\ Vacant.owner # me
      BY <1>c, Me DEF HeldBy, Vacant, Seat, SeatStatus, Owners
    <3> QED
      BY <1>t, <2>1, <3>1, <3>2, <3>3 DEF Tables, TypeOK
  <2>2. CASE cancel_seat(table, s, c) /\ table' = [table EXCEPT ![s] = Vacant]
    <3>1. table[s].owner = c
      BY <2>2 DEF cancel_seat
    <3>2. Vacant \in Seat /\ Vacant.owner # me
      BY Me DEF Vacant, Seat, SeatStatus, Owners
    <3> QED
      BY <1>c, <1>t, <2>2, <3>1, <3>2 DEF Tables, TypeOK
  <2> QED
    BY <2>1, <2>2 DEF OtherClient
<1>2. \A r \in Seats : /\ (table'[r].owner = me <=> table[r].owner = me)
                       /\ table[r] = HeldBy(me) => table'[r] = HeldBy(me)
  BY <1>1 DEF HeldBy
<1>3. SessionInv'
  BY <1>0, <1>1, <1>t DEF Inv, SessionInv, TypeOK
<1>4. MapInv'
  <2>1. \A r \in DOMAIN fetched : r \in Seats
    BY <1>t DEF TypeOK
  <2> QED
    BY <1>0, <1>2, <2>1 DEF Inv, MapInv, ShownMine, Mine
<1>5. TicketInv'
  <2>1. ticket # NoSeat => ticket \in Seats
    BY <1>t DEF TypeOK, SeatIds
  <2> QED
    BY <1>0, <1>2, <2>1 DEF Inv, TicketInv
<1>6. ToldInv'
  <2>1. told.seat # NoSeat => told.seat \in Seats
    BY <1>t DEF TypeOK, Told, SeatIds
  <2> QED
    BY <1>0, <1>2, <2>1 DEF Inv, ToldInv, Mine
<1>7. ExcuseInv'
  BY <1>0 DEF Inv, ExcuseInv
<1> QED
  BY <1>3, <1>4, <1>5, <1>6, <1>7 DEF Inv

\* Facts about what a redrawn screen holds.
LEMMA FreshScreen ==
  /\ \E D \in SUBSET Seats : Nothing \in [D -> Shown]
  /\ DOMAIN Nothing = {}
  /\ NothingTold \in Told /\ NothingTold.seat = NoSeat /\ NoSeat \in SeatIds
  /\ \A v : SuccessFeedback(v) \in Feedback
  /\ \A t \in Tables : DisplayAll(t) \in [Seats -> Shown]
  /\ LoopStart \in {"read", "top"}
<1>1. Nothing \in [{} -> Shown] /\ DOMAIN Nothing = {}
  BY DEF Nothing
<1>2. \A t \in Tables : DisplayAll(t) \in [Seats -> Shown]
  BY DisplayHonest DEF DisplayAll
<1>3. \A v : SuccessFeedback(v) \in Feedback
  BY DEF SuccessFeedback, Feedback
<1>4. NothingTold \in Told /\ NothingTold.seat = NoSeat /\ NoSeat \in SeatIds
  BY TableAssumption DEF NothingTold, Told, SeatIds
<1> QED
  BY <1>1, <1>2, <1>3, <1>4 DEF LoopStart

\* The map the preview draws shows its own table.
LEMMA DrawnHonest ==
  ASSUME NEW t \in Tables
  PROVE  \A s \in Seats : Token(DisplayAll(t)[s]) = "MINE" <=> t[s].owner = me
  BY DisplayHonest DEF DisplayAll

\* LIST and CLEAR begin to fetch, or redraw the preview.
LEMMA ListStep ==
  ASSUME Inv, NEW l \in Lines, List(l)
  PROVE  Inv'
<1> USE DEF screen, input, notice, Goto
<1>0. /\ pc = "read" /\ verb' = l.verb /\ l.verb \in {"List", "Clear"} /\ fetched' = Nothing
      /\ UNCHANGED <<mode, table, seat, resized, failbit, excuse>>
  BY DEF List
<1>t. TypeOK /\ table \in Tables
  BY DEF Inv, SessionInv
<1>1. CASE mode = "preview"
  <2>1. /\ pc' = "top" /\ current_seats' = DisplayAll(table)
        /\ feedback' = SuccessFeedback(l.verb) /\ ticket' = NoSeat /\ told' = NothingTold
    BY <1>1 DEF List, Report
  <2>2. SessionInv'
    <3>1. TypeOK'
      BY <1>0, <1>t, <2>1, FreshScreen DEF TypeOK, PCs, Verbs
    <3> QED
      BY <1>0, <1>t, <2>1, <3>1 DEF SessionInv
  <2>3. MapInv'
    BY <1>0, <1>t, <2>1, DrawnHonest DEF MapInv, ShownMine, Mine
  <2>4. TicketInv' /\ ToldInv'
    BY <2>1, FreshScreen DEF TicketInv, ToldInv
  <2>5. ExcuseInv'
    BY <1>0, <2>1 DEF Inv, ExcuseInv
  <2> QED
    BY <2>2, <2>3, <2>4, <2>5 DEF Inv
<1>2. CASE mode # "preview"
  <2>1. pc' = "fetch" /\ UNCHANGED <<current_seats, feedback, told, ticket>>
    BY <1>2 DEF List
  <2>2. SessionInv'
    <3>1. TypeOK'
      BY <1>0, <1>t, <2>1, FreshScreen DEF TypeOK, PCs, Verbs
    <3> QED
      BY <1>0, <1>t, <2>1, <3>1 DEF SessionInv
  <2>3. MapInv' /\ TicketInv' /\ ToldInv'
    BY <1>0, <2>1, FreshScreen DEF MapInv, TicketInv, ToldInv
  <2>4. ExcuseInv'
    BY <1>0, <2>1 DEF Inv, ExcuseInv
  <2> QED
    BY <2>2, <2>3, <2>4 DEF Inv
<1> QED
  BY <1>1, <1>2

\* What a request does to the table.
LEMMA RequestTable ==
  ASSUME Inv, Request
  PROVE  /\ table' \in Tables
         /\ ~Granted \/ verb = "Status" => table' = table
         /\ Granted => seat \in Seats
         /\ Granted /\ verb = "Reserve" => table'[seat] = HeldBy(me)
<1>0. pc = "request" /\ table' = NewTableAfter
  BY DEF Request, Goto
<1>1. table \in Tables /\ verb \in SeatCommands
  BY <1>0 DEF Inv, SessionInv
<1>2. Granted => seat \in Seats
  BY DEF Granted, has_seat, reserve_seat, cancel_seat
<1>3. ~Granted \/ verb = "Status" => table' = table
  BY <1>0 DEF NewTableAfter
<1>4. ASSUME Granted, verb # "Status"
      PROVE  table' \in Tables /\ (verb = "Reserve" => table'[seat] = HeldBy(me))
  <2>1. table' = [table EXCEPT ![seat] = IF verb = "Reserve" THEN HeldBy(me) ELSE Vacant]
    BY <1>0, <1>4 DEF NewTableAfter
  <2>2. HeldBy(me) \in {HeldBy(c) : c \in Clients}
    BY KioskAssumption, Zenon
  <2> QED
    BY <1>1, <1>2, <1>4, <2>1, <2>2 DEF Tables
<1> QED
  BY <1>1, <1>2, <1>3, <1>4

\* A request and its answer: the screen says what the server did, or the map
\* is fetched before it says anything.
LEMMA RequestStep ==
  ASSUME Inv, Request
  PROVE  Inv'
<1> USE DEF screen, input, notice, Goto
<1>0. /\ pc = "request" /\ pc' = (IF Refetch THEN "fetch" ELSE LoopStart)
      /\ fetched' = Nothing
      /\ current_seats' = IF mode = "preview" THEN DisplayAll(table') ELSE current_seats
      /\ UNCHANGED <<mode, verb, seat, resized, failbit, excuse>>
  BY DEF Request
<1>t. TypeOK /\ table \in Tables /\ verb \in SeatCommands
  BY <1>0 DEF Inv, SessionInv
<1>1. /\ table' \in Tables
      /\ ~Granted \/ verb = "Status" => table' = table
      /\ Granted => seat \in Seats
      /\ Granted /\ verb = "Reserve" => table'[seat] = HeldBy(me)
  BY RequestTable
<1>2. table' \in [Seats -> Seat]
  BY <1>1, SeatCases DEF Tables
<1>3. pc' \in PCs \ {"prompt", "request", "failed", "ended"}
  BY <1>0, FreshScreen DEF PCs
<1>4. current_seats' \in [Seats -> Shown]
  BY <1>0, <1>1, <1>t, FreshScreen DEF TypeOK
<1>5. feedback' \in Feedback /\ told' \in Told /\ ticket' \in SeatIds
  <2>1. CASE Refetch
    BY <2>1, <1>t DEF Request, TypeOK
  <2>2. CASE ~Refetch /\ Granted
    <3>1. seat \in SeatIds
      BY <1>t DEF TypeOK
    <3>2. [seat |-> seat, owner |-> format_single_seat(Display(table[seat]))] \in Told
      BY <1>1, <1>t, <2>2, <3>1, DisplayHonest DEF Told
    <3>3. feedback' \in Feedback
      BY <2>2, FreshScreen DEF Request, Success
    <3>4. told' \in Told
      BY <2>2, <3>2, FreshScreen DEF Request, Success
    <3>5. ticket' \in SeatIds
      BY <2>2, <3>1, FreshScreen DEF Request, Success, TicketFor
    <3> QED
      BY <3>3, <3>4, <3>5
  <2>3. CASE ~Refetch /\ ~Granted
    BY <2>3, FreshScreen DEF Request, Report, Feedback
  <2> QED
    BY <2>1, <2>2, <2>3
<1>6. SessionInv'
  <2>1. TypeOK'
    BY <1>0, <1>2, <1>3, <1>4, <1>5, <1>t, FreshScreen DEF TypeOK
  <2> QED
    BY <1>1, <1>3, <2>1 DEF SessionInv
<1>7. ExcuseInv'
  BY <1>0, <1>3 DEF Inv, ExcuseInv
<1>8. MapInv' /\ TicketInv' /\ ToldInv'
  <2>1. CASE Refetch
    <3>1. Granted /\ pc' = "fetch" /\ DOMAIN fetched' = {}
      BY <1>0, <2>1, FreshScreen DEF Refetch
    <3> QED
      BY <1>0, <1>1, <3>1 DEF MapInv, TicketInv, ToldInv
  <2>2. CASE ~Refetch
    <3>0. pc' # "fetch"
      BY <1>0, <2>2, FreshScreen
    <3>1. MapInv'
      <4>1. CASE mode = "preview"
        BY <1>0, <1>1, <3>0, <4>1, DrawnHonest DEF MapInv, ShownMine, Mine
      <4>2. CASE mode = "kiosk"
        <5>1. table' = table /\ current_seats' = current_seats
          BY <1>0, <1>1, <2>2, <4>2 DEF Refetch
        <5> QED
          BY <1>0, <3>0, <5>1 DEF Inv, MapInv, ShownMine, Mine
      <4>3. CASE mode = "lines"
        BY <1>0, <3>0, <4>3 DEF MapInv
      <4> QED
        BY <4>1, <4>2, <4>3, <1>t DEF TypeOK
    <3>2. TicketInv'
      <4>1. CASE Granted
        <5>1. ticket' = TicketFor(verb, seat) /\ feedback' = SuccessFeedback(verb)
          BY <2>2, <4>1 DEF Request, Success
        <5>2. ticket' # NoSeat => verb = "Reserve" /\ ticket' = seat /\ feedback' = "SUCCESS"
          BY <5>1 DEF TicketFor, SuccessFeedback
        <5> QED
          BY <1>1, <3>0, <4>1, <5>2 DEF TicketInv
      <4>2. CASE ~Granted
        BY <2>2, <3>0, <4>2 DEF Request, Report, TicketInv
      <4> QED
        BY <4>1, <4>2
    <3>3. ToldInv'
      <4>1. CASE Granted /\ verb = "Status"
        <5>1. told' = [seat |-> seat, owner |-> format_single_seat(Display(table[seat]))]
          BY <2>2, <4>1 DEF Request, Success
        <5>2. table' = table /\ seat \in Seats
          BY <1>1, <4>1
        <5>3. told'.seat = seat /\ (told'.owner = me <=> table[seat].owner = me)
          BY <1>t, <5>1, <5>2, DisplayHonest
        <5> QED
          BY <5>2, <5>3 DEF ToldInv, Mine
      <4>2. CASE ~(Granted /\ verb = "Status")
        <5>1. told' = NothingTold
          BY <2>2, <4>2 DEF Request, Success, Report
        <5> QED
          BY <5>1, FreshScreen DEF ToldInv
      <4> QED
        BY <4>1, <4>2
    <3> QED
      BY <3>1, <3>2, <3>3
  <2> QED
    BY <2>1, <2>2
<1> QED
  BY <1>6, <1>7, <1>8 DEF Inv

\* fetch_seat_map: one seat more, as the server has it now.
LEMMA FetchStep ==
  ASSUME Inv, NEW s \in Seats, FetchSeat(s)
  PROVE  Inv'
<1> USE DEF screen, input, notice
<1>0. /\ pc = "fetch" /\ s \notin DOMAIN fetched
      /\ fetched' = [r \in DOMAIN fetched \cup {s} |->
                       IF r = s THEN Display(table[s]) ELSE fetched[r]]
      /\ UNCHANGED <<mode, table, pc, verb, seat, current_seats, feedback, told, ticket,
                     resized, failbit, excuse>>
  BY DEF FetchSeat
<1>t. TypeOK /\ table \in Tables
  BY DEF Inv, SessionInv
<1>1. PICK D \in SUBSET Seats : fetched \in [D -> Shown]
  BY <1>t DEF TypeOK
<1>2. /\ Display(table[s]) \in Shown
      /\ Token(Display(table[s])) = "MINE" <=> table[s].owner = me
  BY <1>t, DisplayHonest
<1>3. D \cup {s} \in SUBSET Seats /\ fetched' \in [D \cup {s} -> Shown]
  BY <1>0, <1>1, <1>2
<1>4. SessionInv'
  BY <1>0, <1>3, <1>t DEF Inv, SessionInv, TypeOK
<1>5. MapInv'
  <2>1. \A r \in DOMAIN fetched' :
          fetched'[r] = IF r = s THEN Display(table[s]) ELSE fetched[r]
    BY <1>0
  <2>2. \A r \in DOMAIN fetched' : r # s => r \in DOMAIN fetched
    BY <1>0
  <2> QED
    BY <1>0, <1>2, <2>1, <2>2 DEF Inv, MapInv, ShownMine, Mine
<1>6. TicketInv' /\ ToldInv' /\ ExcuseInv'
  BY <1>0 DEF Inv, TicketInv, ToldInv, ExcuseInv
<1> QED
  BY <1>4, <1>5, <1>6 DEF Inv

\* The screen is drawn from the map when every seat has been asked for.
LEMMA ShowStep ==
  ASSUME Inv, ShowMap
  PROVE  Inv'
<1> USE DEF input, Goto
<1>0. /\ pc = "fetch" /\ pc' = LoopStart /\ DOMAIN fetched = Seats
      /\ current_seats' = (IF mode = "lines" THEN current_seats ELSE fetched)
      /\ feedback' = SuccessFeedback(verb) /\ ticket' = TicketFor(verb, seat)
      /\ told' = NothingTold /\ fetched' = Nothing
      /\ UNCHANGED <<mode, table, verb, seat, resized, failbit, excuse>>
  BY DEF ShowMap, Report
<1>t. TypeOK /\ table \in Tables
  BY DEF Inv, SessionInv
<1>1. pc' \in {"read", "top"}
  BY <1>0, FreshScreen
<1>2. fetched \in [Seats -> Shown]
  BY <1>0, <1>t DEF TypeOK
<1>3. SessionInv'
  <2>1. ticket' \in SeatIds
    BY <1>0, <1>t, FreshScreen DEF TypeOK, TicketFor
  <2>2. feedback' \in Feedback
    BY <1>0, FreshScreen
  <2>3. TypeOK'
    BY <1>0, <1>1, <1>2, <1>t, <2>1, <2>2, FreshScreen DEF TypeOK, PCs
  <2> QED
    BY <1>0, <1>1, <1>t, <2>3 DEF SessionInv
<1>4. MapInv'
  BY <1>0, <1>1 DEF Inv, MapInv, ShownMine, Mine
<1>5. TicketInv'
  <2>1. ticket' # NoSeat => verb = "Reserve" /\ ticket' = seat /\ feedback' = "SUCCESS"
    BY <1>0 DEF TicketFor, SuccessFeedback
  <2> QED
    BY <1>0, <1>1, <2>1 DEF Inv, TicketInv
<1>6. ToldInv'
  BY <1>0, FreshScreen DEF ToldInv
<1>7. ExcuseInv'
  BY <1>0, <1>1 DEF Inv, ExcuseInv
<1> QED
  BY <1>3, <1>4, <1>5, <1>6, <1>7 DEF Inv

-----------------------------------------------------------------------------
(* The theorems.                                                           *)

\* The session starts with an empty screen over an honest table.
LEMMA InitInv == Init => Inv
<1> SUFFICES ASSUME Init PROVE Inv
  OBVIOUS
<1>1. table \in Tables
  <2>1. NewTable \in Tables
    BY DEF NewTable, Tables
  <2>2. DemoTable \in Tables
    BY KioskAssumption DEF Tables
  <2> QED
    BY <2>1, <2>2 DEF Init
<1>2. table \in [Seats -> Seat]
  BY <1>1, SeatCases DEF Tables
<1>3. pc \in {"fetch", "read", "top"} /\ mode \in {"kiosk", "lines", "preview"}
  BY DEF Init
<1>4. current_seats \in [Seats -> Shown]
  BY <1>1, FreshScreen DEF Init
<1>5. TypeOK
  <2>1. resized \in BOOLEAN /\ failbit \in BOOLEAN
    BY Zenon DEF Init
  <2>2. feedback \in Feedback /\ verb \in Verbs /\ seat \in SeatIds /\ ticket \in SeatIds
    BY FreshScreen DEF Init, Feedback, Verbs
  <2> QED
    BY <1>2, <1>3, <1>4, <2>1, <2>2, FreshScreen DEF Init, TypeOK, PCs
<1>6. MapInv
  BY <1>1, DrawnHonest, FreshScreen DEF Init, MapInv, ShownMine, Mine
<1>7. TicketInv /\ ToldInv
  BY FreshScreen DEF Init, TicketInv, ToldInv
<1>8. ExcuseInv
  BY <1>3 DEF Init, ExcuseInv
<1> QED
  BY <1>1, <1>3, <1>5, <1>6, <1>7, <1>8 DEF Inv, SessionInv

\* The inductive invariant of a session.
THEOREM SessionHolds == Spec => []Inv
<1>1. Inv /\ [Next]_vars => Inv'
  <2>1. ASSUME Inv, Next PROVE Inv'
    BY <2>1, LoopStep, LineStep, PromptStep, OtherStep, ListStep, RequestStep, FetchStep, ShowStep
    DEF Next, Handle
  <2>2. ASSUME Inv, UNCHANGED vars PROVE Inv'
    BY <2>2
    DEF vars, Inv, SessionInv, TypeOK, MapInv, TicketInv, ToldInv, ExcuseInv, ShownMine, Mine
  <2> QED
    BY <2>1, <2>2
<1> QED
  BY <1>1, InitInv, PTL DEF Spec

\* Type correctness of the user interface.
THEOREM TypeCorrect == Spec => []TypeOK
  BY SessionHolds, PTL DEF Inv, SessionInv

\* A ticket stub on the screen stands for a reservation the server has.
THEOREM TicketsAreGood == Spec => []TicketHonest
<1>1. Inv => TicketHonest
  BY DEF Inv, TicketInv, TicketHonest, AtRest
<1> QED
  BY <1>1, SessionHolds, PTL

\* A map put together from answers of different moments still marks exactly
\* this client's seats: others can neither take nor free them.
THEOREM MapShowsOwnSeats == Spec => []OwnSeatsShown
<1>1. Inv => OwnSeatsShown
  BY DEF Inv, MapInv, OwnSeatsShown, AtRest, ShownMine, Mine
<1> QED
  BY <1>1, SessionHolds, PTL

\* A STATUS message does not outlive what it says of this client.
THEOREM StatusStaysTrue == Spec => []StatusHonest
<1>1. Inv => StatusHonest
  BY DEF Inv, ToldInv, StatusHonest, AtRest, Mine
<1> QED
  BY <1>1, SessionHolds, PTL

\* The session ends only by QUIT, at the end of the input, or after a resize
\* in a seat prompt or in line mode.
THEOREM EndIsExcused == Spec => []EndExcused
<1>1. Inv => EndExcused
  BY DEF Inv, ExcuseInv, EndExcused
<1> QED
  BY <1>1, SessionHolds, PTL

-----------------------------------------------------------------------------
(* The LOAD bar.                                                           *)

\* Division with remainder.
LEMMA Quotient ==
  ASSUME NEW n \in Nat, NEW d \in Nat, d > 0
  PROVE  /\ n \div d \in Nat
         /\ d * (n \div d) <= n
         /\ n < d * (n \div d) + d
  OBVIOUS

\* A product grows with its factor.
LEMMA ProductGrows ==
  ASSUME NEW a \in Nat, NEW b \in Nat, NEW k \in Nat, a <= b
  PROVE  k * a \in Nat /\ k * b \in Nat /\ k * a <= k * b
  OBVIOUS

\* Every seat of a map is counted once, free or not.
LEMMA SeatsCounted ==
  ASSUME NEW m \in [Seats -> Shown]
  PROVE  /\ available_count(m) \in Nat /\ reserved_count(m) \in Nat
         /\ Cardinality(Seats) \in Nat
         /\ total_seats(m) = Cardinality(Seats)
         /\ IsFiniteSet({s \in Seats : m[s].status # "Available"})
         /\ reserved_count(m) = Cardinality({s \in Seats : m[s].status # "Available"})
         /\ \A s \in Seats : m[s].status = "Available" => available_count(m) > 0
<1> DEFINE A == {s \in Seats : m[s].status = "Available"}
           R == {s \in Seats : m[s].status # "Available"}
<1>0. /\ IsFiniteSet(Seats) /\ A \in SUBSET Seats /\ R \in SUBSET Seats
      /\ A \cap R = {} /\ A \cup R = Seats
  BY KioskAssumption
<1>1. available_count(m) = Cardinality(A) /\ reserved_count(m) = Cardinality(R)
  BY DEF available_count, reserved_count
<1> HIDE DEF A, R
<1>2. IsFiniteSet(A) /\ IsFiniteSet(R)
  BY <1>0, FS_Subset
<1>3. Cardinality(A) \in Nat /\ Cardinality(R) \in Nat /\ Cardinality(Seats) \in Nat
  BY <1>0, <1>2, FS_CardinalityType
<1>4. Cardinality(Seats) = Cardinality(A) + Cardinality(R)
  <2>1. Cardinality(A \cup R) = Cardinality(A) + Cardinality(R) - Cardinality(A \cap R)
    BY <1>2, FS_Union
  <2>2. Cardinality(A \cap R) = 0
    BY <1>0, FS_EmptySet
  <2>3. Cardinality(A \cup R) = Cardinality(Seats)
    BY <1>0, Zenon
  <2>4. Cardinality(A) + Cardinality(R) - 0 = Cardinality(A) + Cardinality(R)
    BY <1>3
  <2> QED
    BY <2>1, <2>2, <2>3, <2>4
<1>5. A # {} => Cardinality(A) > 0
  BY <1>2, <1>3, FS_EmptySet
<1>6. \A s \in Seats : m[s].status = "Available" => A # {}
  BY DEF A
<1> QED
  BY <1>1, <1>2, <1>3, <1>4, <1>5, <1>6 DEF total_seats, R

\* The number of segments rounds the reserved share of the bar.
LEMMA BarRounds ==
  ASSUME NEW m \in [Seats -> Shown], NEW own \in Nat, own <= reserved_count(m)
  PROVE  LET t == Cardinality(Seats)
             f == filled_segments(m)
         IN /\ 2 * t * f + t >= 2 * kBarWidth * own
            /\ f = kBarWidth => \A s \in Seats : m[s].status # "Available"
<1> DEFINE t == Cardinality(Seats)
           k == kBarWidth
           r == reserved_count(m)
           a == available_count(m)
           f == filled_segments(m)
<1>1. /\ a \in Nat /\ r \in Nat /\ t \in Nat /\ k \in Nat /\ t < 2 * k
      /\ total_seats(m) = t /\ t = a + r
      /\ \A s \in Seats : m[s].status = "Available" => a > 0
  BY SeatsCounted, KioskAssumption DEF total_seats
<1>2. f = IF t = 0 THEN 0 ELSE (2 * r * k + t) \div (2 * t)
  BY <1>1 DEF filled_segments
<1>o. own <= r
  OBVIOUS
<1> HIDE DEF t, k, r, a, f
<1>3. k * own \in Nat /\ k * r \in Nat /\ k * own <= k * r
  BY <1>1, <1>o, ProductGrows
<1>4. CASE t = 0
  <2>1. f = 0 /\ own = 0 /\ k > 0
    BY <1>1, <1>2, <1>4, <1>o
  <2>2. 2 * t * f + t >= 2 * k * own
    BY <1>1, <1>4, <2>1
  <2> QED
    BY <2>1, <2>2 DEF t, k, f
<1>5. CASE t # 0
  <2>1. 2 * r * k + t = 2 * (k * r) + t /\ 2 * (k * r) + t \in Nat /\ 2 * t \in Nat /\ 2 * t > 0
    BY <1>1, <1>3, <1>5
  <2>2. /\ f \in Nat
        /\ (2 * t) * f <= 2 * (k * r) + t
        /\ 2 * (k * r) + t < (2 * t) * f + 2 * t
    BY <1>2, <1>5, <2>1, Quotient
  <2>3. (2 * t) * f \in Nat
    BY <1>1, <2>2
  <2>4. (2 * t) * f + t >= 2 * (k * own)
    BY <1>1, <1>3, <2>2, <2>3
  <2>5. ASSUME f = k, a > 0 PROVE FALSE
    <3>1. k * r <= k * (t - 1) /\ k * (t - 1) = k * t - k /\ k * t \in Nat
      <4>1. t - 1 \in Nat /\ r <= t - 1
        BY <1>1, <2>5
      <4>2. k * r <= k * (t - 1)
        BY <1>1, <4>1, ProductGrows
      <4> QED
        BY <1>1, <4>2
    <3>2. (2 * t) * f = 2 * (k * t)
      BY <1>1, <2>5
    <3> QED
      BY <1>1, <1>3, <2>2, <3>1, <3>2
  <2>6. 2 * k * own = 2 * (k * own) /\ 2 * t * f = (2 * t) * f
    BY <1>1, <2>2
  <2> QED
    BY <1>1, <2>4, <2>5, <2>6 DEF t, k, f
<1> QED
  BY <1>4, <1>5

\* The LOAD bar accounts for this client's seats to half a segment, and a full
\* bar means a full house: there are fewer than two seats to a segment.
THEOREM LoadIsHonest == Spec => []LoadHonest
<1>1. Inv => LoadHonest
  <2> SUFFICES ASSUME Inv, AtRest, mode # "lines"
               PROVE  LET own   == Cardinality({s \in Seats : table[s].owner = me})
                          total == Cardinality(Seats)
                      IN /\ 2 * total * filled_segments(current_seats) + total >= 2 * kBarWidth * own
                         /\ filled_segments(current_seats) = kBarWidth =>
                              \A s \in Seats : Token(current_seats[s]) # "FREE"
    BY DEF LoadHonest
  <2> DEFINE O == {s \in Seats : table[s].owner = me}
             R == {s \in Seats : current_seats[s].status # "Available"}
  <2>1. current_seats \in [Seats -> Shown]
    BY DEF Inv, SessionInv, TypeOK
  <2>2. \A s \in Seats : table[s].owner = me => Token(current_seats[s]) = "MINE"
    BY DEF Inv, MapInv, AtRest, ShownMine, Mine
  <2>3. \A s \in Seats : /\ Token(current_seats[s]) = "MINE" => current_seats[s].status # "Available"
                         /\ Token(current_seats[s]) = "FREE" => current_seats[s].status = "Available"
    BY DEF Token
  <2>4. O \in SUBSET R
    BY <2>2, <2>3
  <2>5. IsFiniteSet(R) /\ reserved_count(current_seats) = Cardinality(R)
    BY <2>1, SeatsCounted
  <2> HIDE DEF O, R
  <2>6. Cardinality(O) \in Nat /\ Cardinality(O) <= reserved_count(current_seats)
    BY <2>4, <2>5, FS_Subset, FS_CardinalityType
  <2>7. /\ 2 * Cardinality(Seats) * filled_segments(current_seats) + Cardinality(Seats)
             >= 2 * kBarWidth * Cardinality(O)
        /\ filled_segments(current_seats) = kBarWidth =>
             \A s \in Seats : current_seats[s].status # "Available"
    BY <2>1, <2>6, BarRounds
  <2> QED
    BY <2>3, <2>7 DEF O
<1> QED
  BY <1>1, SessionHolds, PTL
=============================================================================
