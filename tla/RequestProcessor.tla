-------------------------- MODULE RequestProcessor --------------------------
(***************************************************************************)
(* RequestProcessor::process_request executed by several worker threads on *)
(* one ReservationTable.  A thread's program counter stops wherever        *)
(* another thread can run: at the mutex, and between any two accesses to a *)
(* seat's fields.  With --no-sync the mutex is skipped and the accesses    *)
(* race; the compiler may then order the two loads of a seat copy and the  *)
(* two stores of an update as it likes, which is why a copy and an update  *)
(* take the fields one by one in either order.                             *)
(*                                                                         *)
(*   idle -> lock -> check -> guard -> [guard_owner ->] update ->          *)
(*           [update_owner ->] write -> unlock -> respond -> idle          *)
(*                                                                         *)
(* The random delay between CHECK and UPDATE is the time a worker spends   *)
(* at "update".                                                            *)
(***************************************************************************)
EXTENDS ReservationTable

CONSTANTS
  Workers,          \* worker thread ids
  Synchronized,     \* config_.synchronization_enabled
  Commands          \* the commands the clients use

ASSUME ProcessorAssumption ==
  /\ Nobody \notin Workers
  /\ Synchronized \in BOOLEAN
  /\ Commands \subseteq SeatCommands \cup OtherCommands

VARIABLES
  status,           \* seats_[s].status_
  owner,            \* seats_[s].owner_client_id_
  mutex,            \* reservation_mutex_: the worker holding it
  pc,               \* where each worker is
  req,              \* the request it works on
  snap,             \* current_seat / snapshot, its private copy of the seat
  todo,             \* fields its copy or its update has not reached yet
  success,          \* the outcome it will report
  tickets           \* history: clients told SUCCESS and not cancelled since

local == <<pc, req, snap, todo, success>>
vars  == <<status, owner, mutex, pc, req, snap, todo, success, tickets>>

Fields    == {"status", "owner"}
PCs       == {"idle", "lock", "check", "guard", "guard_owner", "update",
              "update_owner", "write", "unlock", "respond"}
NoRequest == [command |-> "Unknown", client |-> kInvalidClientId, seat |-> NoSeat]

\* Every request of a client that uses only the given commands.
Offered == {r \in Requests : r.command \in Commands}

Init ==
  /\ status  = [s \in Seats |-> Vacant.status]
  /\ owner   = [s \in Seats |-> Vacant.owner]
  /\ mutex   = Nobody
  /\ pc      = [w \in Workers |-> "idle"]
  /\ req     = [w \in Workers |-> NoRequest]
  /\ snap    = [w \in Workers |-> Vacant]
  /\ todo    = [w \in Workers |-> {}]
  /\ success = [w \in Workers |-> FALSE]
  /\ tickets = [s \in Seats |-> {}]

Goto(w, at, next) ==
  /\ pc[w] = at
  /\ pc' = [pc EXCEPT ![w] = next]

-----------------------------------------------------------------------------
(* A worker enters process_request; QUIT and unknown commands never touch  *)
(* the table.                                                              *)

Dispatch(w, r) ==
  /\ Goto(w, "idle", "lock")
  /\ req' = [req EXCEPT ![w] = r]
  /\ UNCHANGED <<status, owner, mutex, snap, todo, success, tickets>>

RespondDirectly(w) ==
  /\ Goto(w, "lock", "respond")
  /\ req[w].command \in {"Quit", "Unknown"}
  /\ success' = [success EXCEPT ![w] = (req[w].command = "Quit")]
  /\ UNCHANGED <<status, owner, mutex, req, snap, todo, tickets>>

\* Slip: every worker locks a mutex of its own.
LockPrivate(w) ==
  /\ Goto(w, "lock", "check")
  /\ req[w].command \notin {"Quit", "Unknown"}
  /\ IF Synchronized THEN mutex' = w ELSE UNCHANGED mutex
  /\ todo' = [todo EXCEPT ![w] = Fields]
  /\ UNCHANGED <<status, owner, req, snap, success, tickets>>

\* Slip: STATUS only reads and takes no lock.
LockUnlessStatus(w) ==
  /\ Goto(w, "lock", "check")
  /\ req[w].command \notin {"Quit", "Unknown"}
  /\ IF Synchronized /\ req[w].command # "Status"
       THEN mutex = Nobody /\ mutex' = w
       ELSE UNCHANGED mutex
  /\ todo' = [todo EXCEPT ![w] = Fields]
  /\ UNCHANGED <<status, owner, req, snap, success, tickets>>

\* std::scoped_lock lock(reservation_mutex_), skipped with --no-sync.
Lock(w) ==
  /\ Goto(w, "lock", "check")
  /\ req[w].command \notin {"Quit", "Unknown"}
  /\ IF Synchronized THEN mutex = Nobody /\ mutex' = w ELSE UNCHANGED mutex
  /\ todo' = [todo EXCEPT ![w] = Fields]
  /\ UNCHANGED <<status, owner, req, snap, success, tickets>>

-----------------------------------------------------------------------------
(* CHECK: get_all_seats, whose copy LIST discards, or get_seat.            *)

\* Slip: an unknown seat is reported as a success.
CheckWithoutSeatLenient(w) ==
  /\ Goto(w, "check", "unlock")
  /\ req[w].command = "List" \/ ~has_seat(req[w].seat)
  /\ success' = [success EXCEPT ![w] = TRUE]
  /\ todo' = [todo EXCEPT ![w] = {}]
  /\ UNCHANGED <<status, owner, mutex, req, snap, tickets>>

CheckWithoutSeat(w) ==
  /\ Goto(w, "check", "unlock")
  /\ req[w].command = "List" \/ ~has_seat(req[w].seat)
  /\ success' = [success EXCEPT ![w] = (req[w].command = "List")]
  /\ todo' = [todo EXCEPT ![w] = {}]
  /\ UNCHANGED <<status, owner, mutex, req, snap, tickets>>

AfterCheck(w) == IF req[w].command = "Status" THEN "unlock" ELSE "guard"

\* One field of `return *seat`; the copy is complete when none is left.
CopyField(w, f) ==
  /\ Goto(w, "check", IF todo[w] = {f} THEN AfterCheck(w) ELSE "check")
  /\ req[w].command # "List"
  /\ has_seat(req[w].seat)
  /\ f \in todo[w]
  /\ snap' = [snap EXCEPT ![w] =
       IF f = "status" THEN [status |-> status[req[w].seat], owner |-> @.owner]
                       ELSE [status |-> @.status, owner |-> owner[req[w].seat]]]
  /\ todo' = [todo EXCEPT ![w] = @ \ {f}]
  /\ success' = [success EXCEPT ![w] = (req[w].command = "Status" /\ todo[w] = {f})]
  /\ UNCHANGED <<status, owner, mutex, req, tickets>>

-----------------------------------------------------------------------------
(* ReservationTable::reserve_seat / cancel_seat test the seat, wait for    *)
(* the delay action, and call Seat::reserve / Seat::cancel, which test it  *)
(* again.  A test that fails returns false.                                *)

\* Slip: a failed test is logged and the update goes on.
TestIgnored(w, at, passed, next) ==
  /\ Goto(w, at, next)
  /\ todo' = [todo EXCEPT ![w] = IF next = "write" THEN Fields ELSE {}]
  /\ UNCHANGED <<status, owner, mutex, req, snap, success, tickets>>

Test(w, at, passed, next) ==
  /\ Goto(w, at, IF passed THEN next ELSE "unlock")
  /\ todo' = [todo EXCEPT ![w] = IF passed /\ next = "write" THEN Fields ELSE {}]
  /\ UNCHANGED <<status, owner, mutex, req, snap, success, tickets>>

GuardReserve(w) ==
  /\ req[w].command = "Reserve"
  /\ Test(w, "guard", is_available(status[req[w].seat]), "update")

\* Slip: cancel_seat does not compare the owner.
GuardCancelAnyOwner(w) ==
  /\ req[w].command = "Cancel"
  /\ Test(w, "guard", is_reserved(status[req[w].seat]), "update")

GuardCancel(w) ==
  /\ req[w].command = "Cancel"
  /\ \/ Test(w, "guard", is_reserved(status[req[w].seat]), "guard_owner")
     \/ Test(w, "guard_owner", owner[req[w].seat] = req[w].client, "update")

SeatReserve(w) ==
  /\ req[w].command = "Reserve"
  /\ Test(w, "update", SeatAcceptsReserve(status[req[w].seat], req[w].client), "write")

SeatCancel(w) ==
  /\ req[w].command = "Cancel"
  /\ \/ Test(w, "update", is_reserved(status[req[w].seat]), "update_owner")
     \/ Test(w, "update_owner", owner[req[w].seat] = req[w].client, "write")

\* Slips: cancel leaves the owner behind, or introduces a third status;
\* reserve forgets the owner.
NewSeatKeepsOwner(w) ==
  IF req[w].command = "Reserve" THEN HeldBy(req[w].client)
  ELSE [status |-> "Available", owner |-> req[w].client]
NewSeatCancelled(w) ==
  IF req[w].command = "Reserve" THEN HeldBy(req[w].client)
  ELSE [status |-> "Cancelled", owner |-> Nobody]
NewSeatWithoutOwner(w) ==
  IF req[w].command = "Reserve" THEN [status |-> "Reserved", owner |-> Nobody] ELSE Vacant

\* What Seat::reserve or Seat::cancel stores.
NewSeat(w) == IF req[w].command = "Reserve" THEN HeldBy(req[w].client) ELSE Vacant

\* One of the two assignments; `return true` follows the second.
WriteField(w, f) ==
  LET s    == req[w].seat
      c    == req[w].client
      last == todo[w] = {f}
  IN /\ Goto(w, "write", IF last THEN "unlock" ELSE "write")
     /\ f \in todo[w]
     /\ status' = IF f = "status" THEN [status EXCEPT ![s] = NewSeat(w).status] ELSE status
     /\ owner' = IF f = "owner" THEN [owner EXCEPT ![s] = NewSeat(w).owner] ELSE owner
     /\ todo' = [todo EXCEPT ![w] = @ \ {f}]
     /\ success' = [success EXCEPT ![w] = last]
     /\ tickets' = IF ~last THEN tickets
                   ELSE [tickets EXCEPT ![s] =
                           IF req[w].command = "Reserve" THEN @ \cup {c} ELSE @ \ {c}]
     /\ UNCHANGED <<mutex, req, snap>>

-----------------------------------------------------------------------------
\* Slip: unlock by hand, forgotten on the paths that fail.
UnlockOnSuccess(w) ==
  /\ Goto(w, "unlock", "respond")
  /\ IF Synchronized /\ success[w] THEN mutex' = Nobody ELSE UNCHANGED mutex
  /\ UNCHANGED <<status, owner, req, snap, todo, success, tickets>>

\* The scoped_lock's destructor, on every path out of the critical section.
Unlock(w) ==
  /\ Goto(w, "unlock", "respond")
  /\ IF Synchronized THEN mutex' = Nobody ELSE UNCHANGED mutex
  /\ UNCHANGED <<status, owner, req, snap, todo, success, tickets>>

\* `return response`; the locals go out of scope.
Respond(w) ==
  /\ Goto(w, "respond", "idle")
  /\ req'     = [req EXCEPT ![w] = NoRequest]
  /\ snap'    = [snap EXCEPT ![w] = Vacant]
  /\ success' = [success EXCEPT ![w] = FALSE]
  /\ UNCHANGED <<status, owner, mutex, todo, tickets>>

\* The response a worker past its critical section sends.
Response(w) ==
  IF ~success[w] THEN Failure
  ELSE CASE req[w].command = "Status"  -> Seen(snap[w])
         [] req[w].command = "Reserve" -> Booked(req[w].client)
         [] OTHER -> Answer("Success")

Step(w) ==
  \/ RespondDirectly(w)
  \/ Lock(w)
  \/ CheckWithoutSeat(w)
  \/ \E f \in Fields : CopyField(w, f) \/ WriteField(w, f)
  \/ GuardReserve(w)
  \/ GuardCancel(w)
  \/ SeatReserve(w)
  \/ SeatCancel(w)
  \/ Unlock(w)
  \/ Respond(w)

Next == \E w \in Workers : Step(w) \/ \E r \in Offered : Dispatch(w, r)

\* A worker inside process_request keeps running whenever it can; std::mutex
\* promises no order among the waiters, so nothing stronger is assumed.
Fairness == \A w \in Workers : WF_vars(Step(w))

Spec == Init /\ [][Next]_vars /\ Fairness

-----------------------------------------------------------------------------
(* Properties.                                                             *)

\* Seats and workers are in states the code knows: a seat is Available or
\* Reserved, and its owner is a client id or nobody.
TypeOK ==
  /\ status \in [Seats -> SeatStatus]
  /\ owner \in [Seats -> Owners]
  /\ mutex \in Workers \cup {Nobody}
  /\ pc \in [Workers -> PCs]
  /\ req \in [Workers -> Requests]
  /\ snap \in [Workers -> Seat]
  /\ todo \in [Workers -> SUBSET Fields]
  /\ success \in [Workers -> BOOLEAN]
  /\ tickets \in [Seats -> SUBSET ClientIds]

\* Two clients are never both left believing that they own the same seat:
\* between the SUCCESS of a RESERVE and that of its CANCEL no other client
\* is told SUCCESS for that seat.
NoDoubleBooking ==
  \A s \in Seats : \A c, d \in tickets[s] : c = d

\* Worker w is storing into seat s.
Writing(w, s) == pc[w] = "write" /\ req[w].seat = s

\* A seat nobody is storing into is reserved exactly when somebody holds a
\* ticket for it, and its owner is such a client (Seat's two fields agree
\* with each other and with what the clients were told).
OwnerHoldsTicket ==
  \A s \in Seats :
    (\A w \in Workers : ~Writing(w, s)) =>
      /\ is_reserved(status[s]) <=> tickets[s] # {}
      /\ is_reserved(status[s]) => owner[s] \in tickets[s]
      /\ is_available(status[s]) => owner[s] = Nobody

\* What CHECK saw is still so when the update is decided: a valid client that
\* was told AVAILABLE in the CHECK step gets the seat, and one whose ownership
\* was verified can cancel, so the "CONFLICT / DOUBLE BOOKING" line is not
\* logged for it.
CheckedValuesHold ==
  \A w \in Workers :
    pc[w] \in {"unlock", "respond"} /\ has_seat(req[w].seat) =>
      /\ (req[w].command = "Reserve" /\ req[w].client # kInvalidClientId) =>
           (success[w] <=> is_available(snap[w].status))
      /\ req[w].command = "Cancel" =>
           (success[w] <=> snap[w] = HeldBy(req[w].client))

\* A STATUS answer shows a seat as it was at some moment: never RESERVED
\* without an owner, nor AVAILABLE with one (get_seat copies two fields).
StatusNotTorn ==
  \A w \in Workers :
    success[w] /\ req[w].command = "Status" =>
      (is_reserved(snap[w].status) <=> snap[w].owner \in Clients)

\* Every path out of the critical section gives the mutex back, the early
\* returns of reserve_op and cancel_op included.
MutexReleased == \A w \in Workers : (mutex = w) ~> (mutex # w)

\* Every worker waiting for the mutex gets it in the end.
BoundedWaiting == \A w \in Workers : (pc[w] = "lock") ~> (pc[w] # "lock")

\* While nobody cancels, CHECK errs on one side only: a client whose CHECK
\* said ALREADY RESERVED is never told SUCCESS, even when the threads race.
SuccessFollowsCheck ==
  \A w \in Workers :
    success[w] /\ req[w].command = "Reserve" => is_available(snap[w].status)

-----------------------------------------------------------------------------
(* Why the mutex is enough: the inductive invariant.  Everything a worker  *)
(* read under the mutex is still so while it holds it, and a seat no       *)
(* update is in progress on is vacant or held by its only ticket holder.   *)

CriticalSection == {"check", "guard", "guard_owner", "update", "update_owner", "write", "unlock"}

MutexInv == \A w \in Workers : pc[w] \in CriticalSection => mutex = w

Settled(st, o, holders) ==
  \/ st = "Available" /\ o = Nobody /\ holders = {}
  \/ st = "Reserved" /\ o \in Clients /\ holders = {o}

SeatInv(s) ==
  (\A w \in Workers : ~Writing(w, s)) => Settled(status[s], owner[s], tickets[s])

\* A worker copying a seat: what it has copied is what the seat still holds.
CheckInv(w) ==
  pc[w] = "check" =>
    LET s == req[w].seat
    IN /\ req[w].command \notin {"Quit", "Unknown"}
       /\ todo[w] # {}
       /\ "status" \notin todo[w] => snap[w].status = status[s]
       /\ "owner" \notin todo[w] => snap[w].owner = owner[s]

\* A worker between CHECK and UPDATE: the seat is as it was copied, and the
\* tests passed so far would pass again.
TestInv(w) ==
  pc[w] \in {"guard", "guard_owner", "update", "update_owner"} =>
    LET s == req[w].seat
    IN /\ s \in Seats
       /\ snap[w].status = status[s]
       /\ snap[w].owner = owner[s]
       /\ \/ req[w].command = "Reserve" /\ pc[w] \in {"guard", "update"}
          \/ req[w].command = "Cancel"
       /\ pc[w] \in {"guard_owner", "update_owner"} => status[s] = "Reserved"
       /\ pc[w] \in {"update", "update_owner"} =>
            \/ req[w].command = "Reserve" /\ status[s] = "Available"
            \/ /\ req[w].command = "Cancel"
               /\ status[s] = "Reserved" /\ owner[s] = req[w].client

\* A worker storing into a seat: the fields it has not reached are the ones
\* it copied, the others are new.
WriteInv(w) ==
  pc[w] = "write" =>
    LET s == req[w].seat
        c == req[w].client
    IN /\ s \in Seats
       /\ c # kInvalidClientId
       /\ todo[w] # {}
       /\ \/ /\ req[w].command = "Reserve" /\ tickets[s] = {}
             /\ snap[w].status = "Available" /\ snap[w].owner = Nobody
             /\ status[s] = IF "status" \in todo[w] THEN "Available" ELSE "Reserved"
             /\ owner[s] = IF "owner" \in todo[w] THEN Nobody ELSE c
          \/ /\ req[w].command = "Cancel" /\ tickets[s] = {c}
             /\ snap[w].status = "Reserved" /\ snap[w].owner = c
             /\ status[s] = IF "status" \in todo[w] THEN "Reserved" ELSE "Available"
             /\ owner[s] = IF "owner" \in todo[w] THEN c ELSE Nobody

\* Outside the critical section a worker relies on its own variables only.
ResultInv(w) ==
  /\ pc[w] \notin {"unlock", "respond"} => success[w] = FALSE
  /\ pc[w] \in {"unlock", "respond"} =>
       /\ success[w] /\ req[w].command = "Status" =>
            (is_reserved(snap[w].status) <=> snap[w].owner \in Clients)
       /\ (has_seat(req[w].seat) /\ req[w].command = "Reserve"
              /\ req[w].client # kInvalidClientId) =>
            (success[w] <=> is_available(snap[w].status))
       /\ has_seat(req[w].seat) /\ req[w].command = "Cancel" =>
            (success[w] <=> snap[w].status = "Reserved" /\ snap[w].owner = req[w].client)

\* What one worker at a time in the critical section keeps true.
LockInv ==
  /\ MutexInv
  /\ \A s \in Seats : SeatInv(s)
  /\ \A w \in Workers : CheckInv(w) /\ TestInv(w) /\ WriteInv(w) /\ ResultInv(w)

-----------------------------------------------------------------------------
(* Refinement.  A request takes effect at the step that leads to "unlock": *)
(* until then the table is the one the update has not started on, after it *)
(* the response is fixed.                                                  *)

Uncommitted(s) == \E w \in Workers : Writing(w, s)

\* The seat before the update in progress: Seat::reserve changes a vacant
\* seat, Seat::cancel one of the caller's.
Before(s) ==
  LET w == CHOOSE v \in Workers : Writing(v, s)
  IN IF req[w].command = "Reserve" THEN Vacant ELSE HeldBy(req[w].client)

Committed ==
  [s \in Seats |->
     IF Uncommitted(s) THEN Before(s) ELSE [status |-> status[s], owner |-> owner[s]]]

CallOf(w) ==
  CASE pc[w] = "idle" -> [phase |-> "idle"]
    [] pc[w] \in {"unlock", "respond"} ->
         [phase |-> "done", req |-> req[w], answer |-> Response(w)]
    [] OTHER -> [phase |-> "pending", req |-> req[w]]

Service == INSTANCE ReservationService
             WITH table <- Committed, call <- [w \in Workers |-> CallOf(w)]

\* With the mutex, clients cannot tell the worker threads from a server that
\* executes one request at a time.
ImplementsService == Service!Spec
=============================================================================
