--------------------- MODULE RequestProcessorRefinement ---------------------
(***************************************************************************)
(* With the mutex, RequestProcessor implements ReservationService: the     *)
(* step that leads a worker to "unlock" is the one at which its request    *)
(* takes effect, every other step inside process_request is invisible.     *)
(***************************************************************************)
EXTENDS RequestProcessorProofs

\* The seats as the variables hold them, and the calls as clients see them.
Raw   == [s \in Seats |-> [status |-> status[s], owner |-> owner[s]]]
Calls == [w \in Workers |-> CallOf(w)]

\* Nobody is storing into a seat.
NoWriter == \A w \in Workers : pc[w] # "write"

\* Then the abstract table is the concrete one.
LEMMA CommittedRaw == NoWriter => Committed = Raw
  BY DEF NoWriter, Committed, Raw, Uncommitted, Writing

\* The same in the state after a step.
LEMMA CommittedRawNext == (NoWriter => Committed = Raw)'
  BY CommittedRaw, PTL

\* The abstract table while w is storing into its seat, which it still has as
\* w found it.
WhileWriting(w) ==
  [s \in Seats |->
     IF s = req[w].seat
       THEN IF req[w].command = "Reserve" THEN Vacant ELSE HeldBy(req[w].client)
       ELSE [status |-> status[s], owner |-> owner[s]]]

\* There is only one worker storing, so there is only one such table.
LEMMA CommittedWriting ==
  \A w \in Workers : MutexInv /\ pc[w] = "write" => Committed = WhileWriting(w)
<1> SUFFICES ASSUME NEW w \in Workers, MutexInv, pc[w] = "write"
             PROVE  Committed = WhileWriting(w)
  OBVIOUS
<1>1. \A v \in Workers : \A s \in Seats : Writing(v, s) <=> v = w /\ s = req[w].seat
  BY DEF MutexInv, CriticalSection, Writing
<1>2. ASSUME NEW s \in Seats, s = req[w].seat
      PROVE  /\ Uncommitted(s)
             /\ Before(s) = IF req[w].command = "Reserve" THEN Vacant ELSE HeldBy(req[w].client)
  <2>1. (CHOOSE v \in Workers : Writing(v, s)) = w
    BY <1>1, <1>2
  <2> QED
    BY <1>1, <1>2, <2>1 DEF Uncommitted, Before
<1>3. ASSUME NEW s \in Seats, s # req[w].seat PROVE ~Uncommitted(s)
  BY <1>1, <1>3 DEF Uncommitted
<1> QED
  BY <1>2, <1>3 DEF Committed, WhileWriting

\* The same in the state after a step.
LEMMA CommittedWritingNext ==
  (\A w \in Workers : MutexInv /\ pc[w] = "write" => Committed = WhileWriting(w))'
  BY CommittedWriting, PTL

\* A step of a worker that is not storing leaves the abstract table alone.
LEMMA CommittedUnchanged ==
  ASSUME MutexInv, MutexInv', NEW w \in Workers,
         pc[w] # "write", pc'[w] # "write",
         \A v \in Workers \ {w} : Untouched(v),
         UNCHANGED <<status, owner>>
  PROVE  Committed' = Committed
<1>1. CASE NoWriter
  <2>1. NoWriter'
    BY <1>1 DEF NoWriter, Untouched
  <2> QED
    BY <1>1, <2>1, CommittedRaw, CommittedRawNext DEF Raw
<1>2. ASSUME NEW v \in Workers, pc[v] = "write" PROVE Committed' = Committed
  <2>1. Untouched(v) /\ pc'[v] = "write"
    BY <1>2 DEF Untouched
  <2>2. WhileWriting(v)' = WhileWriting(v)
    BY <2>1 DEF WhileWriting, Untouched
  <2> QED
    BY <1>2, <2>1, <2>2, CommittedWriting, CommittedWritingNext
<1> QED
  BY <1>1, <1>2 DEF NoWriter

\* A step of one worker changes what clients see of that worker only.
LEMMA CallsFrame ==
  ASSUME NEW w \in Workers, \A v \in Workers \ {w} : Untouched(v)
  PROVE  Calls' = [Calls EXCEPT ![w] = CallOf(w)']
<1>1. ASSUME NEW v \in Workers \ {w} PROVE CallOf(v)' = CallOf(v)
  BY <1>1 DEF Untouched, CallOf, Response
<1> QED
  BY <1>1 DEF Calls

\* The abstract service starts where the server starts.
LEMMA RefineInit == Init => Service!Init
<1> SUFFICES ASSUME Init PROVE Service!Init
  OBVIOUS
<1>1. Committed = Raw
  BY CommittedRaw DEF Init, NoWriter
<1>2. Raw = [s \in Seats |-> [status |-> "Available", owner |-> Nobody]]
  BY DEF Init, Raw, Vacant
<1>3. \A w \in Workers : CallOf(w) = [phase |-> "idle"]
  BY DEF Init, CallOf
<1> QED
  BY <1>1, <1>2, <1>3
  DEF Service!Init, Service!NewTable, Service!Vacant, Service!Idle

\* A step that ends nowhere near "write", changes no seat and shows the same
\* call to the client is a stuttering step of the service.
LEMMA Stutter ==
  ASSUME NEW w \in Workers, Committed' = Committed,
         \A v \in Workers \ {w} : Untouched(v), CallOf(w)' = CallOf(w)
  PROVE  UNCHANGED Service!vars
<1>1. Calls' = Calls
  BY CallsFrame DEF Calls
<1> QED
  BY <1>1 DEF Service!vars, Calls

\* A step at which a pending request of w is answered is a Perform.
LEMMA Performs ==
  ASSUME NEW w \in Workers, NEW r \in Requests,
         \A v \in Workers \ {w} : Untouched(v),
         CallOf(w) = Service!Pending(r),
         Committed' = Service!After(Committed, r),
         CallOf(w)' = Service!Done(r, Service!Reply(Committed, r))
  PROVE  Service!Perform(w, r)
<1>1. Calls' = [Calls EXCEPT ![w] = CallOf(w)']
  BY CallsFrame
<1> QED
  BY <1>1 DEF Service!Perform, Calls

\* What is visible of a worker inside process_request.
LEMMA PendingCall ==
  ASSUME NEW w \in Workers, pc[w] \notin {"idle", "unlock", "respond"}
  PROVE  CallOf(w) = Service!Pending(req[w])
  BY DEF CallOf, Service!Pending

\* The step of a worker from inside process_request to "unlock" or "respond"
\* that touches no seat: it must answer what the service answers.
LEMMA AnswerStep ==
  ASSUME TypeOK, MutexInv, MutexInv', NEW w \in Workers,
         pc[w] \notin {"idle", "write", "unlock", "respond"},
         pc'[w] \in {"unlock", "respond"},
         req'[w] = req[w],
         UNCHANGED <<status, owner>>,
         \A v \in Workers \ {w} : Untouched(v),
         Service!After(Committed, req[w]) = Committed,
         Response(w)' = Service!Reply(Committed, req[w])
  PROVE  Service!Next
<1>1. Committed' = Committed
  BY CommittedUnchanged
<1>2. CallOf(w) = Service!Pending(req[w])
  BY PendingCall
<1>3. CallOf(w)' = Service!Done(req[w], Service!Reply(Committed, req[w]))
  BY DEF CallOf, Service!Done
<1>4. req[w] \in Requests
  BY DEF TypeOK
<1>5. Service!Perform(w, req[w])
  BY <1>1, <1>2, <1>3, <1>4, Performs
<1> QED
  BY <1>4, <1>5 DEF Service!Next, Service!Requests, Requests, SeatCommands, OtherCommands,
     SeatIds, Service!SeatCommands, Service!OtherCommands, Service!SeatIds

\* The service and the server take the same requests and give the same
\* answers: the operators of the two modules are the same.
LEMMA SameOperators ==
  /\ Service!Requests = Requests
  /\ Service!Failure = Failure
  /\ Service!Answer("Success") = Answer("Success")
  /\ Service!Vacant = Vacant
  /\ \A c : Service!HeldBy(c) = HeldBy(c) /\ Service!Booked(c) = Booked(c)
  /\ \A x : Service!Seen(x) = Seen(x)
  /\ \A x : Service!has_seat(x) <=> x \in Seats
  BY DEF Service!Requests, Requests, SeatCommands, OtherCommands, SeatIds,
     Service!SeatCommands, Service!OtherCommands, Service!SeatIds,
     Service!Failure, Failure, Service!Answer, Answer, Service!Vacant, Vacant,
     Service!HeldBy, HeldBy, Service!Booked, Booked, Service!Seen, Seen,
     Service!OwnerOrInvalid, OwnerOrInvalid, Service!has_seat

\* Every step of a worker is a step of the service or is invisible.
LEMMA RefineStep ==
  ASSUME Synchronized, TypeOK, LockInv, LockInv', NEW w \in Workers,
         Step(w) \/ \E r \in Offered : Dispatch(w, r)
  PROVE  Service!Next \/ UNCHANGED Service!vars
<1> USE DEF Goto
<1>r. req[w] \in Requests
  BY DEF TypeOK
<1>f. /\ req[w].client \in ClientIds
      /\ req[w].seat \in SeatIds
      /\ req[w].command \in SeatCommands \cup OtherCommands
  BY <1>r, RequestFields
<1>i. /\ MutexInv /\ CheckInv(w) /\ TestInv(w) /\ WriteInv(w) /\ ResultInv(w)
      /\ MutexInv'
      /\ \A s \in Seats : SeatInv(s)
  BY DEF LockInv
<1>v. ASSUME pc[w] \in CriticalSection, pc[w] # "write"
      PROVE  Committed = Raw
  BY <1>v, <1>i, CommittedRaw DEF NoWriter, MutexInv, CriticalSection
<1>1. CASE \E r \in Offered : Dispatch(w, r)
  <2>1. PICK r \in Offered : Dispatch(w, r)
    BY <1>1
  <2>2. \A v \in Workers \ {w} : Untouched(v)
    BY <2>1 DEF Dispatch, Untouched, TypeOK
  <2>3. Committed' = Committed
    BY <2>1, <2>2, <1>i, CommittedUnchanged DEF Dispatch, TypeOK
  <2>4. CallOf(w) = Service!Idle /\ CallOf(w)' = Service!Pending(r)
    BY <2>1 DEF Dispatch, CallOf, Service!Idle, Service!Pending, TypeOK
  <2>5. Calls' = [Calls EXCEPT ![w] = CallOf(w)']
    BY <2>2, CallsFrame
  <2>6. Service!Invoke(w, r)
    BY <2>3, <2>4, <2>5 DEF Service!Invoke, Calls
  <2> QED
    BY <2>6, SameOperators DEF Service!Next, Offered
<1>2. CASE RespondDirectly(w)
  <2>1. \A v \in Workers \ {w} : Untouched(v)
    BY <1>2 DEF RespondDirectly, Untouched, TypeOK
  <2>2. Service!After(Committed, req[w]) = Committed
    BY <1>2 DEF RespondDirectly, Service!After
  <2>3. Response(w)' = Service!Reply(Committed, req[w])
    BY <1>2, SameOperators DEF RespondDirectly, Response, Service!Reply, TypeOK
  <2> QED
    BY <1>2, <2>1, <2>2, <2>3, <1>i, AnswerStep DEF RespondDirectly, TypeOK
<1>3. CASE Lock(w)
  <2>1. \A v \in Workers \ {w} : Untouched(v)
    BY <1>3 DEF Lock, Untouched, TypeOK
  <2>2. Committed' = Committed
    BY <1>3, <2>1, <1>i, CommittedUnchanged DEF Lock, TypeOK
  <2>3. CallOf(w)' = CallOf(w)
    BY <1>3 DEF Lock, CallOf, TypeOK
  <2> QED
    BY <2>1, <2>2, <2>3, Stutter
<1>4. CASE CheckWithoutSeat(w)
  <2>1. \A v \in Workers \ {w} : Untouched(v)
    BY <1>4 DEF CheckWithoutSeat, Untouched, TypeOK
  <2>2. Service!After(Committed, req[w]) = Committed
    BY <1>4, SameOperators
    DEF CheckWithoutSeat, has_seat, Service!After, Service!reserve_seat, Service!cancel_seat
  <2>3. Response(w)' = Service!Reply(Committed, req[w])
    <3>1. CASE req[w].command = "List"
      BY <1>4, <3>1, SameOperators DEF CheckWithoutSeat, Response, Service!Reply, TypeOK
    <3>2. CASE req[w].command # "List"
      <4>1. req[w].command \notin {"List", "Quit", "Unknown"} /\ req[w].seat \notin Seats
        BY <1>4, <3>2, <1>i DEF CheckWithoutSeat, CheckInv, has_seat
      <4>2. Response(w)' = Failure
        BY <1>4, <3>2 DEF CheckWithoutSeat, Response, TypeOK
      <4>3. Service!Reply(Committed, req[w]) = Service!Failure
        BY <4>1, SameOperators DEF Service!Reply, Service!reserve_seat, Service!cancel_seat
      <4> QED
        BY <4>2, <4>3, SameOperators
    <3> QED
      BY <3>1, <3>2
  <2> QED
    BY <1>4, <2>1, <2>2, <2>3, <1>i, AnswerStep DEF CheckWithoutSeat, TypeOK
<1>5. ASSUME NEW f \in Fields, CopyField(w, f)
      PROVE  Service!Next \/ UNCHANGED Service!vars
  <2> DEFINE s == req[w].seat
  <2>0. pc[w] = "check" /\ s \in Seats /\ req'[w] = req[w] /\ status' = status /\ owner' = owner
    BY <1>5 DEF CopyField, has_seat
  <2>1. \A v \in Workers \ {w} : Untouched(v)
    BY <1>5 DEF CopyField, Untouched, TypeOK
  <2>2. CASE pc'[w] # "unlock"
    <3>0. pc'[w] \in {"check", "guard"}
      BY <1>5, <2>2 DEF CopyField, AfterCheck, TypeOK
    <3>1. Committed' = Committed
      BY <2>0, <2>1, <3>0, <1>i, CommittedUnchanged
    <3>2. CallOf(w)' = CallOf(w)
      BY <2>0, <3>0 DEF CallOf
    <3> QED
      BY <2>1, <3>1, <3>2, Stutter
  <2>3. CASE pc'[w] = "unlock"
    <3>1. /\ req[w].command = "Status"
          /\ success'[w] = TRUE
          /\ snap'[w] = [status |-> status[s], owner |-> owner[s]]
      <4>1. req[w].command = "Status" /\ todo[w] = {f}
        BY <1>5, <2>3 DEF CopyField, AfterCheck, TypeOK
      <4>2. success'[w] = TRUE
        BY <1>5, <4>1 DEF CopyField, TypeOK
      <4>3. CASE f = "status"
        BY <1>5, <4>1, <4>3, <2>0, <1>i DEF CopyField, CheckInv, TypeOK
      <4>4. CASE f = "owner"
        BY <1>5, <4>1, <4>4, <2>0, <1>i DEF CopyField, CheckInv, TypeOK
      <4> QED
        BY <4>1, <4>2, <4>3, <4>4 DEF Fields
    <3>2. Service!After(Committed, req[w]) = Committed
      BY <3>1 DEF Service!After
    <3>3. Committed[s] = snap'[w]
      BY <2>0, <3>1, <1>v DEF CriticalSection, Raw
    <3>4. Response(w)' = Service!Reply(Committed, req[w])
      BY <2>0, <3>1, <3>3, SameOperators DEF Response, Service!Reply
    <3> QED
      BY <2>0, <2>1, <2>3, <3>2, <3>4, <1>i, AnswerStep
  <2> QED
    BY <2>2, <2>3
<1>6. ASSUME NEW f \in Fields, WriteField(w, f)
      PROVE  Service!Next \/ UNCHANGED Service!vars
  <2> DEFINE s == req[w].seat
             c == req[w].client
  <2>0. /\ pc[w] = "write" /\ s \in Seats /\ c \in Clients /\ req' = req
        /\ f \in todo[w] /\ req[w].command \in {"Reserve", "Cancel"}
    BY <1>6, <1>i, <1>f DEF WriteField, WriteInv, Clients
  <2>1. \A v \in Workers \ {w} : Untouched(v)
    BY <1>6 DEF WriteField, Untouched, TypeOK
  <2>2. Committed = WhileWriting(w)
    BY <2>0, <1>i, CommittedWriting
  <2>3. \A t \in Seats \ {s} : status'[t] = status[t] /\ owner'[t] = owner[t]
    BY <1>6 DEF WriteField, TypeOK
  <2>4. CASE todo[w] # {f}
    <3>1. pc'[w] = "write"
      BY <1>6, <2>4 DEF WriteField, TypeOK
    <3>2. Committed' = WhileWriting(w)'
      BY <3>1, <1>i, CommittedWritingNext
    <3>3. Committed' = Committed
      BY <2>0, <2>2, <2>3, <3>2 DEF WhileWriting
    <3>4. CallOf(w)' = CallOf(w)
      BY <2>0, <3>1 DEF CallOf
    <3> QED
      BY <2>1, <3>3, <3>4, Stutter
  <2>5. CASE todo[w] = {f}
    <3>1. pc'[w] = "unlock" /\ success'[w] = TRUE
      BY <1>6, <2>5 DEF WriteField, TypeOK
    <3>2. NoWriter'
      BY <2>0, <2>1, <3>1, <1>i DEF NoWriter, Untouched, MutexInv, CriticalSection
    <3>3. Committed' = Raw'
      BY <3>2, CommittedRawNext
    <3>4. CallOf(w) = Service!Pending(req[w])
      BY <2>0, PendingCall
    <3>5. CASE req[w].command = "Reserve"
      <4>1. Committed[s] = Vacant
        BY <2>0, <2>2, <3>5 DEF WhileWriting
      <4>2. Service!reserve_seat(Committed, s, c)
        BY <2>0, <4>1, SameOperators
        DEF Service!reserve_seat, Service!is_available, Service!SeatAcceptsReserve,
            Service!is_reserved, Vacant, Clients
      <4>3. status'[s] = "Reserved" /\ owner'[s] = c
        BY <1>6, <2>0, <2>5, <3>5, <1>i
        DEF WriteField, WriteInv, NewSeat, HeldBy, Fields, TypeOK
      <4>4. Committed' = [Committed EXCEPT ![s] = HeldBy(c)]
        BY <2>0, <2>2, <2>3, <3>3, <4>3 DEF Raw, WhileWriting, HeldBy
      <4>5. Committed' = Service!After(Committed, req[w])
        BY <3>5, <4>2, <4>4, SameOperators DEF Service!After
      <4>6. Service!Reply(Committed, req[w]) = Booked(c)
        BY <3>5, <4>2, SameOperators DEF Service!Reply
      <4>7. CallOf(w)' = Service!Done(req[w], Booked(c))
        BY <2>0, <3>1, <3>5 DEF CallOf, Response, Service!Done
      <4> QED
        BY <1>r, <2>1, <3>4, <4>5, <4>6, <4>7, Performs, SameOperators DEF Service!Next
    <3>6. CASE req[w].command = "Cancel"
      <4>1. Committed[s] = HeldBy(c)
        BY <2>0, <2>2, <3>6 DEF WhileWriting
      <4>2. Service!cancel_seat(Committed, s, c)
        BY <2>0, <4>1, SameOperators DEF Service!cancel_seat, Service!is_reserved, HeldBy
      <4>3. status'[s] = "Available" /\ owner'[s] = Nobody
        BY <1>6, <2>0, <2>5, <3>6, <1>i
        DEF WriteField, WriteInv, NewSeat, Vacant, Fields, TypeOK
      <4>4. Committed' = [Committed EXCEPT ![s] = Vacant]
        BY <2>0, <2>2, <2>3, <3>3, <4>3 DEF Raw, WhileWriting, Vacant
      <4>5. Committed' = Service!After(Committed, req[w])
        BY <3>6, <4>2, <4>4, SameOperators DEF Service!After
      <4>6. Service!Reply(Committed, req[w]) = Answer("Success")
        BY <3>6, <4>2, SameOperators DEF Service!Reply
      <4>7. CallOf(w)' = Service!Done(req[w], Answer("Success"))
        BY <2>0, <3>1, <3>6 DEF CallOf, Response, Service!Done
      <4> QED
        BY <1>r, <2>1, <3>4, <4>5, <4>6, <4>7, Performs, SameOperators DEF Service!Next
    <3> QED
      BY <2>0, <3>5, <3>6
  <2> QED
    BY <2>4, <2>5
\* A test that passes, but does not start the update, shows nothing.
<1>7. ASSUME NEW at \in {"guard", "guard_owner", "update"},
             NEW passed \in BOOLEAN,
             NEW next \in {"guard_owner", "update", "update_owner"},
             Test(w, at, passed, next), passed
      PROVE  UNCHANGED Service!vars
  <2>1. \A v \in Workers \ {w} : Untouched(v)
    BY <1>7 DEF Test, Untouched, TypeOK
  <2>2. Committed' = Committed
    BY <1>7, <2>1, <1>i, CommittedUnchanged DEF Test, TypeOK
  <2>3. CallOf(w)' = CallOf(w)
    BY <1>7 DEF Test, CallOf, TypeOK
  <2> QED
    BY <2>1, <2>2, <2>3, Stutter
\* The test that starts the update hides the seat from the service.
<1>8. ASSUME NEW at \in {"update", "update_owner"},
             NEW passed \in BOOLEAN,
             Test(w, at, passed, "write"), passed
      PROVE  UNCHANGED Service!vars
  <2>0. /\ pc[w] = at /\ pc'[w] = "write" /\ req' = req
        /\ UNCHANGED <<status, owner, success, snap>>
        /\ todo'[w] = Fields
    BY <1>8 DEF Test, TypeOK
  <2>1. \A v \in Workers \ {w} : Untouched(v)
    BY <1>8 DEF Test, Untouched, TypeOK
  <2>2. Committed = Raw
    BY <2>0, <1>v DEF CriticalSection
  <2>3. Committed' = WhileWriting(w)'
    BY <2>0, <1>i, CommittedWritingNext
  <2>4. LET old == IF req[w].command = "Reserve" THEN Vacant ELSE HeldBy(req[w].client)
        IN status[req[w].seat] = old.status /\ owner[req[w].seat] = old.owner
    <3>1. WriteInv(w)'
      BY DEF LockInv
    <3> QED
      BY <2>0, <3>1 DEF WriteInv, Vacant, HeldBy, Fields
  <2>5. Committed' = Committed
    BY <2>0, <2>2, <2>3, <2>4 DEF Raw, WhileWriting, Vacant, HeldBy
  <2>6. CallOf(w)' = CallOf(w)
    BY <2>0 DEF CallOf
  <2> QED
    BY <2>1, <2>5, <2>6, Stutter
\* A test that fails answers FAILURE, as the service does in this state.
<1>9. ASSUME NEW at \in {"guard", "guard_owner", "update", "update_owner"},
             NEW passed \in BOOLEAN, NEW next,
             Test(w, at, passed, next), ~passed,
             \/ /\ req[w].command = "Reserve"
                /\ ~Service!reserve_seat(Committed, req[w].seat, req[w].client)
             \/ /\ req[w].command = "Cancel"
                /\ ~Service!cancel_seat(Committed, req[w].seat, req[w].client)
      PROVE  Service!Next
  <2>0. pc[w] = at /\ pc'[w] = "unlock" /\ req' = req /\ success' = success
    BY <1>9 DEF Test, TypeOK
  <2>1. \A v \in Workers \ {w} : Untouched(v)
    BY <1>9 DEF Test, Untouched, TypeOK
  <2>2. Service!After(Committed, req[w]) = Committed
    BY <1>9 DEF Service!After
  <2>3. Service!Reply(Committed, req[w]) = Failure
    BY <1>9, SameOperators DEF Service!Reply
  <2>4. Response(w)' = Failure
    BY <2>0, <1>i DEF Response, ResultInv
  <2> QED
    BY <1>9, <2>0, <2>1, <2>2, <2>3, <2>4, <1>i, AnswerStep DEF Test
<1>t. ASSUME pc[w] \in {"guard", "guard_owner", "update", "update_owner"}
      PROVE  /\ req[w].seat \in Seats
             /\ Committed[req[w].seat].status = status[req[w].seat]
             /\ Committed[req[w].seat].owner = owner[req[w].seat]
  BY <1>t, <1>i, <1>v DEF TestInv, Raw, CriticalSection
<1> USE DEF Service!reserve_seat, Service!cancel_seat, Service!is_available,
            Service!is_reserved, Service!SeatAcceptsReserve
<1>10. CASE GuardReserve(w)
  <2> DEFINE passed == is_available(status[req[w].seat])
  <2>0. Test(w, "guard", passed, "update") /\ pc[w] = "guard" /\ passed \in BOOLEAN
    BY <1>10 DEF GuardReserve, Test, is_available
  <2>1. ~passed => ~Service!reserve_seat(Committed, req[w].seat, req[w].client)
    BY <2>0, <1>t DEF is_available
  <2> HIDE DEF passed
  <2> QED
    BY <1>10, <2>0, <2>1, <1>7, <1>9 DEF GuardReserve
<1>11. CASE SeatReserve(w)
  <2> DEFINE passed == SeatAcceptsReserve(status[req[w].seat], req[w].client)
  <2>0. Test(w, "update", passed, "write") /\ pc[w] = "update" /\ passed \in BOOLEAN
    BY <1>11 DEF SeatReserve, Test, SeatAcceptsReserve
  <2>1. ~passed => ~Service!reserve_seat(Committed, req[w].seat, req[w].client)
    BY <2>0, <1>t DEF SeatAcceptsReserve, is_reserved
  <2> HIDE DEF passed
  <2> QED
    BY <1>11, <2>0, <2>1, <1>8, <1>9 DEF SeatReserve
<1>12. CASE GuardCancel(w) \/ SeatCancel(w)
  <2>0. req[w].command = "Cancel"
    BY <1>12 DEF GuardCancel, SeatCancel
  <2>1. ASSUME NEW at \in {"guard", "update"}, NEW next \in {"guard_owner", "update_owner"},
               Test(w, at, is_reserved(status[req[w].seat]), next)
        PROVE  Service!Next \/ UNCHANGED Service!vars
    <3> DEFINE passed == is_reserved(status[req[w].seat])
    <3>0. Test(w, at, passed, next) /\ pc[w] = at /\ passed \in BOOLEAN
      BY <2>1 DEF Test, is_reserved
    <3>1. ~passed => ~Service!cancel_seat(Committed, req[w].seat, req[w].client)
      BY <3>0, <1>t DEF is_reserved
    <3> HIDE DEF passed
    <3> QED
      BY <2>0, <3>0, <3>1, <1>7, <1>9
  <2>2. ASSUME NEW at \in {"guard_owner", "update_owner"}, NEW next \in {"update", "write"},
               at = "update_owner" <=> next = "write",
               Test(w, at, owner[req[w].seat] = req[w].client, next)
        PROVE  Service!Next \/ UNCHANGED Service!vars
    <3> DEFINE passed == owner[req[w].seat] = req[w].client
    <3>0. Test(w, at, passed, next) /\ pc[w] = at /\ passed \in BOOLEAN
      BY <2>2 DEF Test
    <3>1. ~passed => ~Service!cancel_seat(Committed, req[w].seat, req[w].client)
      BY <3>0, <1>t
    <3> HIDE DEF passed
    <3> QED
      BY <2>0, <2>2, <3>0, <3>1, <1>7, <1>8, <1>9
  <2> QED
    BY <1>12, <2>1, <2>2 DEF GuardCancel, SeatCancel
<1>13. CASE Unlock(w)
  <2>1. \A v \in Workers \ {w} : Untouched(v)
    BY <1>13 DEF Unlock, Untouched, TypeOK
  <2>2. Committed' = Committed
    BY <1>13, <2>1, <1>i, CommittedUnchanged DEF Unlock, TypeOK
  <2>3. CallOf(w)' = CallOf(w)
    BY <1>13 DEF Unlock, CallOf, Response, TypeOK
  <2> QED
    BY <2>1, <2>2, <2>3, Stutter
<1>14. CASE Respond(w)
  <2>1. \A v \in Workers \ {w} : Untouched(v)
    BY <1>14 DEF Respond, Untouched, TypeOK
  <2>2. Committed' = Committed
    BY <1>14, <2>1, <1>i, CommittedUnchanged DEF Respond, TypeOK
  <2>3. CallOf(w).phase = "done" /\ CallOf(w)' = Service!Idle
    BY <1>14 DEF Respond, CallOf, Service!Idle, TypeOK
  <2>4. Calls' = [Calls EXCEPT ![w] = CallOf(w)']
    BY <2>1, CallsFrame
  <2>5. Service!Return(w)
    BY <2>2, <2>3, <2>4 DEF Service!Return, Calls
  <2> QED
    BY <2>5 DEF Service!Next
<1> QED
  BY <1>1, <1>2, <1>3, <1>4, <1>5, <1>6, <1>10, <1>11, <1>12, <1>13, <1>14 DEF Step

\* With the mutex, the worker threads together behave as a server that
\* executes one request at a time: every request takes effect at one instant
\* between its arrival and its answer (linearizability).
THEOREM Linearizable == ASSUME Synchronized PROVE Spec => ImplementsService
<1>1. TypeOK /\ LockInv /\ LockInv' /\ [Next]_vars => [Service!Next]_(Service!vars)
  <2>1. ASSUME TypeOK, LockInv, LockInv', Next PROVE [Service!Next]_(Service!vars)
    BY <2>1, RefineStep DEF Next
  <2>2. ASSUME UNCHANGED vars PROVE UNCHANGED Service!vars
    <3>1. Committed' = Committed
      BY <2>2 DEF vars, Committed, Uncommitted, Before, Writing
    <3>2. Calls' = Calls
      BY <2>2 DEF vars, Calls, CallOf, Response
    <3> QED
      BY <3>1, <3>2 DEF Service!vars, Calls
  <2> QED
    BY <2>1, <2>2
<1> QED
  BY <1>1, RefineInit, MutexProtects, PTL DEF Spec, ImplementsService, Service!Spec
=============================================================================
