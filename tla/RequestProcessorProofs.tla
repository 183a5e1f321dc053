----------------------- MODULE RequestProcessorProofs -----------------------
(***************************************************************************)
(* Proofs about RequestProcessor for any seats, clients and workers.       *)
(***************************************************************************)
EXTENDS RequestProcessor, TLAPS

\* The fields of a request, whichever half of Requests it comes from.
LEMMA RequestFields ==
  ASSUME NEW r \in Requests
  PROVE  /\ r.command \in SeatCommands \cup OtherCommands
         /\ r.client \in ClientIds
         /\ r.seat \in SeatIds
  BY DEF Requests, SeatIds

\* The request an idle worker holds is a request like any other.
LEMMA NoRequestIsRequest == NoRequest \in Requests
  BY TableAssumption DEF NoRequest, Requests, OtherCommands

\* The two seats Seat::reset and Seat::reserve leave are seats.
LEMMA SeatTypes ==
  /\ Vacant \in Seat
  /\ \A c \in ClientIds : HeldBy(c) \in Seat
  BY DEF Vacant, HeldBy, Seat, SeatStatus, Owners

\* The new table is well typed.
LEMMA TypeInit == Init => TypeOK
  BY NoRequestIsRequest, SeatTypes
  DEF Init, TypeOK, Vacant, Seat, SeatStatus, Owners, PCs

\* Every step of one worker keeps the variables in their types.
LEMMA TypeStep ==
  ASSUME TypeOK, NEW w \in Workers, Step(w) \/ \E r \in Offered : Dispatch(w, r)
  PROVE  TypeOK'
<1> USE DEF Goto, PCs
<1>r. req[w] \in Requests
  BY DEF TypeOK
<1>f. req[w].client \in ClientIds /\ req[w].seat \in SeatIds
  BY <1>r, RequestFields
<1>1. CASE \E r \in Offered : Dispatch(w, r)
  BY <1>1 DEF Dispatch, Offered, TypeOK
<1>2. CASE RespondDirectly(w)
  BY <1>2 DEF RespondDirectly, TypeOK
<1>3. CASE Lock(w)
  BY <1>3 DEF Lock, TypeOK
<1>4. CASE CheckWithoutSeat(w)
  BY <1>4 DEF CheckWithoutSeat, TypeOK
<1>5. ASSUME NEW f \in Fields, CopyField(w, f) PROVE TypeOK'
  <2>1. snap' \in [Workers -> Seat]
    BY <1>5 DEF CopyField, TypeOK, Seat, has_seat
  <2> QED
    BY <1>5, <2>1 DEF CopyField, TypeOK, AfterCheck
<1>6. ASSUME NEW f \in Fields, WriteField(w, f) PROVE TypeOK'
  <2>1. NewSeat(w) \in Seat
    BY <1>f, SeatTypes DEF NewSeat
  <2>2. status' \in [Seats -> SeatStatus] /\ owner' \in [Seats -> Owners]
    BY <1>6, <2>1 DEF WriteField, TypeOK, Seat
  <2>3. tickets' \in [Seats -> SUBSET ClientIds]
    BY <1>6, <1>f DEF WriteField, TypeOK
  <2> QED
    BY <1>6, <2>2, <2>3 DEF WriteField, TypeOK
<1>7. ASSUME NEW at, NEW passed \in BOOLEAN, NEW next \in PCs, Test(w, at, passed, next)
      PROVE  TypeOK'
  BY <1>7 DEF Test, TypeOK
<1>8. CASE GuardReserve(w)
  BY <1>7, <1>8 DEF GuardReserve, is_available
<1>9. CASE GuardCancel(w)
  BY <1>7, <1>9 DEF GuardCancel, is_reserved
<1>10. CASE SeatReserve(w)
  BY <1>7, <1>10 DEF SeatReserve, SeatAcceptsReserve, is_reserved
<1>11. CASE SeatCancel(w)
  BY <1>7, <1>11 DEF SeatCancel, is_reserved
<1>12. CASE Unlock(w)
  BY <1>12 DEF Unlock, TypeOK
<1>13. CASE Respond(w)
  BY <1>13, NoRequestIsRequest, SeatTypes DEF Respond, TypeOK
<1> QED
  BY <1>1, <1>2, <1>3, <1>4, <1>5, <1>6, <1>8, <1>9, <1>10, <1>11, <1>12, <1>13 DEF Step

\* Type correctness, with the mutex or without it: no interleaving of the
\* workers puts anything but a status in a status field or anything but a
\* client id in an owner field.
THEOREM TypeCorrect == Spec => []TypeOK
<1>1. Init => TypeOK
  BY TypeInit
<1>2. TypeOK /\ [Next]_vars => TypeOK'
  <2>1. CASE Next
    BY <2>1, TypeStep DEF Next
  <2>2. CASE UNCHANGED vars
    BY <2>2 DEF vars, TypeOK
  <2> QED
    BY <2>1, <2>2
<1> QED
  BY <1>1, <1>2, PTL DEF Spec

-----------------------------------------------------------------------------
(* The mutex.                                                              *)

\* What a worker knows.
WorkerInv(w) == CheckInv(w) /\ TestInv(w) /\ WriteInv(w) /\ ResultInv(w)

\* The private variables of a worker are not touched.
Untouched(w) ==
  /\ pc'[w] = pc[w]
  /\ req'[w] = req[w]
  /\ snap'[w] = snap[w]
  /\ todo'[w] = todo[w]
  /\ success'[w] = success[w]

\* An empty hall with idle workers satisfies the invariant.
LEMMA LockInit == Init => LockInv
  BY DEF Init, LockInv, MutexInv, CriticalSection, SeatInv, Settled, Vacant,
         CheckInv, TestInv, WriteInv, ResultInv

\* A step that changes no seat disturbs no other worker and no seat.
LEMMA QuietStep ==
  ASSUME LockInv, NEW w \in Workers,
         pc[w] # "write",
         UNCHANGED <<status, owner, tickets>>,
         \A v \in Workers \ {w} : Untouched(v),
         MutexInv', WorkerInv(w)'
  PROVE  LockInv'
<1>1. ASSUME NEW s \in Seats PROVE SeatInv(s)'
  BY DEF SeatInv, LockInv, Writing, Untouched
<1>2. ASSUME NEW v \in Workers \ {w} PROVE WorkerInv(v)'
  <2>1. Untouched(v) /\ CheckInv(v) /\ TestInv(v) /\ WriteInv(v) /\ ResultInv(v)
    BY DEF LockInv
  <2>2. CheckInv(v)'
    BY <2>1 DEF CheckInv, Untouched
  <2>3. TestInv(v)'
    BY <2>1 DEF TestInv, Untouched
  <2>4. WriteInv(v)'
    BY <2>1 DEF WriteInv, Untouched
  <2>5. ResultInv(v)'
    BY <2>1 DEF ResultInv, Untouched
  <2> QED
    BY <2>2, <2>3, <2>4, <2>5 DEF WorkerInv
<1> QED
  BY <1>1, <1>2 DEF LockInv, WorkerInv

\* Every step of a worker keeps the invariant when the mutex is enabled.
LEMMA LockStep ==
  ASSUME Synchronized, TypeOK, LockInv, NEW w \in Workers,
         Step(w) \/ \E r \in Offered : Dispatch(w, r)
  PROVE  LockInv'
<1> USE DEF Goto
<1>r. req[w] \in Requests
  BY DEF TypeOK
<1>f. /\ req[w].client \in ClientIds
      /\ req[w].seat \in SeatIds
      /\ req[w].command \in SeatCommands \cup OtherCommands
  BY <1>r, RequestFields
<1>i. /\ MutexInv /\ CheckInv(w) /\ TestInv(w) /\ WriteInv(w) /\ ResultInv(w)
      /\ \A s \in Seats : SeatInv(s)
  BY DEF LockInv
<1>u. Nobody \notin Workers
  BY ProcessorAssumption
<1>1. CASE \E r \in Offered : Dispatch(w, r)
  <2>1. MutexInv'
    BY <1>1, <1>i DEF Dispatch, MutexInv, CriticalSection, TypeOK
  <2>2. WorkerInv(w)'
    BY <1>1, <1>i DEF Dispatch, WorkerInv, CheckInv, TestInv, WriteInv, ResultInv, TypeOK
  <2> QED
    BY <1>1, <2>1, <2>2, QuietStep DEF Dispatch, Untouched, TypeOK
<1>2. CASE RespondDirectly(w)
  <2>1. MutexInv'
    BY <1>2, <1>i DEF RespondDirectly, MutexInv, CriticalSection, TypeOK
  <2>2. WorkerInv(w)'
    BY <1>2, <1>i DEF RespondDirectly, WorkerInv, CheckInv, TestInv, WriteInv, ResultInv, TypeOK
  <2> QED
    BY <1>2, <2>1, <2>2, QuietStep DEF RespondDirectly, Untouched, TypeOK
<1>3. CASE Lock(w)
  <2>1. MutexInv'
    BY <1>3, <1>i, <1>u DEF Lock, MutexInv, CriticalSection, TypeOK
  <2>2. WorkerInv(w)'
    BY <1>3, <1>i DEF Lock, WorkerInv, CheckInv, TestInv, WriteInv, ResultInv, TypeOK, Fields
  <2> QED
    BY <1>3, <2>1, <2>2, QuietStep DEF Lock, Untouched, TypeOK
<1>4. CASE CheckWithoutSeat(w)
  <2>1. MutexInv'
    BY <1>4, <1>i DEF CheckWithoutSeat, MutexInv, CriticalSection, TypeOK
  <2>2. WorkerInv(w)'
    BY <1>4, <1>i
    DEF CheckWithoutSeat, WorkerInv, CheckInv, TestInv, WriteInv, ResultInv, TypeOK
  <2> QED
    BY <1>4, <2>1, <2>2, QuietStep DEF CheckWithoutSeat, Untouched, TypeOK
<1>s. ASSUME NEW s \in Seats, pc[w] \in CriticalSection, ~Writing(w, s)
      PROVE  Settled(status[s], owner[s], tickets[s])
  BY <1>s, <1>i DEF SeatInv, MutexInv, Writing, CriticalSection
<1>5. ASSUME NEW f \in Fields, CopyField(w, f) PROVE LockInv'
  <2> DEFINE s == req[w].seat
  <2>0. pc[w] = "check" /\ s \in Seats /\ req'[w] = req[w]
    BY <1>5 DEF CopyField, has_seat
  <2>1. MutexInv'
    BY <1>5, <1>i DEF CopyField, AfterCheck, MutexInv, CriticalSection, TypeOK
  <2>2. /\ snap'[w].status = IF f = "status" THEN status[s] ELSE snap[w].status
        /\ snap'[w].owner = IF f = "status" THEN snap[w].owner ELSE owner[s]
        /\ todo'[w] = todo[w] \ {f}
        /\ f \in todo[w]
        /\ pc'[w] = IF todo[w] = {f} THEN AfterCheck(w) ELSE "check"
        /\ success'[w] = (req[w].command = "Status" /\ todo[w] = {f})
        /\ status' = status /\ owner' = owner
    BY <1>5, <2>0 DEF CopyField, TypeOK
  <2>3. CheckInv(w)'
    BY <2>0, <2>2, <1>i DEF CheckInv, Fields, AfterCheck
  <2>4. pc'[w] # "check" => snap'[w].status = status[s] /\ snap'[w].owner = owner[s]
    BY <2>0, <2>2, <1>i DEF CheckInv, Fields
  <2>5. TestInv(w)'
    BY <1>5, <2>0, <2>2, <2>4, <1>f, <1>i
    DEF CopyField, CheckInv, TestInv, AfterCheck, SeatCommands, OtherCommands
  <2>6. WriteInv(w)'
    BY <2>0, <2>2 DEF WriteInv, AfterCheck
  <2>7. ResultInv(w)'
    <3>1. Settled(status[s], owner[s], tickets[s])
      BY <2>0, <1>s DEF CriticalSection, Writing
    <3> QED
      BY <2>0, <2>2, <2>4, <3>1, TableAssumption
      DEF ResultInv, AfterCheck, Settled, is_reserved, Clients
  <2> QED
    BY <1>5, <2>0, <2>1, <2>3, <2>5, <2>6, <2>7, QuietStep
    DEF CopyField, Untouched, TypeOK, WorkerInv
<1>6. ASSUME NEW f \in Fields, WriteField(w, f) PROVE LockInv'
  <2> DEFINE s == req[w].seat
             c == req[w].client
             last == todo[w] = {f}
  <2>0. pc[w] = "write" /\ s \in Seats /\ req' = req /\ mutex = w /\ f \in todo[w]
    BY <1>6, <1>i DEF WriteField, WriteInv, MutexInv, CriticalSection
  <2>1. \A v \in Workers \ {w} : Untouched(v) /\ pc[v] \notin CriticalSection
    BY <1>6, <1>i, <2>0 DEF WriteField, Untouched, MutexInv, TypeOK
  <2>2. /\ pc'[w] = IF last THEN "unlock" ELSE "write"
        /\ todo'[w] = todo[w] \ {f}
        /\ snap'[w] = snap[w]
        /\ success'[w] = last
        /\ mutex' = mutex
    BY <1>6 DEF WriteField, TypeOK
  <2>3. /\ status'[s] = IF f = "status" THEN NewSeat(w).status ELSE status[s]
        /\ owner'[s] = IF f = "owner" THEN NewSeat(w).owner ELSE owner[s]
        /\ tickets'[s] = IF ~last THEN tickets[s]
                         ELSE IF req[w].command = "Reserve" THEN tickets[s] \cup {c}
                                                            ELSE tickets[s] \ {c}
    BY <1>6, <2>0 DEF WriteField, TypeOK
  <2>4. \A t \in Seats \ {s} : /\ status'[t] = status[t]
                               /\ owner'[t] = owner[t]
                               /\ tickets'[t] = tickets[t]
    BY <1>6 DEF WriteField, TypeOK
  <2>5. MutexInv'
    BY <2>0, <2>1, <2>2 DEF MutexInv, Untouched, CriticalSection
  <2>6. ASSUME NEW v \in Workers \ {w} PROVE WorkerInv(v)'
    <3>1. Untouched(v) /\ ResultInv(v) /\ pc[v] \notin CriticalSection
      BY <2>1 DEF LockInv
    <3> QED
      BY <3>1
      DEF WorkerInv, CheckInv, TestInv, WriteInv, ResultInv, Untouched, CriticalSection
  <2>7. WriteInv(w)'
    BY <2>0, <2>2, <2>3, <1>i DEF WriteInv, NewSeat, HeldBy, Vacant, Fields
  <2>8. ResultInv(w)'
    BY <2>0, <2>2, <1>i, TableAssumption
    DEF ResultInv, WriteInv, is_available, is_reserved
  <2>9. CheckInv(w)' /\ TestInv(w)'
    BY <2>2 DEF CheckInv, TestInv
  <2>10. ASSUME NEW t \in Seats PROVE SeatInv(t)'
    <3>1. CASE t # s
      BY <3>1, <2>0, <2>4, <1>s DEF SeatInv, CriticalSection, Writing
    <3>2. CASE t = s /\ ~last
      BY <3>2, <2>0, <2>2 DEF SeatInv, Writing
    <3>3. CASE t = s /\ last
      <4>1. CASE req[w].command = "Reserve"
        BY <3>3, <4>1, <2>0, <2>3, <1>i, <1>f
        DEF SeatInv, Settled, WriteInv, NewSeat, HeldBy, Clients, Fields
      <4>2. CASE req[w].command = "Cancel"
        BY <3>3, <4>2, <2>0, <2>3, <1>i
        DEF SeatInv, Settled, WriteInv, NewSeat, Vacant, Fields
      <4> QED
        BY <4>1, <4>2, <2>0, <1>i DEF WriteInv
    <3> QED
      BY <3>1, <3>2, <3>3
  <2> QED
    BY <2>5, <2>6, <2>7, <2>8, <2>9, <2>10 DEF LockInv, WorkerInv
<1>7. ASSUME NEW at \in CriticalSection \ {"check", "write", "unlock"},
             NEW passed \in BOOLEAN,
             NEW next \in {"guard_owner", "update", "update_owner", "write"},
             Test(w, at, passed, next),
             passed => TestInv(w)' /\ WriteInv(w)',
             ~passed => ResultInv(w)'
      PROVE  LockInv'
  <2>1. MutexInv'
    BY <1>7, <1>i DEF Test, MutexInv, CriticalSection, TypeOK
  <2>2. WorkerInv(w)'
    BY <1>7, <1>i
    DEF Test, WorkerInv, CheckInv, TestInv, WriteInv, ResultInv, CriticalSection, TypeOK
  <2> QED
    BY <1>7, <2>1, <2>2, QuietStep DEF Test, Untouched, TypeOK
<1>8. CASE GuardReserve(w)
  <2> DEFINE passed == is_available(status[req[w].seat])
  <2>1. passed => TestInv(w)' /\ WriteInv(w)'
    BY <1>8, <1>i DEF GuardReserve, Test, TestInv, WriteInv, is_available, TypeOK
  <2>2. ~passed => ResultInv(w)'
    BY <1>8, <1>i DEF GuardReserve, Test, TestInv, ResultInv, is_available, TypeOK
  <2> QED
    BY <1>7, <1>8, <2>1, <2>2 DEF GuardReserve, is_available, CriticalSection
<1>9. CASE GuardCancel(w)
  <2>1. CASE Test(w, "guard", is_reserved(status[req[w].seat]), "guard_owner")
    <3> DEFINE passed == is_reserved(status[req[w].seat])
    <3>1. passed => TestInv(w)' /\ WriteInv(w)'
      BY <1>9, <2>1, <1>i DEF GuardCancel, Test, TestInv, WriteInv, is_reserved, TypeOK
    <3>2. ~passed => ResultInv(w)'
      BY <1>9, <2>1, <1>i DEF GuardCancel, Test, TestInv, ResultInv, is_reserved, TypeOK
    <3> QED
      BY <1>7, <2>1, <3>1, <3>2 DEF is_reserved, CriticalSection
  <2>2. CASE Test(w, "guard_owner", owner[req[w].seat] = req[w].client, "update")
    <3> DEFINE passed == owner[req[w].seat] = req[w].client
    <3>1. passed => TestInv(w)' /\ WriteInv(w)'
      BY <1>9, <2>2, <1>i DEF GuardCancel, Test, TestInv, WriteInv, TypeOK
    <3>2. ~passed => ResultInv(w)'
      BY <1>9, <2>2, <1>i DEF GuardCancel, Test, TestInv, ResultInv, TypeOK
    <3> QED
      BY <1>7, <2>2, <3>1, <3>2 DEF CriticalSection
  <2> QED
    BY <1>9, <2>1, <2>2 DEF GuardCancel
<1>10. CASE SeatReserve(w)
  <2> DEFINE passed == SeatAcceptsReserve(status[req[w].seat], req[w].client)
  <2>0. /\ req[w].command = "Reserve" /\ req'[w] = req[w] /\ snap'[w] = snap[w]
        /\ pc[w] = "update" /\ pc'[w] = IF passed THEN "write" ELSE "unlock"
        /\ todo'[w] = IF passed THEN Fields ELSE {}
        /\ UNCHANGED <<status, owner, tickets, success>>
        /\ req[w].seat \in Seats
        /\ status[req[w].seat] = "Available"
        /\ snap[w].status = "Available" /\ snap[w].owner = owner[req[w].seat]
        /\ success[w] = FALSE
    BY <1>10, <1>i DEF SeatReserve, Test, TestInv, ResultInv, TypeOK
  <2>1. passed => TestInv(w)' /\ WriteInv(w)'
    <3>1. Settled(status[req[w].seat], owner[req[w].seat], tickets[req[w].seat])
      BY <2>0, <1>s DEF CriticalSection, Writing
    <3> QED
      BY <2>0, <3>1 DEF Settled, TestInv, WriteInv, SeatAcceptsReserve, Fields
  <2>2. ~passed => ResultInv(w)'
    BY <2>0 DEF ResultInv, SeatAcceptsReserve, is_reserved
  <2> QED
    BY <1>7, <1>10, <2>1, <2>2
    DEF SeatReserve, SeatAcceptsReserve, is_reserved, CriticalSection
<1>11. CASE SeatCancel(w)
  <2>1. CASE Test(w, "update", is_reserved(status[req[w].seat]), "update_owner")
    <3> DEFINE passed == is_reserved(status[req[w].seat])
    <3>1. passed => TestInv(w)' /\ WriteInv(w)'
      BY <1>11, <2>1, <1>i DEF SeatCancel, Test, TestInv, WriteInv, is_reserved, TypeOK
    <3>2. ~passed => ResultInv(w)'
      BY <1>11, <2>1, <1>i DEF SeatCancel, Test, TestInv, ResultInv, is_reserved, TypeOK
    <3> QED
      BY <1>7, <2>1, <3>1, <3>2 DEF is_reserved, CriticalSection
  <2>2. CASE Test(w, "update_owner", owner[req[w].seat] = req[w].client, "write")
    <3> DEFINE passed == owner[req[w].seat] = req[w].client
    <3>0. /\ req[w].command = "Cancel" /\ req'[w] = req[w] /\ snap'[w] = snap[w]
          /\ pc[w] = "update_owner" /\ pc'[w] = IF passed THEN "write" ELSE "unlock"
          /\ todo'[w] = IF passed THEN Fields ELSE {}
          /\ UNCHANGED <<status, owner, tickets, success>>
          /\ req[w].seat \in Seats
          /\ status[req[w].seat] = "Reserved"
          /\ snap[w].status = "Reserved" /\ snap[w].owner = owner[req[w].seat]
          /\ success[w] = FALSE
      BY <1>11, <2>2, <1>i DEF SeatCancel, Test, TestInv, ResultInv, TypeOK
    <3>1. passed => TestInv(w)' /\ WriteInv(w)'
      <4>1. Settled(status[req[w].seat], owner[req[w].seat], tickets[req[w].seat])
        BY <3>0, <1>s DEF CriticalSection, Writing
      <4> QED
        BY <3>0, <4>1 DEF Settled, TestInv, WriteInv, Fields, Clients
    <3>2. ~passed => ResultInv(w)'
      BY <3>0 DEF ResultInv
    <3> QED
      BY <1>7, <2>2, <3>1, <3>2 DEF CriticalSection
  <2> QED
    BY <1>11, <2>1, <2>2 DEF SeatCancel
<1>12. CASE Unlock(w)
  <2>1. MutexInv'
    BY <1>12, <1>i DEF Unlock, MutexInv, CriticalSection, TypeOK
  <2>2. WorkerInv(w)'
    BY <1>12, <1>i DEF Unlock, WorkerInv, CheckInv, TestInv, WriteInv, ResultInv, TypeOK
  <2> QED
    BY <1>12, <2>1, <2>2, QuietStep DEF Unlock, Untouched, TypeOK
<1>13. CASE Respond(w)
  <2>1. MutexInv'
    BY <1>13, <1>i DEF Respond, MutexInv, CriticalSection, TypeOK
  <2>2. WorkerInv(w)'
    BY <1>13, <1>i DEF Respond, WorkerInv, CheckInv, TestInv, WriteInv, ResultInv, TypeOK
  <2> QED
    BY <1>13, <2>1, <2>2, QuietStep DEF Respond, Untouched, TypeOK
<1> QED
  BY <1>1, <1>2, <1>3, <1>4, <1>5, <1>6, <1>8, <1>9, <1>10, <1>11, <1>12, <1>13 DEF Step

\* The invariant of the mutex holds in every behaviour of a synchronized
\* server: no two workers are in the critical section, and what CHECK read
\* stays true until UPDATE.
THEOREM MutexProtects == ASSUME Synchronized PROVE Spec => [](TypeOK /\ LockInv)
<1>1. Init => TypeOK /\ LockInv
  BY TypeInit, LockInit
<1>2. TypeOK /\ LockInv /\ [Next]_vars => (TypeOK /\ LockInv)'
  <2>1. CASE Next
    BY <2>1, TypeStep, LockStep DEF Next
  <2>2. ASSUME TypeOK, LockInv, UNCHANGED vars PROVE (TypeOK /\ LockInv)'
    BY <2>2
    DEF vars, TypeOK, LockInv, MutexInv, SeatInv, Writing, CheckInv, TestInv, WriteInv, ResultInv
  <2> QED
    BY <2>1, <2>2
<1> QED
  BY <1>1, <1>2, PTL DEF Spec

\* Settled seats are those of OwnerHoldsTicket, and have one ticket at most
\* even while an update is in progress.
LEMMA InvImpliesSafety ==
  ASSUME TypeOK, LockInv
  PROVE  NoDoubleBooking /\ OwnerHoldsTicket /\ CheckedValuesHold /\ StatusNotTorn
<1>1. NoDoubleBooking
  <2>1. ASSUME NEW s \in Seats, NEW w \in Workers, Writing(w, s)
        PROVE  \A c, d \in tickets[s] : c = d
    BY <2>1 DEF LockInv, WriteInv, Writing
  <2>2. ASSUME NEW s \in Seats, \A w \in Workers : ~Writing(w, s)
        PROVE  \A c, d \in tickets[s] : c = d
    BY <2>2 DEF LockInv, SeatInv, Settled
  <2> QED
    BY <2>1, <2>2 DEF NoDoubleBooking
<1>2. OwnerHoldsTicket
  BY DEF OwnerHoldsTicket, LockInv, SeatInv, Settled, is_reserved, is_available
<1>3. CheckedValuesHold
  <2>1. ASSUME NEW w \in Workers
        PROVE  snap[w] = HeldBy(req[w].client) <=>
                 snap[w].status = "Reserved" /\ snap[w].owner = req[w].client
    <3>1. snap[w] = [status |-> snap[w].status, owner |-> snap[w].owner]
      BY DEF TypeOK, Seat
    <3> QED
      BY <3>1 DEF HeldBy
  <2> QED
    BY <2>1 DEF CheckedValuesHold, LockInv, ResultInv
<1>4. StatusNotTorn
  BY DEF StatusNotTorn, LockInv, ResultInv
<1> QED
  BY <1>1, <1>2, <1>3, <1>4

\* With the mutex no seat is ever sold twice.
THEOREM SynchronizedNoDoubleBooking == ASSUME Synchronized PROVE Spec => []NoDoubleBooking
  BY MutexProtects, InvImpliesSafety, PTL

\* With the mutex the seats, their owners and the tickets agree.
THEOREM SynchronizedOwnerHoldsTicket == ASSUME Synchronized PROVE Spec => []OwnerHoldsTicket
  BY MutexProtects, InvImpliesSafety, PTL

\* With the mutex UPDATE never contradicts CHECK.
THEOREM SynchronizedChecksHold == ASSUME Synchronized PROVE Spec => []CheckedValuesHold
  BY MutexProtects, InvImpliesSafety, PTL

\* With the mutex no STATUS answer mixes two moments of a seat.
THEOREM SynchronizedStatusNotTorn == ASSUME Synchronized PROVE Spec => []StatusNotTorn
  BY MutexProtects, InvImpliesSafety, PTL
-----------------------------------------------------------------------------
(* Without the mutex, as long as nobody cancels: experiment 2 of the       *)
(* documentation, where threads race for a seat with RESERVE and STATUS.   *)
(* A seat's status then changes once only, from Available to Reserved, so  *)
(* a copy that says Reserved cannot go stale, and every owner ever stored  *)
(* is the client of a worker that will report SUCCESS or has done so.      *)

\* Worker w believes only what cannot be overtaken: a RESERVED it has read
\* stays so, and it stores only after a copy that said Available.
RaceWorkerInv(w) ==
  LET s == req[w].seat
  IN /\ req[w].command # "Cancel"
     /\ pc[w] = "check" => req[w].command \notin {"Quit", "Unknown"}
     /\ pc[w] = "check" /\ "status" \notin todo[w] /\ s \in Seats /\ snap[w].status = "Reserved" =>
          status[s] = "Reserved"
     /\ pc[w] \in {"guard", "guard_owner", "update", "update_owner", "write"} =>
          /\ req[w].command = "Reserve" /\ s \in Seats
          /\ pc[w] \in {"guard", "update", "write"}
          /\ snap[w].status = "Reserved" => status[s] = "Reserved"
     /\ pc[w] = "write" => snap[w].status = "Available" /\ todo[w] # {}
     /\ pc[w] \notin {"unlock", "respond"} => success[w] = FALSE
     /\ success[w] /\ req[w].command = "Reserve" => snap[w].status = "Available"

\* Worker w is storing into seat s and has stored field f.
Stored(w, s, f) == Writing(w, s) /\ f \notin todo[w]

\* A seat is Reserved, or has an owner, because somebody holds a ticket for it
\* or is about to.
RaceSeatInv(s) ==
  /\ status[s] = "Available" =>
       tickets[s] = {} /\ \A w \in Workers : ~Stored(w, s, "status")
  /\ status[s] = "Reserved" =>
       tickets[s] # {} \/ \E w \in Workers : Stored(w, s, "status")
  /\ owner[s] = Nobody =>
       tickets[s] = {} /\ \A w \in Workers : ~Stored(w, s, "owner")
  /\ owner[s] # Nobody =>
       \/ owner[s] \in tickets[s]
       \/ \E w \in Workers : Stored(w, s, "owner") /\ req[w].client = owner[s]

RaceInv ==
  /\ \A w \in Workers : RaceWorkerInv(w)
  /\ \A s \in Seats : RaceSeatInv(s)

\* An empty hall with idle workers satisfies it.
LEMMA RaceInit == Init => RaceInv
  BY TableAssumption
  DEF Init, RaceInv, RaceWorkerInv, RaceSeatInv, Stored, Writing, NoRequest, Vacant

\* A step that changes no seat and does not start with a field already stored
\* disturbs no other worker and no seat.
LEMMA RaceQuietStep ==
  ASSUME RaceInv, NEW w \in Workers,
         pc[w] # "write",
         pc'[w] = "write" => todo'[w] = Fields,
         UNCHANGED <<status, owner, tickets>>,
         \A v \in Workers \ {w} : Untouched(v),
         RaceWorkerInv(w)'
  PROVE  RaceInv'
<1>1. ASSUME NEW v \in Workers \ {w} PROVE RaceWorkerInv(v)'
  BY DEF RaceInv, RaceWorkerInv, Untouched
<1>2. ASSUME NEW s \in Seats PROVE RaceSeatInv(s)'
  <2>1. \A v \in Workers : \A f \in Fields : Stored(v, s, f)' <=> Stored(v, s, f)
    BY DEF Stored, Writing, Untouched
  <2>2. \A v \in Workers : \A f \in Fields : Stored(v, s, f) => req'[v] = req[v]
    BY DEF Stored, Writing, Untouched
  <2> QED
    BY <2>1, <2>2 DEF RaceInv, RaceSeatInv, Fields
<1> QED
  BY <1>1, <1>2 DEF RaceInv

\* One store of Seat::reserve: the status never goes back, and the client whose
\* id was stored last is told SUCCESS if it has not been already.
LEMMA RaceWriteStep ==
  ASSUME TypeOK, RaceInv, NEW w \in Workers, NEW f \in Fields, WriteField(w, f)
  PROVE  RaceInv'
<1>0. /\ pc[w] = "write" /\ req[w].seat \in Seats /\ req[w].command = "Reserve"
      /\ snap[w].status = "Available"
      /\ f \in todo[w] /\ todo[w] \subseteq Fields
      /\ UNCHANGED <<req, snap>>
  BY DEF WriteField, Goto, RaceInv, RaceWorkerInv, TypeOK
<1>d. req[w].client \in ClientIds
  BY RequestFields DEF TypeOK
<1>c. PICK s \in Seats, c \in ClientIds : req[w].seat = s /\ req[w].client = c
  BY <1>0, <1>d
<1>b. c # Nobody
  BY TableAssumption
<1>n. NewSeat(w).status = "Reserved" /\ NewSeat(w).owner = c
  BY <1>0, <1>c DEF NewSeat, HeldBy
<1> DEFINE last == todo[w] = {f}
<1>1. /\ pc'[w] = IF last THEN "unlock" ELSE "write"
      /\ todo'[w] = todo[w] \ {f}
      /\ success'[w] = last
      /\ \A v \in Workers \ {w} : Untouched(v)
  BY <1>0 DEF WriteField, Goto, Untouched, TypeOK
<1>2. \A x \in Seats : /\ status'[x] = IF f = "status" /\ x = s THEN "Reserved" ELSE status[x]
                       /\ owner'[x] = IF f = "owner" /\ x = s THEN c ELSE owner[x]
  BY <1>c, <1>n DEF WriteField, TypeOK
<1>3. \A x \in Seats : tickets'[x] = IF last /\ x = s THEN tickets[x] \cup {c} ELSE tickets[x]
  BY <1>0, <1>c DEF WriteField, TypeOK
<1> HIDE DEF last
<1>4. \A x \in Seats : status[x] = "Reserved" => status'[x] = "Reserved"
  BY <1>2
<1>5. ASSUME NEW v \in Workers \ {w} PROVE RaceWorkerInv(v)'
  BY <1>1, <1>4 DEF RaceInv, RaceWorkerInv, Untouched
<1>6. RaceWorkerInv(w)'
  BY <1>0, <1>1, <1>4 DEF RaceInv, RaceWorkerInv, last
<1>7. ASSUME NEW x \in Seats, x # s PROVE RaceSeatInv(x)'
  <2>1. \A v \in Workers : \A g \in Fields : Stored(v, x, g)' <=> Stored(v, x, g)
    BY <1>0, <1>c, <1>1, <1>7 DEF Stored, Writing, Untouched
  <2>2. status'[x] = status[x] /\ owner'[x] = owner[x] /\ tickets'[x] = tickets[x]
    BY <1>2, <1>3, <1>7
  <2>3. RaceSeatInv(x) /\ req' = req
    BY <1>0 DEF RaceInv
  <2> QED
    BY <2>1, <2>2, <2>3 DEF RaceSeatInv, Fields
<1>8. RaceSeatInv(s)'
  <2>1. \A v \in Workers \ {w} : \A g \in Fields : Stored(v, s, g)' <=> Stored(v, s, g)
    BY <1>0, <1>1 DEF Stored, Writing, Untouched
  <2>2. \A g \in Fields : Stored(w, s, g)' <=> ~last /\ (g = f \/ Stored(w, s, g))
    BY <1>0, <1>c, <1>1 DEF Stored, Writing
  <2>3. last => \A g \in Fields : g = f \/ Stored(w, s, g)
    BY <1>0, <1>c DEF Stored, Writing, last
  <2>4. RaceSeatInv(s)
    BY DEF RaceInv
  <2>5. req' = req /\ req[w].client = c
    BY <1>0, <1>c
  <2>6. status'[s] = "Available" =>
          tickets'[s] = {} /\ \A v \in Workers : ~Stored(v, s, "status")'
    BY <1>2, <1>3, <2>1, <2>2, <2>3, <2>4 DEF RaceSeatInv, Fields
  <2>7. status'[s] = "Reserved" =>
          tickets'[s] # {} \/ \E v \in Workers : Stored(v, s, "status")'
    BY <1>2, <1>3, <2>1, <2>2, <2>4 DEF RaceSeatInv, Fields
  <2>8. owner'[s] = Nobody =>
          tickets'[s] = {} /\ \A v \in Workers : ~Stored(v, s, "owner")'
    BY <1>b, <1>2, <1>3, <2>1, <2>2, <2>3, <2>4 DEF RaceSeatInv, Fields
  <2>9. ASSUME owner'[s] # Nobody
         PROVE  \/ owner'[s] \in tickets'[s]
                \/ \E v \in Workers : Stored(v, s, "owner")' /\ req[v].client = owner'[s]
    <3>1. CASE last
      BY <1>2, <1>3, <2>1, <2>4, <2>5, <2>9, <3>1 DEF RaceSeatInv, Fields
    <3>2. CASE ~last
      BY <1>2, <1>3, <2>1, <2>2, <2>4, <2>5, <2>9, <3>2 DEF RaceSeatInv, Fields
    <3> QED
      BY <3>1, <3>2
  <2> QED
    BY <2>5, <2>6, <2>7, <2>8, <2>9 DEF RaceSeatInv
<1> QED
  BY <1>5, <1>6, <1>7, <1>8 DEF RaceInv

\* Every step of a worker keeps the invariant when no client cancels.
LEMMA RaceStep ==
  ASSUME "Cancel" \notin Commands, TypeOK, RaceInv, NEW w \in Workers,
         Step(w) \/ \E r \in Offered : Dispatch(w, r)
  PROVE  RaceInv'
<1> USE DEF Goto
<1>f. req[w] \in Requests /\ req[w].command \in SeatCommands \cup OtherCommands
  BY RequestFields DEF TypeOK
<1>i. RaceWorkerInv(w) /\ req[w].command # "Cancel"
  BY DEF RaceInv, RaceWorkerInv
<1>1. CASE \E r \in Offered : Dispatch(w, r)
  <2>1. RaceWorkerInv(w)'
    BY <1>1, <1>i DEF Dispatch, Offered, RaceWorkerInv, TypeOK
  <2> QED
    BY <1>1, <2>1, RaceQuietStep DEF Dispatch, Untouched, TypeOK
<1>2. CASE RespondDirectly(w)
  <2>1. RaceWorkerInv(w)'
    BY <1>2, <1>i DEF RespondDirectly, RaceWorkerInv, TypeOK
  <2> QED
    BY <1>2, <2>1, RaceQuietStep DEF RespondDirectly, Untouched, TypeOK
<1>3. CASE Lock(w)
  <2>1. RaceWorkerInv(w)'
    BY <1>3, <1>i DEF Lock, RaceWorkerInv, TypeOK, Fields
  <2> QED
    BY <1>3, <2>1, RaceQuietStep DEF Lock, Untouched, TypeOK
<1>4. CASE CheckWithoutSeat(w)
  <2>1. RaceWorkerInv(w)'
    BY <1>4, <1>i DEF CheckWithoutSeat, RaceWorkerInv, TypeOK, has_seat
  <2> QED
    BY <1>4, <2>1, RaceQuietStep DEF CheckWithoutSeat, Untouched, TypeOK
<1>5. ASSUME NEW f \in Fields, CopyField(w, f) PROVE RaceInv'
  <2> DEFINE s == req[w].seat
  <2>0. /\ pc[w] = "check" /\ s \in Seats /\ req[w].command # "List"
        /\ req' = req /\ status' = status
        /\ f \in todo[w] /\ todo[w] \subseteq Fields
    BY <1>5 DEF CopyField, has_seat, TypeOK
  <2>1. /\ snap'[w].status = IF f = "status" THEN status[s] ELSE snap[w].status
        /\ todo'[w] = todo[w] \ {f}
        /\ pc'[w] = IF todo[w] = {f} THEN AfterCheck(w) ELSE "check"
        /\ success'[w] = (req[w].command = "Status" /\ todo[w] = {f})
    BY <1>5 DEF CopyField, TypeOK
  <2>2. req[w].command \in {"Status", "Reserve"}
    BY <1>f, <1>i, <2>0 DEF RaceWorkerInv, SeatCommands, OtherCommands
  <2>3. RaceWorkerInv(w)'
    <3>1. CASE todo[w] = {f}
      <4>1. snap'[w].status = "Reserved" => status[s] = "Reserved"
        BY <1>i, <2>0, <2>1, <3>1 DEF RaceWorkerInv
      <4> QED
        BY <2>0, <2>1, <2>2, <3>1, <4>1 DEF RaceWorkerInv, AfterCheck
    <3>2. CASE todo[w] # {f}
      BY <1>i, <2>0, <2>1, <2>2, <3>2 DEF RaceWorkerInv
    <3> QED
      BY <3>1, <3>2
  <2> QED
    BY <1>5, <2>0, <2>1, <2>3, RaceQuietStep DEF CopyField, Untouched, TypeOK, AfterCheck
<1>6. ASSUME NEW f \in Fields, WriteField(w, f) PROVE RaceInv'
  BY <1>6, RaceWriteStep
\* A test that passes before the stores has just read Available.
<1>7. ASSUME NEW at \in {"guard", "update"}, NEW passed \in BOOLEAN, NEW next \in {"update", "write"},
             Test(w, at, passed, next),
             passed => status[req[w].seat] = "Available"
      PROVE  RaceInv'
  <2>0. pc[w] = at /\ UNCHANGED <<status, owner, req, snap, success, tickets>>
    BY <1>7 DEF Test
  <2>1. /\ pc'[w] = IF passed THEN next ELSE "unlock"
        /\ todo'[w] = IF passed /\ next = "write" THEN Fields ELSE {}
        /\ \A v \in Workers \ {w} : Untouched(v)
    BY <1>7 DEF Test, Untouched, TypeOK
  <2>2. snap[w].status \in {"Available", "Reserved"}
    BY DEF TypeOK, Seat, SeatStatus
  <2>3. RaceWorkerInv(w)'
    BY <1>7, <1>i, <2>0, <2>1, <2>2 DEF RaceWorkerInv, Fields
  <2> QED
    BY <1>7, <2>0, <2>1, <2>3, RaceQuietStep
<1>8. CASE GuardReserve(w)
  BY <1>7, <1>8 DEF GuardReserve, is_available
<1>9. CASE SeatReserve(w)
  <2>1. status[req[w].seat] \in SeatStatus
    BY <1>9, <1>i DEF SeatReserve, Test, RaceWorkerInv, TypeOK
  <2> QED
    BY <1>7, <1>9, <2>1 DEF SeatReserve, SeatAcceptsReserve, is_reserved, SeatStatus
<1>10. CASE GuardCancel(w) \/ SeatCancel(w)
  BY <1>10, <1>i DEF GuardCancel, SeatCancel
<1>11. CASE Unlock(w)
  <2>1. RaceWorkerInv(w)'
    BY <1>11, <1>i DEF Unlock, RaceWorkerInv, TypeOK
  <2> QED
    BY <1>11, <2>1, RaceQuietStep DEF Unlock, Untouched, TypeOK
<1>12. CASE Respond(w)
  <2>1. RaceWorkerInv(w)'
    BY <1>12, <1>i DEF Respond, RaceWorkerInv, TypeOK, NoRequest
  <2> QED
    BY <1>12, <2>1, RaceQuietStep DEF Respond, Untouched, TypeOK
<1> QED
  BY <1>1, <1>2, <1>3, <1>4, <1>5, <1>6, <1>8, <1>9, <1>10, <1>11, <1>12 DEF Step

\* What a race without CANCEL cannot break, for any number of workers, seats
\* and clients, with the mutex or without it.
THEOREM RaceHolds == ASSUME "Cancel" \notin Commands PROVE Spec => [](TypeOK /\ RaceInv)
<1>1. Init => RaceInv
  BY RaceInit
<1>2. TypeOK /\ RaceInv /\ [Next]_vars => RaceInv'
  <2>1. CASE Next
    BY <2>1, RaceStep DEF Next
  <2>2. CASE UNCHANGED vars
    BY <2>2 DEF vars, RaceInv, RaceWorkerInv, RaceSeatInv, Stored, Writing
  <2> QED
    BY <2>1, <2>2
<1> QED
  BY <1>1, <1>2, TypeCorrect, PTL DEF Spec

\* Without CANCEL a client whose CHECK said ALREADY RESERVED is never told
\* SUCCESS, however the threads race for the seat.
THEOREM RaceSuccessFollowsCheck ==
  ASSUME "Cancel" \notin Commands
  PROVE  Spec => []SuccessFollowsCheck
<1>1. RaceInv => SuccessFollowsCheck
  BY DEF RaceInv, RaceWorkerInv, SuccessFollowsCheck, is_available
<1> QED
  BY <1>1, RaceHolds, PTL

\* Without CANCEL even a seat that the threads sold twice comes to rest with an
\* owner who was told SUCCESS for it, and a seat nobody bought stays vacant.
THEOREM RaceOwnerHoldsTicket ==
  ASSUME "Cancel" \notin Commands
  PROVE  Spec => []OwnerHoldsTicket
<1>1. TypeOK /\ RaceInv => OwnerHoldsTicket
  <2> SUFFICES ASSUME TypeOK, RaceInv, NEW s \in Seats, \A w \in Workers : ~Writing(w, s)
               PROVE  /\ is_reserved(status[s]) <=> tickets[s] # {}
                      /\ is_reserved(status[s]) => owner[s] \in tickets[s]
                      /\ is_available(status[s]) => owner[s] = Nobody
    BY DEF OwnerHoldsTicket
  <2>1. RaceSeatInv(s) /\ status[s] \in SeatStatus
    BY DEF RaceInv, TypeOK
  <2> QED
    BY <2>1 DEF RaceSeatInv, Stored, SeatStatus, is_reserved, is_available
<1> QED
  BY <1>1, RaceHolds, PTL
=============================================================================
