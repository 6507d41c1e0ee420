--------------------------- MODULE BookingsProofs ---------------------------
(***************************************************************************)
(* Theorems about Bookings, for any sets of requests, slots and bookings.  *)
(***************************************************************************)
EXTENDS Bookings, TLAPS

-----------------------------------------------------------------------------
(* What the helpers do to the tables and to the requests.                  *)

\* UPDATE slots keeps the table a table of slots, and keeps every row.
LEMMA WriteSlotKeeps ==
    ASSUME NEW table \in [SlotId -> SlotRow \cup {NoRow}],
           NEW s, NEW row \in SlotRow
    PROVE  /\ WriteSlot(table, s, row) \in [SlotId -> SlotRow \cup {NoRow}]
           /\ \A x \in SlotId :
                 /\ x # s => WriteSlot(table, s, row)[x] = table[x]
                 /\ table[x] # NoRow => WriteSlot(table, s, row)[x] # NoRow
           /\ s \in SlotId /\ table[s] # NoRow => WriteSlot(table, s, row)[s] = row
           /\ s \in SlotId /\ table[s] = NoRow => WriteSlot(table, s, row)[s] = NoRow
BY BookingsAssumption DEF WriteSlot

\* Idle is a request, and it is in no phase of an endpoint.
LEMMA IdleIsRequest == Idle \in Request
BY DEF Idle, Request, Pc

\* A step of one request changes nothing of the others.
LEMMA GoToKeeps ==
    ASSUME req \in [Req -> Request], NEW r \in Req, NEW pc \in Pc, GoTo(r, pc)
    PROVE  /\ req' \in [Req -> Request]
           /\ req'[r].pc = pc /\ req'[r].slot = req[r].slot
           /\ req'[r].booking = req[r].booking /\ req'[r].seen = req[r].seen
           /\ \A q \in Req : q # r => req'[q] = req[q]
BY DEF GoTo, Request

LEMMA FinishKeeps ==
    ASSUME req \in [Req -> Request], NEW r \in Req, Finish(r)
    PROVE  /\ req' \in [Req -> Request]
           /\ req'[r].pc = "idle" /\ req'[r].booking = NoBooking
           /\ \A q \in Req : q # r => req'[q] = req[q]
BY IdleIsRequest DEF Finish, Idle

LEMMA StartKeeps ==
    ASSUME req \in [Req -> Request], NEW r \in Req, NEW pc \in Pc,
           NEW s \in SlotId \cup {NoSlot}, NEW b \in BookingId \cup {NoBooking},
           NEW seen \in SlotId \cup {NoSlot}, Start(r, pc, s, b, seen)
    PROVE  /\ req' \in [Req -> Request]
           /\ req'[r] = [pc |-> pc, slot |-> s, booking |-> b, seen |-> seen]
           /\ \A q \in Req : q # r => req'[q] = req[q]
BY DEF Start, Request

-----------------------------------------------------------------------------
(* Types, and what a request in flight knows.                              *)

BaseInv == TypeOK /\ RequestShape

LEMMA BaseInit == Init => BaseInv
BY IdleIsRequest DEF Init, BaseInv, TypeOK, RequestShape, Idle, FreeSlot, SlotRow,
   CreatePc, ReleasePc, ReschedulePc

\* A row that exists has a slot and keeps its type when its status changes.
LEMMA StatusKeepsRow ==
    ASSUME TypeOK, NEW b \in BookingId, Exists(b),
           NEW status \in {"pending", "confirmed", "cancelled"},
           UpdateBookingStatus(b, status)
    PROVE  /\ bookings' \in [BookingId -> BookingRow \cup {NoRow}]
           /\ bookings'[b] # NoRow
           /\ bookings'[b].slot = bookings[b].slot
           /\ bookings'[b].status = status
           /\ bookings'[b].stamped = (bookings[b].stamped \/ status = "cancelled")
           /\ \A x \in BookingId : x # b => bookings'[x] = bookings[x]
<1>1. bookings[b] \in BookingRow
    BY DEF TypeOK, Exists
<1>2. bookings[b].stamped \in BOOLEAN
    BY <1>1 DEF BookingRow
<1>. DEFINE row == [[bookings[b] EXCEPT !.status = status]
                        EXCEPT !.stamped = @ \/ status = "cancelled"]
<1>3. bookings' = [bookings EXCEPT ![b] = row]
    BY DEF UpdateBookingStatus, TypeOK
<1>4. /\ row \in BookingRow
      /\ row.slot = bookings[b].slot /\ row.status = status
      /\ row.stamped = (bookings[b].stamped \/ status = "cancelled")
    BY <1>1, <1>2 DEF BookingRow
<1>5. row # NoRow
    BY <1>4, BookingsAssumption
<1>. HIDE DEF row
<1>. QED
    BY <1>3, <1>4, <1>5 DEF TypeOK

LEMMA BaseNext == BaseInv /\ [Next]_vars => BaseInv'
<1>. SUFFICES ASSUME BaseInv, [Next]_vars
              PROVE  BaseInv'
    OBVIOUS
<1>. USE DEF BaseInv
<1>0. req \in [Req -> Request] /\ RequestShape
    BY DEF TypeOK
<1>1. ASSUME NEW r \in Req, NEW s \in SlotId, CreateLock(r, s)
      PROVE  BaseInv'
    <2>1. /\ Start(r, "check", s, NoBooking, NoSlot)
          /\ "check" \in Pc
        BY <1>1 DEF CreateLock, Pc, CreatePc
    <2>2. /\ req' \in [Req -> Request]
          /\ req'[r] = [pc |-> "check", slot |-> s, booking |-> NoBooking, seen |-> NoSlot]
          /\ \A q \in Req : q # r => req'[q] = req[q]
        BY <1>0, <2>1, StartKeeps
    <2>. QED
        BY <1>0, <1>1, <2>2
        DEF CreateLock, TypeOK, RequestShape, CreatePc, ReleasePc, ReschedulePc
<1>2. ASSUME NEW r \in Req, CreateCheck(r)
      PROVE  BaseInv'
    <2>1. PICK pc \in {"insert", "unlock"} : GoTo(r, pc)
        BY <1>2 DEF CreateCheck
    <2>. QED
        BY <1>0, <1>2, <2>1, GoToKeeps
        DEF CreateCheck, TypeOK, RequestShape, Pc, CreatePc, ReleasePc, ReschedulePc
<1>3. ASSUME NEW r \in Req, NEW b \in BookingId, CreateInsert(r, b)
      PROVE  BaseInv'
    <2>1. req[r].slot \in SlotId
        BY <1>3 DEF CreateInsert, RequestShape, CreatePc
    <2>2. BookedBy(b) \in SlotRow /\ NewBooking(req[r].slot) \in BookingRow
        BY <2>1, BookingsAssumption DEF BookedBy, SlotRow, NewBooking, BookingRow
    <2>3. slots' \in [SlotId -> SlotRow \cup {NoRow}]
        BY <1>3, <2>2, WriteSlotKeeps DEF CreateInsert, TypeOK
    <2>4. bookings' \in [BookingId -> BookingRow \cup {NoRow}]
        BY <1>3, <2>2 DEF CreateInsert, TypeOK
    <2>5. /\ req' \in [Req -> Request]
          /\ req'[r].pc = "unlock" /\ req'[r].slot = req[r].slot
          /\ \A q \in Req : q # r => req'[q] = req[q]
        BY <1>0, <1>3 DEF CreateInsert, Request, Pc, CreatePc
    <2>. QED
        BY <1>0, <1>3, <2>1, <2>3, <2>4, <2>5
        DEF CreateInsert, TypeOK, RequestShape, CreatePc, ReleasePc, ReschedulePc
<1>4. ASSUME NEW r \in Req, CreateUnlock(r)
      PROVE  BaseInv'
    BY <1>0, <1>4, FinishKeeps
    DEF CreateUnlock, TypeOK, RequestShape, CreatePc, ReleasePc, ReschedulePc
<1>5. ASSUME NEW s \in SlotId, LockExpire(s)
      PROVE  BaseInv'
    BY <1>5 DEF LockExpire, TypeOK, RequestShape
<1>6. ASSUME NEW r \in Req, NEW b \in BookingId, CancelGet(r, b) \/ DeleteGet(r, b)
      PROVE  BaseInv'
    <2>1. bookings[b].slot \in SlotId
        BY <1>6 DEF CancelGet, DeleteGet, Exists, TypeOK, BookingRow
    <2>2. PICK pc \in {"cancel", "delete"} : Start(r, pc, NoSlot, b, bookings[b].slot)
        BY <1>6 DEF CancelGet, DeleteGet
    <2>3. pc \in Pc
        BY DEF Pc, ReleasePc
    <2>4. /\ req' \in [Req -> Request]
          /\ req'[r] = [pc |-> pc, slot |-> NoSlot, booking |-> b,
                        seen |-> bookings[b].slot]
          /\ \A q \in Req : q # r => req'[q] = req[q]
        BY <1>0, <2>1, <2>2, <2>3, StartKeeps
    <2>. QED
        BY <1>0, <1>6, <2>1, <2>4
        DEF CancelGet, DeleteGet, TypeOK, RequestShape, CreatePc, ReleasePc, ReschedulePc
<1>7. ASSUME NEW r \in Req, CancelStatus(r)
      PROVE  BaseInv'
    <2>1. req[r].booking \in BookingId /\ req[r].seen \in SlotId
        BY <1>7 DEF CancelStatus, RequestShape, ReleasePc
    <2>2. bookings' \in [BookingId -> BookingRow \cup {NoRow}]
        BY <1>7, <2>1, StatusKeepsRow DEF CancelStatus, TypeOK
    <2>. QED
        BY <1>0, <1>7, <2>1, <2>2, GoToKeeps, FinishKeeps
        DEF CancelStatus, TypeOK, RequestShape, Pc, CreatePc, ReleasePc, ReschedulePc
<1>8. ASSUME NEW r \in Req, CancelFree(r) \/ DeleteFree(r)
      PROVE  BaseInv'
    <2>1. FreeSlot \in SlotRow
        BY DEF FreeSlot, SlotRow
    <2>2. slots' \in [SlotId -> SlotRow \cup {NoRow}]
        BY <1>8, <2>1, WriteSlotKeeps DEF CancelFree, DeleteFree, TypeOK
    <2>. QED
        BY <1>0, <1>8, <2>2, FinishKeeps
        DEF CancelFree, DeleteFree, TypeOK, RequestShape, CreatePc, ReleasePc, ReschedulePc
<1>9. ASSUME NEW r \in Req, NEW b \in BookingId, ConfirmBooking(r, b)
      PROVE  BaseInv'
    BY <1>9, StatusKeepsRow DEF ConfirmBooking, TypeOK, RequestShape
<1>10. ASSUME NEW r \in Req, NEW b \in BookingId, NEW s \in SlotId,
              RescheduleGet(r, b, s)
       PROVE  BaseInv'
    <2>1. /\ Start(r, "resch_check", s, b, NoSlot)
          /\ "resch_check" \in Pc
        BY <1>10 DEF RescheduleGet, Pc, ReschedulePc
    <2>2. /\ req' \in [Req -> Request]
          /\ req'[r] = [pc |-> "resch_check", slot |-> s, booking |-> b, seen |-> NoSlot]
          /\ \A q \in Req : q # r => req'[q] = req[q]
        BY <1>0, <2>1, StartKeeps
    <2>. QED
        BY <1>0, <1>10, <2>2
        DEF RescheduleGet, TypeOK, RequestShape, CreatePc, ReleasePc, ReschedulePc
<1>11. ASSUME NEW r \in Req, RescheduleCheck(r)
       PROVE  BaseInv'
    BY <1>0, <1>11, GoToKeeps, FinishKeeps
    DEF RescheduleCheck, TypeOK, RequestShape, Pc, CreatePc, ReleasePc, ReschedulePc
<1>12. ASSUME NEW r \in Req, RescheduleSelect(r)
       PROVE  BaseInv'
    <2>1. req[r].booking \in BookingId /\ req[r].slot \in SlotId
        BY <1>12 DEF RescheduleSelect, RequestShape, ReschedulePc
    <2>2. CASE Exists(req[r].booking)
        <3>1. bookings[req[r].booking].slot \in SlotId
            BY <2>1, <2>2 DEF Exists, TypeOK, BookingRow
        <3>2. /\ req' \in [Req -> Request]
              /\ req'[r].pc = "resch_write" /\ req'[r].seen \in SlotId
              /\ req'[r].slot = req[r].slot /\ req'[r].booking = req[r].booking
              /\ \A q \in Req : q # r => req'[q] = req[q]
            BY <1>0, <1>12, <2>2, <3>1 DEF RescheduleSelect, Request, Pc, ReschedulePc
        <3>. QED
            BY <1>0, <1>12, <2>1, <3>2
            DEF RescheduleSelect, TypeOK, RequestShape, CreatePc, ReleasePc, ReschedulePc
    <2>3. CASE ~Exists(req[r].booking)
        BY <1>0, <1>12, <2>3, FinishKeeps
        DEF RescheduleSelect, TypeOK, RequestShape, CreatePc, ReleasePc, ReschedulePc
    <2>. QED
        BY <2>2, <2>3
<1>13. ASSUME NEW r \in Req, RescheduleWrite(r)
       PROVE  BaseInv'
    <2>1. /\ req[r].booking \in BookingId
          /\ req[r].slot \in SlotId /\ req[r].seen \in SlotId
        BY <1>13 DEF RescheduleWrite, RequestShape, ReschedulePc
    <2>2. FreeSlot \in SlotRow /\ BookedBy(req[r].booking) \in SlotRow
        BY <2>1 DEF FreeSlot, BookedBy, SlotRow
    <2>3. slots' \in [SlotId -> SlotRow \cup {NoRow}]
        BY <1>13, <2>2, WriteSlotKeeps DEF RescheduleWrite, TypeOK
    <2>4. bookings' \in [BookingId -> BookingRow \cup {NoRow}]
        BY <1>13, <2>1 DEF RescheduleWrite, TypeOK, Exists, BookingRow
    <2>. QED
        BY <1>0, <1>13, <2>3, <2>4, FinishKeeps
        DEF RescheduleWrite, TypeOK, RequestShape, CreatePc, ReleasePc, ReschedulePc
<1>14. ASSUME NEW r \in Req, DeleteRow(r)
       PROVE  BaseInv'
    BY <1>0, <1>14, GoToKeeps, FinishKeeps
    DEF DeleteRow, TypeOK, RequestShape, Pc, CreatePc, ReleasePc, ReschedulePc
<1>15. ASSUME NEW r \in Req, NEW b \in BookingId, CreateAttendance(r, b)
       PROVE  BaseInv'
    BY <1>15 DEF CreateAttendance, TypeOK, RequestShape
<1>16. ASSUME NEW S \in SUBSET SlotId, SlotsGenerated(S)
       PROVE  BaseInv'
    BY <1>16 DEF SlotsGenerated, TypeOK, RequestShape, FreeSlot, SlotRow
<1>17. ASSUME NEW r \in Req, Fail(r)
       PROVE  BaseInv'
    BY <1>0, <1>17, GoToKeeps, FinishKeeps
    DEF Fail, TypeOK, RequestShape, Pc, CreatePc, ReleasePc, ReschedulePc
<1>18. CASE UNCHANGED vars
    BY <1>18 DEF vars, TypeOK, RequestShape, InCreate
<1>. QED
    BY <1>1, <1>2, <1>3, <1>4, <1>5, <1>6, <1>7, <1>8, <1>9, <1>10, <1>11, <1>12,
       <1>13, <1>14, <1>15, <1>16, <1>17, <1>18
    DEF Next, Arrive, Proceed

\* Every column and every request keeps its type: no endpoint writes a row
\* the schema does not allow or works on a booking it has not read.
THEOREM TypeCorrect == Spec => []TypeOK
<1>1. BaseInv => TypeOK
    BY DEF BaseInv
<1>. QED
    BY BaseInit, BaseNext, <1>1, PTL DEF Spec

-----------------------------------------------------------------------------
(* What holds whoever the clients are and whatever fails.                  *)

\* No statement deletes a slot.
LEMMA SlotsStay ==
    ASSUME BaseInv, [Next]_vars, NEW s \in SlotId, slots[s] # NoRow
    PROVE  slots'[s] # NoRow
<1>. USE DEF BaseInv, TypeOK
<1>1. FreeSlot \in SlotRow
    BY DEF FreeSlot, SlotRow
<1>2. ASSUME NEW r \in Req, NEW b \in BookingId, CreateInsert(r, b)
      PROVE  slots'[s] # NoRow
    <2>1. BookedBy(b) \in SlotRow
        BY DEF BookedBy, SlotRow
    <2>. QED
        BY <1>2, <2>1, WriteSlotKeeps DEF CreateInsert
<1>3. ASSUME NEW r \in Req, CancelFree(r) \/ DeleteFree(r)
      PROVE  slots'[s] # NoRow
    BY <1>1, <1>3, WriteSlotKeeps DEF CancelFree, DeleteFree
<1>4. ASSUME NEW r \in Req, RescheduleWrite(r)
      PROVE  slots'[s] # NoRow
    <2>. DEFINE freed == WriteSlot(slots, req[r].seen, FreeSlot)
    <2>1. BookedBy(req[r].booking) \in SlotRow
        BY <1>4 DEF RescheduleWrite, RequestShape, ReschedulePc, BookedBy, SlotRow
    <2>2. freed \in [SlotId -> SlotRow \cup {NoRow}] /\ freed[s] # NoRow
        BY <1>1, WriteSlotKeeps
    <2>3. slots' = WriteSlot(freed, req[r].slot, BookedBy(req[r].booking))
        BY <1>4 DEF RescheduleWrite
    <2>. HIDE DEF freed
    <2>. QED
        BY <2>1, <2>2, <2>3, WriteSlotKeeps
<1>5. ASSUME NEW S \in SUBSET SlotId, SlotsGenerated(S)
      PROVE  slots'[s] # NoRow
    BY <1>1, <1>5, BookingsAssumption DEF SlotsGenerated
<1>6. CASE UNCHANGED slots
    BY <1>6
<1>. QED
    BY <1>2, <1>3, <1>4, <1>5, <1>6
    DEF Next, Arrive, Proceed, vars, CreateLock, CreateCheck, CreateUnlock, LockExpire,
        CancelGet, CancelStatus, ConfirmBooking, RescheduleGet, RescheduleCheck,
        RescheduleSelect, DeleteGet, DeleteRow, CreateAttendance, Fail

\* A step of a request changes nothing of the others.
LEMMA OthersWait ==
    ASSUME TypeOK, NEW r \in Req, NEW p \in Req, p # r,
           Arrive(r) \/ Proceed(r) \/ Fail(r)
    PROVE  req'[p] = req[p]
<1>1. req \in [Req -> Request]
    BY DEF TypeOK
<1>2. CASE Arrive(r)
    BY <1>1, <1>2
    DEF Arrive, CreateLock, CancelGet, ConfirmBooking, DeleteGet, CreateAttendance,
        RescheduleGet, Start
<1>3. CASE Proceed(r)
    BY <1>1, <1>3
    DEF Proceed, CreateCheck, CreateInsert, CreateUnlock, CancelStatus, CancelFree,
        RescheduleCheck, RescheduleSelect, RescheduleWrite, DeleteRow, DeleteFree,
        GoTo, Finish
<1>4. CASE Fail(r)
    BY <1>1, <1>4 DEF Fail, GoTo, Finish
<1>. QED
    BY <1>2, <1>3, <1>4

\* A step moves the request it belongs to and no other.
LEMMA OneRequestMoves ==
    ASSUME BaseInv, [Next]_vars, NEW q \in Req
    PROVE  \/ req'[q] = req[q]
           \/ /\ Arrive(q) \/ Proceed(q) \/ Fail(q)
              /\ \A p \in Req : p # q => req'[p] = req[p]
<1>1. ASSUME NEW r \in Req, NEW p \in Req, Arrive(r) \/ Proceed(r) \/ Fail(r), p # r
      PROVE  req'[p] = req[p]
    BY <1>1, OthersWait DEF BaseInv
<1>2. ASSUME NEW s \in SlotId, LockExpire(s)
      PROVE  req'[q] = req[q]
    BY <1>2 DEF LockExpire
<1>3. ASSUME NEW S \in SUBSET SlotId, SlotsGenerated(S)
      PROVE  req'[q] = req[q]
    BY <1>3 DEF SlotsGenerated
<1>4. CASE UNCHANGED vars
    BY <1>4 DEF vars
<1>. QED
    BY <1>1, <1>2, <1>3, <1>4 DEF Next

\* Only a check of the slot brings a request to a statement that writes it.
LEMMA WriterHasChecked ==
    ASSUME BaseInv, [Next]_vars, NEW q \in Req,
           req'[q].pc \in {"insert", "resch_select", "resch_write"}
    PROVE  \/ req'[q] = req[q]
           \/ CreateCheck(q) \/ RescheduleCheck(q) \/ RescheduleSelect(q)
<1>1. req \in [Req -> Request]
    BY DEF BaseInv, TypeOK
<1>2. CASE Arrive(q)
    BY <1>1, <1>2
    DEF Arrive, CreateLock, CancelGet, ConfirmBooking, DeleteGet, CreateAttendance,
        RescheduleGet, Start
<1>3. CASE Proceed(q)
    <2>1. CASE \E b \in BookingId : CreateInsert(q, b)
        BY <1>1, <2>1 DEF CreateInsert, Request
    <2>2. CASE CreateUnlock(q) \/ CancelFree(q) \/ DeleteFree(q) \/ RescheduleWrite(q)
        BY <1>1, <2>2, FinishKeeps
        DEF CreateUnlock, CancelFree, DeleteFree, RescheduleWrite
    <2>3. CASE CancelStatus(q) \/ DeleteRow(q)
        BY <1>1, <2>3, GoToKeeps, FinishKeeps DEF CancelStatus, DeleteRow, Pc, ReleasePc
    <2>. QED
        BY <1>3, <2>1, <2>2, <2>3 DEF Proceed
<1>4. CASE Fail(q)
    BY <1>1, <1>4, GoToKeeps, FinishKeeps DEF Fail, Pc, CreatePc
<1>. QED
    BY <1>2, <1>3, <1>4, OneRequestMoves

\* How a request gets to, or stays in, the release of a booking.
LEMMA ReleaseMoves ==
    ASSUME BaseInv, [Next]_vars, NEW q \in Req, req'[q].pc \in ReleasePc
    PROVE  \/ req'[q] = req[q]
           \/ \E b \in BookingId :
                 /\ CancelGet(q, b) \/ DeleteGet(q, b)
                 /\ req'[q].pc \in {"cancel", "delete"}
                 /\ req'[q].booking = b /\ req'[q].seen = bookings[b].slot
           \/ /\ CancelStatus(q) \/ DeleteRow(q)
              /\ req'[q].pc \in {"cancel_free", "delete_free"}
              /\ req'[q].booking = req[q].booking /\ req'[q].seen = req[q].seen
<1>1. req \in [Req -> Request]
    BY DEF BaseInv, TypeOK
<1>2. CASE Arrive(q)
    BY <1>1, <1>2
    DEF Arrive, CreateLock, CancelGet, ConfirmBooking, DeleteGet, CreateAttendance,
        RescheduleGet, Start, ReleasePc
<1>3. CASE Proceed(q)
    <2>1. CASE \E b \in BookingId : CreateInsert(q, b)
        BY <1>1, <2>1 DEF CreateInsert, Request, ReleasePc
    <2>2. CASE CreateUnlock(q) \/ CancelFree(q) \/ DeleteFree(q) \/ RescheduleWrite(q)
        BY <1>1, <2>2, FinishKeeps
        DEF CreateUnlock, CancelFree, DeleteFree, RescheduleWrite, ReleasePc
    <2>3. CASE CancelStatus(q) \/ DeleteRow(q)
        BY <1>1, <2>3, GoToKeeps, FinishKeeps DEF CancelStatus, DeleteRow, Pc, ReleasePc
    <2>4. CASE CreateCheck(q) \/ RescheduleCheck(q)
        BY <1>1, <2>4, GoToKeeps, FinishKeeps
        DEF CreateCheck, RescheduleCheck, Pc, CreatePc, ReschedulePc, ReleasePc
    <2>5. CASE RescheduleSelect(q)
        BY <1>1, <2>5, FinishKeeps DEF RescheduleSelect, Request, ReleasePc
    <2>. QED
        BY <1>3, <2>1, <2>2, <2>3, <2>4, <2>5 DEF Proceed
<1>4. CASE Fail(q)
    BY <1>1, <1>4, GoToKeeps, FinishKeeps DEF Fail, Pc, CreatePc, ReleasePc
<1>. QED
    BY <1>2, <1>3, <1>4, OneRequestMoves

\* How a request gets to, or stays in, a reschedule.
LEMMA RescheduleMoves ==
    ASSUME BaseInv, [Next]_vars, NEW q \in Req, InReschedule(q)'
    PROVE  \/ req'[q] = req[q]
           \/ \E b \in BookingId, s \in SlotId :
                 /\ RescheduleGet(q, b, s)
                 /\ req'[q].pc = "resch_check"
                 /\ req'[q].booking = b /\ req'[q].slot = s
           \/ /\ InReschedule(q) /\ UNCHANGED <<slots, bookings>>
              /\ req'[q].booking = req[q].booking /\ req'[q].slot = req[q].slot
              /\ \/ RescheduleCheck(q) /\ req'[q].pc = "resch_select"
                 \/ /\ RescheduleSelect(q) /\ req'[q].pc = "resch_write"
                    /\ req'[q].seen = bookings[req[q].booking].slot
<1>. USE DEF InReschedule
<1>1. req \in [Req -> Request]
    BY DEF BaseInv, TypeOK
<1>2. CASE Arrive(q)
    BY <1>1, <1>2
    DEF Arrive, CreateLock, CancelGet, ConfirmBooking, DeleteGet, CreateAttendance,
        RescheduleGet, Start, ReschedulePc
<1>3. CASE Proceed(q)
    <2>1. CASE \E b \in BookingId : CreateInsert(q, b)
        BY <1>1, <2>1 DEF CreateInsert, Request, ReschedulePc
    <2>2. CASE CreateUnlock(q) \/ CancelFree(q) \/ DeleteFree(q) \/ RescheduleWrite(q)
        BY <1>1, <2>2, FinishKeeps
        DEF CreateUnlock, CancelFree, DeleteFree, RescheduleWrite, ReschedulePc
    <2>3. CASE CancelStatus(q) \/ DeleteRow(q) \/ CreateCheck(q)
        BY <1>1, <2>3, GoToKeeps, FinishKeeps
        DEF CancelStatus, DeleteRow, CreateCheck, Pc, ReleasePc, CreatePc, ReschedulePc
    <2>4. CASE RescheduleCheck(q)
        BY <1>1, <2>4, GoToKeeps, FinishKeeps DEF RescheduleCheck, Pc, ReschedulePc
    <2>5. CASE RescheduleSelect(q)
        BY <1>1, <2>5, FinishKeeps DEF RescheduleSelect, Request, ReschedulePc
    <2>. QED
        BY <1>3, <2>1, <2>2, <2>3, <2>4, <2>5 DEF Proceed
<1>4. CASE Fail(q)
    BY <1>1, <1>4, GoToKeeps, FinishKeeps DEF Fail, Pc, CreatePc, ReschedulePc
<1>. QED
    BY <1>2, <1>3, <1>4, OneRequestMoves

LEMMA SlotCheckedNext == AnyClientInv /\ [Next]_vars => SlotChecked'
<1>1. ASSUME AnyClientInv, [Next]_vars
      PROVE  /\ BaseInv /\ BaseInv' /\ SlotChecked /\ BookingSlotExists /\ [Next]_vars
             /\ req \in [Req -> Request]
             /\ bookings \in [BookingId -> BookingRow \cup {NoRow}]
    BY <1>1, BaseNext DEF AnyClientInv, BaseInv, TypeOK
<1>2. ASSUME AnyClientInv, [Next]_vars, NEW q \in Req,
             req'[q].pc \in {"insert", "resch_select", "resch_write"}
      PROVE  slots'[req'[q].slot] # NoRow
    <2>1. req'[q].slot \in SlotId
        BY <1>1, <1>2 DEF BaseInv, RequestShape, CreatePc, ReschedulePc
    <2>2. slots[req'[q].slot] # NoRow
        <3>1. CASE req'[q] = req[q]
            BY <1>1, <1>2, <3>1 DEF SlotChecked
        <3>2. CASE CreateCheck(q) \/ RescheduleCheck(q)
            <4>1. IsFree(req[q].slot) /\ (GoTo(q, "insert") \/ GoTo(q, "resch_select"))
                BY <1>1, <1>2, <3>2, FinishKeeps DEF CreateCheck, RescheduleCheck, GoTo, Request
            <4>. QED
                BY <1>1, <1>2, <4>1 DEF GoTo, Request, IsFree
        <3>3. CASE RescheduleSelect(q)
            <4>1. req[q].pc = "resch_select" /\ req'[q].slot = req[q].slot
                BY <1>1, <1>2, <3>3, FinishKeeps DEF RescheduleSelect, Request
            <4>. QED
                BY <1>1, <1>2, <4>1 DEF SlotChecked
        <3>. QED
            BY <1>1, <1>2, <3>1, <3>2, <3>3, WriterHasChecked
    <2>. QED
        BY <1>1, <1>2, <2>1, <2>2, SlotsStay
<1>3. ASSUME AnyClientInv, [Next]_vars, NEW q \in Req,
             req'[q].pc \in ReleasePc \cup {"resch_write"}
      PROVE  slots'[req'[q].seen] # NoRow
    <2>1. req'[q].seen \in SlotId
        BY <1>1, <1>3 DEF BaseInv, RequestShape
    <2>2. slots[req'[q].seen] # NoRow
        <3>1. CASE req'[q] = req[q]
            BY <1>1, <1>3, <3>1 DEF SlotChecked
        <3>2. ASSUME NEW b \in BookingId, Exists(b), req'[q].seen = bookings[b].slot
              PROVE  slots[req'[q].seen] # NoRow
            BY <1>1, <1>3, <3>2 DEF BookingSlotExists
        <3>3. CASE req'[q].pc \in ReleasePc
            <4>1. ASSUME NEW b \in BookingId, CancelGet(q, b) \/ DeleteGet(q, b)
                  PROVE  Exists(b)
                BY <4>1 DEF CancelGet, DeleteGet
            <4>2. CancelStatus(q) \/ DeleteRow(q) => req[q].pc \in ReleasePc
                BY DEF CancelStatus, DeleteRow, ReleasePc
            <4>. QED
                BY <1>1, <1>3, <3>1, <3>2, <3>3, <4>1, <4>2, ReleaseMoves DEF SlotChecked
        <3>4. CASE req'[q].pc = "resch_write"
            <4>1. InReschedule(q)'
                BY <3>4 DEF InReschedule, ReschedulePc
            <4>2. CASE RescheduleSelect(q) /\ req'[q].seen = bookings[req[q].booking].slot
                <5>1. req[q].booking \in BookingId
                    BY <1>1, <1>3, <4>2
                    DEF RescheduleSelect, BaseInv, RequestShape, ReschedulePc
                <5>2. Exists(req[q].booking)
                    BY <1>1, <1>3, <3>4, <4>2, FinishKeeps DEF RescheduleSelect
                <5>. QED
                    BY <3>2, <4>2, <5>1, <5>2
            <4>. QED
                BY <1>1, <1>3, <3>1, <3>4, <4>1, <4>2, RescheduleMoves
        <3>. QED
            BY <1>3, <3>3, <3>4
    <2>. QED
        BY <1>1, <1>3, <2>1, <2>2, SlotsStay
<1>. QED
    BY <1>2, <1>3 DEF SlotChecked

\* What can happen to a booking.
LEMMA BookingRowMoves ==
    ASSUME BaseInv, [Next]_vars, NEW b \in BookingId
    PROVE  \/ bookings'[b] = bookings[b]
           \/ \E r \in Req : CreateInsert(r, b)
           \/ \E r \in Req : ConfirmBooking(r, b)
           \/ \E r \in Req : /\ req[r].booking = b /\ Exists(b)
                             /\ CancelStatus(r) \/ RescheduleWrite(r) \/ DeleteRow(r)
<1>1. bookings \in [BookingId -> BookingRow \cup {NoRow}] /\ TypeOK
    BY DEF BaseInv, TypeOK
<1>2. ASSUME NEW r \in Req, NEW x \in BookingId, CreateInsert(r, x), x # b
      PROVE  bookings'[b] = bookings[b]
    BY <1>1, <1>2 DEF CreateInsert
<1>3. ASSUME NEW r \in Req, NEW x \in BookingId, ConfirmBooking(r, x), x # b
      PROVE  bookings'[b] = bookings[b]
    BY <1>1, <1>3, StatusKeepsRow DEF ConfirmBooking
<1>4. ASSUME NEW r \in Req, ~(req[r].booking = b /\ Exists(b)),
             CancelStatus(r) \/ RescheduleWrite(r) \/ DeleteRow(r)
      PROVE  bookings'[b] = bookings[b]
    <2>1. CASE CancelStatus(r)
        <3>1. req[r].booking \in BookingId
            BY <2>1 DEF CancelStatus, BaseInv, RequestShape, ReleasePc
        <3>. QED
            BY <1>1, <1>4, <2>1, <3>1, StatusKeepsRow DEF CancelStatus
    <2>2. CASE RescheduleWrite(r)
        BY <1>1, <1>4, <2>2 DEF RescheduleWrite
    <2>3. CASE DeleteRow(r)
        BY <1>1, <1>4, <2>3 DEF DeleteRow
    <2>. QED
        BY <1>4, <2>1, <2>2, <2>3
<1>5. CASE UNCHANGED bookings
    BY <1>5
<1>. QED
    BY <1>2, <1>3, <1>4, <1>5
    DEF Next, Arrive, Proceed, vars, CreateLock, CreateCheck, CreateUnlock, LockExpire,
        CancelGet, CancelFree, RescheduleGet, RescheduleCheck, RescheduleSelect,
        DeleteGet, DeleteFree, CreateAttendance, SlotsGenerated, Fail

\* Ids are drawn once: minted only grows, and a row comes with its id.
LEMMA MintedGrows ==
    ASSUME [Next]_vars
    PROVE  minted \subseteq minted'
BY DEF Next, Arrive, Proceed, vars, CreateLock, CreateCheck, CreateInsert, CreateUnlock,
       LockExpire, CancelGet, CancelStatus, CancelFree, ConfirmBooking, RescheduleGet,
       RescheduleCheck, RescheduleSelect, RescheduleWrite, DeleteGet, DeleteRow,
       DeleteFree, CreateAttendance, SlotsGenerated, Fail

LEMMA RowsMintedNext == BaseInv /\ RowsMinted /\ [Next]_vars => RowsMinted'
<1>. SUFFICES ASSUME BaseInv, RowsMinted, [Next]_vars, NEW b \in BookingId, Exists(b)'
              PROVE  b \in minted'
    BY DEF RowsMinted
<1>1. CASE Exists(b)
    BY <1>1, MintedGrows DEF RowsMinted
<1>2. ASSUME NEW r \in Req, CreateInsert(r, b)
      PROVE  b \in minted'
    BY <1>2 DEF CreateInsert
<1>3. ASSUME NEW r \in Req, ConfirmBooking(r, b)
      PROVE  Exists(b)
    BY <1>3 DEF ConfirmBooking
<1>. QED
    BY <1>1, <1>2, <1>3, BookingRowMoves DEF Exists

LEMMA BusyMintedNext == BaseInv /\ RowsMinted /\ BusyMinted /\ [Next]_vars => BusyMinted'
<1>. SUFFICES ASSUME BaseInv, RowsMinted, BusyMinted, [Next]_vars, NEW q \in Req
              PROVE  req'[q].booking \in minted' \cup {NoBooking}
    BY DEF BusyMinted
<1>1. req \in [Req -> Request] /\ minted \subseteq minted'
    BY MintedGrows DEF BaseInv, TypeOK
<1>2. CASE req'[q].booking = req[q].booking
    BY <1>1, <1>2 DEF BusyMinted
<1>3. CASE Arrive(q)
    <2>1. CASE \E s \in SlotId : CreateLock(q, s)
        BY <1>1, <2>1 DEF CreateLock, Start
    <2>2. ASSUME NEW b \in BookingId, ConfirmBooking(q, b) \/ CreateAttendance(q, b)
          PROVE  req'[q].booking = req[q].booking
        BY <2>2 DEF ConfirmBooking, CreateAttendance
    <2>3. ASSUME NEW b \in BookingId,
                 \/ CancelGet(q, b) \/ DeleteGet(q, b)
                 \/ \E s \in SlotId : RescheduleGet(q, b, s)
          PROVE  req'[q].booking = b /\ Exists(b)
        BY <1>1, <2>3 DEF CancelGet, DeleteGet, RescheduleGet, Start
    <2>. QED
        BY <1>1, <1>2, <1>3, <2>1, <2>2, <2>3 DEF Arrive, RowsMinted
<1>4. CASE Proceed(q)
    <2>1. ASSUME NEW b \in BookingId, CreateInsert(q, b)
          PROVE  req'[q].booking \in minted'
        BY <1>1, <2>1 DEF CreateInsert, Request
    <2>2. CASE CreateUnlock(q) \/ CancelFree(q) \/ DeleteFree(q) \/ RescheduleWrite(q)
        BY <1>1, <2>2, FinishKeeps DEF CreateUnlock, CancelFree, DeleteFree, RescheduleWrite
    <2>3. CASE CancelStatus(q) \/ DeleteRow(q)
        BY <1>1, <1>2, <2>3, GoToKeeps, FinishKeeps DEF CancelStatus, DeleteRow, Pc, ReleasePc
    <2>4. CASE CreateCheck(q) \/ RescheduleCheck(q)
        BY <1>1, <1>2, <2>4, GoToKeeps, FinishKeeps
        DEF CreateCheck, RescheduleCheck, Pc, CreatePc, ReschedulePc
    <2>5. CASE RescheduleSelect(q)
        BY <1>1, <1>2, <2>5, FinishKeeps DEF RescheduleSelect, Request
    <2>. QED
        BY <1>4, <2>1, <2>2, <2>3, <2>4, <2>5 DEF Proceed
<1>5. CASE Fail(q)
    BY <1>1, <1>2, <1>5, GoToKeeps, FinishKeeps DEF Fail, Pc, CreatePc
<1>. QED
    BY <1>2, <1>3, <1>4, <1>5, OneRequestMoves

LEMMA BookingSlotNext == AnyClientInv /\ [Next]_vars => BookingSlotExists'
<1>. SUFFICES ASSUME AnyClientInv, [Next]_vars, NEW b \in BookingId, Exists(b)'
              PROVE  slots'[bookings'[b].slot] # NoRow
    BY DEF BookingSlotExists
<1>. USE DEF Exists
<1>1. BaseInv /\ BaseInv' /\ TypeOK /\ SlotChecked /\ BookingSlotExists
    BY BaseNext DEF AnyClientInv, BaseInv
<1>2. bookings'[b].slot \in SlotId
    BY <1>1 DEF BaseInv, TypeOK, BookingRow
<1>3. slots[bookings'[b].slot] # NoRow
    <2>1. CASE bookings'[b] = bookings[b]
        BY <1>1, <2>1 DEF BookingSlotExists
    <2>2. ASSUME NEW r \in Req, CreateInsert(r, b)
          PROVE  slots[bookings'[b].slot] # NoRow
        BY <1>1, <2>2 DEF CreateInsert, TypeOK, NewBooking, SlotChecked
    <2>3. ASSUME NEW r \in Req, ConfirmBooking(r, b)
          PROVE  slots[bookings'[b].slot] # NoRow
        BY <1>1, <2>3, StatusKeepsRow DEF ConfirmBooking, BookingSlotExists
    <2>4. ASSUME NEW r \in Req, req[r].booking = b, CancelStatus(r) \/ DeleteRow(r)
          PROVE  slots[bookings'[b].slot] # NoRow
        BY <1>1, <2>4, StatusKeepsRow DEF CancelStatus, DeleteRow, TypeOK, BookingSlotExists
    <2>5. ASSUME NEW r \in Req, req[r].booking = b, Exists(b), RescheduleWrite(r)
          PROVE  slots[bookings'[b].slot] # NoRow
        <3>1. bookings[b] \in BookingRow
            BY <1>1, <2>5 DEF TypeOK
        <3>2. bookings'[b].slot = req[r].slot
            BY <1>1, <2>5, <3>1 DEF RescheduleWrite, TypeOK, BookingRow
        <3>. QED
            BY <1>1, <2>5, <3>2 DEF RescheduleWrite, SlotChecked
    <2>. QED
        BY <1>1, <2>1, <2>2, <2>3, <2>4, <2>5, BookingRowMoves
<1>. QED
    BY <1>1, <1>2, <1>3, SlotsStay

LEMMA AttendanceNext == AnyClientInv /\ [Next]_vars => AttendanceHasBooking'
<1>. SUFFICES ASSUME AnyClientInv, [Next]_vars, NEW b \in attendance'
              PROVE  Exists(b)'
    BY DEF AttendanceHasBooking
<1>. USE DEF Exists
<1>1. BaseInv /\ BaseInv' /\ TypeOK /\ AttendanceHasBooking
    BY BaseNext DEF AnyClientInv, BaseInv
<1>2. ASSUME NEW r \in Req, NEW x \in BookingId, CreateAttendance(r, x)
      PROVE  Exists(b)'
    BY <1>1, <1>2 DEF CreateAttendance, AttendanceHasBooking
<1>3. CASE UNCHANGED attendance
    <2>1. b \in BookingId /\ b \in attendance /\ Exists(b)
        BY <1>1, <1>3 DEF AttendanceHasBooking, TypeOK
    <2>2. ASSUME NEW r \in Req, CreateInsert(r, b)
          PROVE  Exists(b)'
        <3>1. bookings'[b] = NewBooking(req[r].slot)
            BY <1>1, <2>1, <2>2 DEF CreateInsert, TypeOK
        <3>2. NewBooking(req[r].slot) \in BookingRow
            BY <1>1, <2>2, BookingsAssumption
            DEF CreateInsert, BaseInv, RequestShape, CreatePc, NewBooking, BookingRow
        <3>. QED
            BY <3>1, <3>2, BookingsAssumption
    <2>3. ASSUME NEW r \in Req, ConfirmBooking(r, b)
          PROVE  Exists(b)'
        BY <1>1, <2>1, <2>3, StatusKeepsRow DEF ConfirmBooking
    <2>4. ASSUME NEW r \in Req, req[r].booking = b, CancelStatus(r)
          PROVE  Exists(b)'
        BY <1>1, <2>1, <2>4, StatusKeepsRow DEF CancelStatus
    <2>5. ASSUME NEW r \in Req, req[r].booking = b, RescheduleWrite(r)
          PROVE  Exists(b)'
        <3>1. bookings' \in [BookingId -> BookingRow \cup {NoRow}] /\ bookings[b] \in BookingRow
            BY <1>1, <2>1 DEF BaseInv, TypeOK
        <3>2. bookings'[b] = [bookings[b] EXCEPT !.slot = req[r].slot]
            BY <1>1, <2>1, <2>5 DEF RescheduleWrite, TypeOK
        <3>3. req[r].slot \in SlotId
            BY <1>1, <2>5 DEF RescheduleWrite, BaseInv, RequestShape, ReschedulePc
        <3>4. bookings'[b] \in BookingRow
            BY <3>1, <3>2, <3>3 DEF BookingRow
        <3>. QED
            BY <3>4, BookingsAssumption
    <2>6. ASSUME NEW r \in Req, req[r].booking = b, DeleteRow(r)
          PROVE  Exists(b)'
        BY <1>1, <2>1, <2>6 DEF DeleteRow
    <2>. QED
        BY <1>1, <2>1, <2>2, <2>3, <2>4, <2>5, <2>6, BookingRowMoves
<1>. QED
    BY <1>2, <1>3
    DEF Next, Arrive, Proceed, vars, CreateLock, CreateCheck, CreateInsert, CreateUnlock,
        LockExpire, CancelGet, CancelStatus, CancelFree, ConfirmBooking, RescheduleGet,
        RescheduleCheck, RescheduleSelect, RescheduleWrite, DeleteGet, DeleteRow,
        DeleteFree, SlotsGenerated, Fail

LEMMA AnyClientInit == Init => AnyClientInv
<1>1. Init => /\ SlotChecked /\ RowsMinted /\ BusyMinted
              /\ BookingSlotExists /\ AttendanceHasBooking
    BY DEF Init, SlotChecked, RowsMinted, BusyMinted, BookingSlotExists,
           AttendanceHasBooking, Exists, Idle, ReleasePc
<1>. QED
    BY <1>1, BaseInit DEF AnyClientInv, BaseInv

LEMMA AnyClientNext == AnyClientInv /\ [Next]_vars => AnyClientInv'
BY BaseNext, SlotCheckedNext, RowsMintedNext, BusyMintedNext, BookingSlotNext,
   AttendanceNext
   DEF AnyClientInv, BaseInv

\* What every request relies on whoever the clients are and whatever fails:
\* it knows its slot and its booking, and the slot it writes is still a row.
THEOREM AnyClientHolds == Spec => []AnyClientInv
BY AnyClientInit, AnyClientNext, PTL DEF Spec

\* The foreign keys of the schema hold by what the code does, for any clients,
\* interleavings and failures: a booking's slot exists, although it was looked
\* up in an earlier statement, and a booking with an attendance row is never
\* deleted, although DeleteBooking read it before the attendance was written.
THEOREM ForeignKeysHold == Spec => [](BookingSlotExists /\ AttendanceHasBooking)
<1>1. AnyClientInv => BookingSlotExists /\ AttendanceHasBooking
    BY DEF AnyClientInv
<1>. QED
    BY AnyClientHolds, <1>1, PTL

-----------------------------------------------------------------------------
(* The Redis lock.                                                         *)

\* How a request gets to, or stays in, the creation of a booking.
LEMMA CreateMoves ==
    ASSUME BaseInv, [Next]_vars, NEW q \in Req, InCreate(q)'
    PROVE  \/ InCreate(q) /\ req'[q].slot = req[q].slot
           \/ \E s \in SlotId : CreateLock(q, s) /\ req'[q].slot = s
<1>. USE DEF InCreate
<1>1. req \in [Req -> Request]
    BY DEF BaseInv, TypeOK
<1>2. CASE Arrive(q)
    BY <1>1, <1>2
    DEF Arrive, CreateLock, CancelGet, ConfirmBooking, DeleteGet, CreateAttendance,
        RescheduleGet, Start, CreatePc
<1>3. CASE Proceed(q)
    <2>1. CASE \E b \in BookingId : CreateInsert(q, b)
        BY <1>1, <2>1 DEF CreateInsert, Request, CreatePc
    <2>2. CASE CreateUnlock(q) \/ CancelFree(q) \/ DeleteFree(q) \/ RescheduleWrite(q)
        BY <1>1, <2>2, FinishKeeps
        DEF CreateUnlock, CancelFree, DeleteFree, RescheduleWrite, CreatePc
    <2>3. CASE CancelStatus(q) \/ DeleteRow(q)
        BY <1>1, <2>3, GoToKeeps, FinishKeeps
        DEF CancelStatus, DeleteRow, Pc, ReleasePc, CreatePc
    <2>4. CASE CreateCheck(q) \/ RescheduleCheck(q)
        BY <1>1, <2>4, GoToKeeps, FinishKeeps
        DEF CreateCheck, RescheduleCheck, Pc, CreatePc, ReschedulePc
    <2>5. CASE RescheduleSelect(q)
        BY <1>1, <2>5, FinishKeeps DEF RescheduleSelect, Request, CreatePc
    <2>. QED
        BY <1>3, <2>1, <2>2, <2>3, <2>4, <2>5 DEF Proceed
<1>4. CASE Fail(q)
    BY <1>1, <1>4, GoToKeeps, FinishKeeps DEF Fail, Pc, CreatePc
<1>. QED
    BY <1>2, <1>3, <1>4, OneRequestMoves

\* The lock is held as long as a create runs: nobody but its owner deletes the
\* key, because the TTL does not end before the create.
LEMMA LockExclusionNext ==
    Prompt /\ BaseInv /\ LockExclusion /\ [Next]_vars => LockExclusion'
<1>. SUFFICES ASSUME Prompt, BaseInv, LockExclusion, [Next]_vars
              PROVE  LockExclusion'
    OBVIOUS
<1>1. BaseInv /\ TypeOK /\ [Next]_vars /\ LockExclusion /\ Prompt
    BY DEF BaseInv
<1>2. ASSUME NEW q \in Req, InCreate(q)'
      PROVE  req'[q].slot \in lockKeys'
    <2>1. ASSUME NEW s \in SlotId, CreateLock(q, s), req'[q].slot = s
          PROVE  req'[q].slot \in lockKeys'
        BY <2>1 DEF CreateLock
    <2>2. CASE InCreate(q) /\ req'[q].slot = req[q].slot
        <3>1. req[q].slot \in lockKeys
            BY <1>1, <2>2 DEF LockExclusion
        <3>2. ASSUME NEW r \in Req, CreateUnlock(r)
              PROVE  req[q].slot \in lockKeys'
            <4>1. r # q
                BY <1>1, <1>2, <3>2, FinishKeeps
                DEF CreateUnlock, TypeOK, InCreate, CreatePc
            <4>2. InCreate(r)
                BY <3>2 DEF CreateUnlock, InCreate, CreatePc
            <4>. QED
                BY <1>1, <2>2, <3>1, <3>2, <4>1, <4>2 DEF CreateUnlock, LockExclusion
        <3>3. ASSUME NEW s \in SlotId, LockExpire(s)
              PROVE  req[q].slot \in lockKeys'
            BY <1>1, <2>2, <3>1, <3>3 DEF LockExpire
        <3>4. ASSUME NEW r \in Req, NEW s \in SlotId, CreateLock(r, s)
              PROVE  req[q].slot \in lockKeys'
            BY <3>1, <3>4 DEF CreateLock
        <3>5. CASE UNCHANGED lockKeys
            BY <2>2, <3>1, <3>5
        <3>. QED
            BY <1>1, <2>2, <3>2, <3>3, <3>4, <3>5
            DEF Next, Arrive, Proceed, vars, CreateCheck, CreateInsert, CancelGet,
                CancelStatus, CancelFree, ConfirmBooking, RescheduleGet, RescheduleCheck,
                RescheduleSelect, RescheduleWrite, DeleteGet, DeleteRow, DeleteFree,
                CreateAttendance, SlotsGenerated, Fail
    <2>. QED
        BY <1>1, <1>2, <2>1, <2>2, CreateMoves
<1>3. ASSUME NEW q1 \in Req, NEW q2 \in Req, InCreate(q1)', InCreate(q2)',
             req'[q1].slot = req'[q2].slot, q1 # q2
      PROVE  FALSE
    <2>1. ASSUME NEW p \in Req, NEW q \in Req, p # q, InCreate(p)',
                 NEW s \in SlotId, CreateLock(q, s), req'[q].slot = s
          PROVE  req'[p].slot # s
        <3>1. req'[p] = req[p]
            BY <1>1, <2>1 DEF CreateLock, Start, TypeOK
        <3>. QED
            BY <1>1, <2>1, <3>1 DEF CreateLock, LockExclusion, InCreate
    <2>2. CASE /\ InCreate(q1) /\ req'[q1].slot = req[q1].slot
               /\ InCreate(q2) /\ req'[q2].slot = req[q2].slot
        BY <1>1, <1>3, <2>2 DEF LockExclusion
    <2>. QED
        BY <1>1, <1>3, <2>1, <2>2, CreateMoves
<1>. QED
    BY <1>2, <1>3 DEF LockExclusion

\* Two creates of one slot never run together, whoever the clients are and
\* whichever requests die, as long as no create outlives the TTL of its lock.
THEOREM LockExcludes == Prompt => (Spec => []LockExclusion)
<1>. SUFFICES ASSUME Prompt
              PROVE  Spec => []LockExclusion
    OBVIOUS
<1>1. Init => LockExclusion
    BY DEF Init, Idle, LockExclusion, InCreate, CreatePc
<1>2. BaseInv /\ LockExclusion /\ [Next]_vars => BaseInv' /\ LockExclusion'
    BY BaseNext, LockExclusionNext
<1>. QED
    BY BaseInit, <1>1, <1>2, PTL DEF Spec

-----------------------------------------------------------------------------
(* Careful clients and a prompt server.                                    *)

CarefulService == Careful /\ Prompt

\* A slot names one booking, and then it is not free.
LEMMA BookedByInjective ==
    ASSUME NEW b1, NEW b2, BookedBy(b1) = BookedBy(b2)
    PROVE  b1 = b2
<1>1. BookedBy(b1).booking = b1 /\ BookedBy(b2).booking = b2
    BY DEF BookedBy
<1>. QED
    BY <1>1

LEMMA BookedIsNotFree ==
    ASSUME NEW b \in BookingId
    PROVE  /\ BookedBy(b) \in SlotRow /\ FreeSlot \in SlotRow
           /\ BookedBy(b) # NoRow /\ FreeSlot # NoRow
           /\ BookedBy(b).status # "free" /\ FreeSlot.status = "free"
           /\ BookedBy(b) # FreeSlot
<1>1. /\ BookedBy(b) \in SlotRow /\ FreeSlot \in SlotRow
      /\ BookedBy(b).status = "booked" /\ FreeSlot.status = "free"
    BY DEF BookedBy, FreeSlot, SlotRow
<1>. QED
    BY <1>1, BookingsAssumption

\* What RescheduleWrite leaves in a slot.
LEMMA RescheduleWritesSlots ==
    ASSUME BaseInv, NEW r \in Req, RescheduleWrite(r), NEW s \in SlotId
    PROVE  /\ slots[s] = NoRow => slots'[s] = NoRow
           /\ slots[s] # NoRow /\ s = req[r].slot => slots'[s] = BookedBy(req[r].booking)
           /\ slots[s] # NoRow /\ s # req[r].slot /\ s = req[r].seen => slots'[s] = FreeSlot
           /\ s # req[r].slot /\ s # req[r].seen => slots'[s] = slots[s]
<1>. DEFINE freed == WriteSlot(slots, req[r].seen, FreeSlot)
<1>1. req[r].booking \in BookingId
    BY DEF RescheduleWrite, BaseInv, RequestShape, ReschedulePc
<1>2. BookedBy(req[r].booking) \in SlotRow /\ FreeSlot \in SlotRow
    BY <1>1, BookedIsNotFree
<1>3. slots \in [SlotId -> SlotRow \cup {NoRow}]
    BY DEF BaseInv, TypeOK
<1>4. /\ freed \in [SlotId -> SlotRow \cup {NoRow}]
      /\ slots[s] = NoRow => freed[s] = NoRow
      /\ slots[s] # NoRow => freed[s] # NoRow
      /\ slots[s] # NoRow /\ s = req[r].seen => freed[s] = FreeSlot
      /\ s # req[r].seen => freed[s] = slots[s]
    BY <1>2, <1>3, WriteSlotKeeps
<1>5. slots' = WriteSlot(freed, req[r].slot, BookedBy(req[r].booking))
    BY DEF RescheduleWrite
<1>. HIDE DEF freed
<1>6. /\ freed[s] = NoRow /\ s = req[r].slot => slots'[s] = NoRow
      /\ freed[s] # NoRow /\ s = req[r].slot => slots'[s] = BookedBy(req[r].booking)
      /\ s # req[r].slot => slots'[s] = freed[s]
    BY <1>2, <1>4, <1>5, WriteSlotKeeps
<1>. QED
    BY <1>4, <1>6

\* What can happen to a slot.
LEMMA SlotRowMoves ==
    ASSUME BaseInv, [Next]_vars, NEW s \in SlotId
    PROVE  \/ slots'[s] = slots[s]
           \/ slots[s] = NoRow /\ slots'[s] = FreeSlot
           \/ \E r \in Req, b \in BookingId : /\ CreateInsert(r, b) /\ req[r].slot = s
                                            /\ slots'[s] = BookedBy(b)
           \/ \E r \in Req : /\ CancelFree(r) \/ DeleteFree(r)
                             /\ req[r].seen = s /\ slots'[s] = FreeSlot
           \/ \E r \in Req : /\ RescheduleWrite(r)
                             /\ \/ req[r].slot = s /\ slots'[s] = BookedBy(req[r].booking)
                                \/ req[r].seen = s /\ slots'[s] = FreeSlot
<1>. USE DEF BaseInv, TypeOK
<1>1. ASSUME NEW r \in Req, NEW b \in BookingId, CreateInsert(r, b)
      PROVE  \/ slots'[s] = slots[s]
             \/ req[r].slot = s /\ slots'[s] = BookedBy(b)
    BY <1>1, BookedIsNotFree, WriteSlotKeeps DEF CreateInsert
<1>2. ASSUME NEW r \in Req, CancelFree(r) \/ DeleteFree(r)
      PROVE  \/ slots'[s] = slots[s]
             \/ req[r].seen = s /\ slots'[s] = FreeSlot
    <2>1. FreeSlot \in SlotRow
        BY DEF FreeSlot, SlotRow
    <2>. QED
        BY <1>2, <2>1, WriteSlotKeeps DEF CancelFree, DeleteFree
<1>3. ASSUME NEW S \in SUBSET SlotId, SlotsGenerated(S)
      PROVE  slots'[s] = slots[s] \/ (slots[s] = NoRow /\ slots'[s] = FreeSlot)
    BY <1>3 DEF SlotsGenerated
<1>4. ASSUME NEW r \in Req, RescheduleWrite(r)
      PROVE  \/ slots'[s] = slots[s]
             \/ req[r].slot = s /\ slots'[s] = BookedBy(req[r].booking)
             \/ req[r].seen = s /\ slots'[s] = FreeSlot
    BY <1>4, RescheduleWritesSlots
<1>5. CASE UNCHANGED slots
    BY <1>5
<1>. QED
    BY <1>1, <1>2, <1>3, <1>4, <1>5
    DEF Next, Arrive, Proceed, vars, CreateLock, CreateCheck, CreateUnlock, LockExpire,
        CancelGet, CancelStatus, ConfirmBooking, RescheduleGet, RescheduleCheck,
        RescheduleSelect, DeleteGet, DeleteRow, CreateAttendance, Fail

\* A step that careful clients and a prompt server take from a good state.
CarefulStep == CarefulService /\ CarefulInv /\ [Next]_vars

LEMMA CarefulStepGives ==
    ASSUME CarefulStep
    PROVE  /\ Careful /\ Prompt /\ [Next]_vars
           /\ BaseInv /\ BaseInv' /\ TypeOK /\ RequestShape
           /\ RowsMinted /\ SlotsMinted /\ LockExclusion /\ TargetSafe /\ TargetAlone
           /\ LiveHoldsSlot /\ OneSlotEach /\ BookingSafe /\ FreeSafe /\ BookingAlone
BY BaseNext DEF CarefulStep, CarefulService, CarefulInv, BaseInv

\* A careful reschedule that is about to write has its booking, which has the
\* slot that was read, and the slot it moves to is free.
LEMMA RescheduleWriteSafe ==
    ASSUME CarefulStep, NEW r \in Req, RescheduleWrite(r)
    PROVE  /\ InReschedule(r) /\ req[r].booking \in BookingId /\ Live(req[r].booking)
           /\ req[r].slot \in SlotId /\ IsFree(req[r].slot)
           /\ req[r].seen \in SlotId /\ bookings[req[r].booking].slot = req[r].seen
           /\ slots[req[r].seen] = BookedBy(req[r].booking)
           /\ bookings'[req[r].booking] =
                 [bookings[req[r].booking] EXCEPT !.slot = req[r].slot]
           /\ bookings'[req[r].booking] # NoRow
           /\ \A x \in BookingId : x # req[r].booking => bookings'[x] = bookings[x]
<1>1. /\ req[r].pc = "resch_write" /\ InReschedule(r)
      /\ req[r].booking \in BookingId /\ req[r].slot \in SlotId /\ req[r].seen \in SlotId
    BY CarefulStepGives DEF RescheduleWrite, RequestShape, ReschedulePc, InReschedule
<1>2. /\ Live(req[r].booking) /\ IsFree(req[r].slot)
      /\ bookings[req[r].booking].slot = req[r].seen
    BY <1>1, CarefulStepGives DEF BookingSafe, TargetSafe, ReschedulePc
<1>3. slots[req[r].seen] = BookedBy(req[r].booking)
    BY <1>1, <1>2, CarefulStepGives DEF LiveHoldsSlot
<1>4. bookings' = [bookings EXCEPT ![req[r].booking].slot = req[r].slot]
    BY <1>2 DEF RescheduleWrite, Live
<1>5. bookings \in [BookingId -> BookingRow \cup {NoRow}]
    BY CarefulStepGives DEF TypeOK
<1>6. bookings'[req[r].booking] = [bookings[req[r].booking] EXCEPT !.slot = req[r].slot]
    BY <1>1, <1>4, <1>5
<1>7. bookings[req[r].booking] \in BookingRow
    BY <1>1, <1>2, <1>5 DEF Live, Exists
<1>8. bookings'[req[r].booking] # NoRow
    BY <1>1, <1>6, <1>7, BookingsAssumption DEF BookingRow
<1>. QED
    BY <1>1, <1>2, <1>3, <1>4, <1>5, <1>6, <1>8

LEMMA SlotsMintedNext == CarefulStep => SlotsMinted'
<1>. SUFFICES ASSUME CarefulStep, NEW s \in SlotId, NEW b \in BookingId,
                     slots'[s] = BookedBy(b)
              PROVE  b \in minted'
    BY DEF SlotsMinted, BookedBy
<1>1. BaseInv /\ [Next]_vars /\ SlotsMinted /\ RowsMinted
    BY CarefulStepGives
<1>2. CASE slots'[s] = slots[s]
    BY <1>1, <1>2, MintedGrows DEF SlotsMinted
<1>3. ASSUME NEW r \in Req, NEW x \in BookingId, CreateInsert(r, x),
             slots'[s] = BookedBy(x)
      PROVE  b \in minted'
    BY <1>3, BookedByInjective DEF CreateInsert
<1>4. ASSUME NEW r \in Req, RescheduleWrite(r), slots'[s] = BookedBy(req[r].booking)
      PROVE  b \in minted'
    <2>1. b = req[r].booking
        BY <1>4, BookedByInjective
    <2>. QED
        BY <1>1, <1>4, <2>1, RescheduleWriteSafe, MintedGrows DEF RowsMinted, Live
<1>. QED
    BY <1>1, <1>2, <1>3, <1>4, SlotRowMoves, BookedIsNotFree

\* From the check to the write nobody else books the slot.
LEMMA TargetSafeNext == CarefulStep => TargetSafe'
<1>. SUFFICES ASSUME CarefulStep, NEW q \in Req,
                     req'[q].pc \in {"insert", "resch_select", "resch_write"}
              PROVE  IsFree(req[q].slot)'
    BY DEF TargetSafe
<1>. DEFINE s == req'[q].slot
<1>1. /\ BaseInv /\ BaseInv' /\ TypeOK /\ [Next]_vars
      /\ LockExclusion /\ TargetSafe /\ TargetAlone
    BY CarefulStepGives
<1>2. s \in SlotId
    BY <1>1 DEF BaseInv, RequestShape, CreatePc, ReschedulePc
<1>3. CASE CreateCheck(q) \/ RescheduleCheck(q)
    <2>1. IsFree(req[q].slot) /\ (GoTo(q, "insert") \/ GoTo(q, "resch_select"))
        BY <1>1, <1>3, FinishKeeps DEF CreateCheck, RescheduleCheck, GoTo, TypeOK, Request
    <2>2. s = req[q].slot
        BY <1>1, <2>1 DEF GoTo, TypeOK, Request
    <2>. QED
        BY <1>3, <2>1, <2>2 DEF CreateCheck, RescheduleCheck, IsFree
<1>4. CASE RescheduleSelect(q)
    <2>1. req[q].pc = "resch_select" /\ s = req[q].slot /\ slots' = slots
        BY <1>1, <1>4, FinishKeeps DEF RescheduleSelect, TypeOK, Request
    <2>. QED
        BY <1>1, <2>1 DEF TargetSafe, IsFree
<1>5. CASE req'[q] = req[q]
    <2>1. (InCreate(q) \/ InReschedule(q)) /\ IsFree(s)
        BY <1>1, <1>5 DEF TargetSafe, InCreate, InReschedule, CreatePc, ReschedulePc
    <2>2. ASSUME NEW r \in Req, NEW b \in BookingId, CreateInsert(r, b)
          PROVE  req[r].slot # s
        <3>1. InCreate(r) /\ r # q
            BY <1>1, <1>5, <2>2 DEF CreateInsert, InCreate, CreatePc, TypeOK, Request
        <3>. QED
            BY <1>1, <1>5, <2>1, <3>1 DEF LockExclusion, TargetAlone
    <2>3. ASSUME NEW r \in Req, RescheduleWrite(r)
          PROVE  req[r].slot # s
        <3>1. InReschedule(r) /\ r # q
            BY <1>1, <1>5, <2>3, FinishKeeps
            DEF RescheduleWrite, InReschedule, ReschedulePc, TypeOK
        <3>. QED
            BY <1>1, <1>5, <2>1, <3>1 DEF TargetAlone
    <2>4. FreeSlot # NoRow /\ FreeSlot.status = "free"
        BY BookingsAssumption DEF FreeSlot, SlotRow
    <2>. QED
        BY <1>1, <1>2, <2>1, <2>2, <2>3, <2>4, SlotRowMoves DEF IsFree
<1>. QED
    BY <1>1, <1>3, <1>4, <1>5, WriterHasChecked

\* Careful clients want a slot by a reschedule only when nobody else wants it.
LEMMA TargetAloneNext == CarefulStep => TargetAlone'
<1>. SUFFICES ASSUME CarefulStep, NEW p \in Req, NEW q \in Req, p # q,
                     InCreate(p)' \/ InReschedule(p)', InReschedule(q)',
                     req'[p].slot = req'[q].slot
              PROVE  FALSE
    BY DEF TargetAlone, InCreate, InReschedule
<1>1. BaseInv /\ TypeOK /\ [Next]_vars /\ Careful /\ TargetAlone
    BY CarefulStepGives
<1>2. ASSUME NEW x \in Req, NEW y \in Req, x # y, NEW b \in BookingId, NEW s \in SlotId,
             RescheduleGet(x, b, s)
      PROVE  req'[x].slot = s /\ req'[y] = req[y] /\ req[y].slot # s
    BY <1>1, <1>2 DEF RescheduleGet, RescheduleMay, Start, TypeOK
<1>3. ASSUME NEW s \in SlotId, CreateLock(p, s)
      PROVE  req'[p].slot = s /\ ~(InReschedule(q)' /\ req'[q].slot = s)
    BY <1>1, <1>3 DEF CreateLock, CreateMay, Start, TypeOK, InReschedule
<1>4. InReschedule(q) /\ req'[q].slot = req[q].slot
    BY <1>1, <1>2, RescheduleMoves DEF InReschedule
<1>5. (InCreate(p) \/ InReschedule(p)) /\ req'[p].slot = req[p].slot
    <2>1. CASE InCreate(p)'
        BY <1>1, <1>3, <2>1, CreateMoves
    <2>2. CASE InReschedule(p)'
        BY <1>1, <1>2, <2>2, RescheduleMoves DEF InReschedule
    <2>. QED
        BY <2>1, <2>2
<1>. QED
    BY <1>1, <1>4, <1>5 DEF TargetAlone

\* A slot that a live booking has is neither booked over nor freed.
LEMMA LiveHoldsSlotNext == CarefulStep => LiveHoldsSlot'
<1>. SUFFICES ASSUME CarefulStep, NEW b \in BookingId, Live(b)'
              PROVE  slots'[bookings'[b].slot] = BookedBy(b)
    BY DEF LiveHoldsSlot, BookedBy
<1>1. /\ BaseInv /\ BaseInv' /\ TypeOK /\ [Next]_vars /\ Careful
      /\ RequestShape /\ TargetSafe /\ LiveHoldsSlot /\ FreeSafe
    BY CarefulStepGives
<1>2. ASSUME Live(b), bookings'[b].slot = bookings[b].slot,
             \A r \in Req : RescheduleWrite(r) => req[r].booking # b
      PROVE  slots'[bookings'[b].slot] = BookedBy(b)
    <2>. DEFINE s == bookings[b].slot
    <2>1. s \in SlotId /\ slots[s] = BookedBy(b)
        BY <1>1, <1>2 DEF Live, Exists, TypeOK, BookingRow, LiveHoldsSlot
    <2>2. slots[s] # NoRow /\ ~IsFree(s)
        BY <2>1, BookedIsNotFree DEF IsFree
    <2>3. ASSUME NEW r \in Req, NEW x \in BookingId, CreateInsert(r, x)
          PROVE  req[r].slot # s
        BY <1>1, <2>2, <2>3 DEF CreateInsert, TargetSafe
    <2>4. ASSUME NEW r \in Req, CancelFree(r) \/ DeleteFree(r)
          PROVE  req[r].seen # s
        <3>1. /\ ~Live(req[r].booking)
              /\ slots[req[r].seen] = BookedBy(req[r].booking)
            BY <1>1, <2>4 DEF CancelFree, DeleteFree, FreeSafe
        <3>2. BookedBy(req[r].booking) = BookedBy(b) => req[r].booking = b
            BY BookedByInjective
        <3>. QED
            BY <1>2, <2>1, <3>1, <3>2
    <2>5. ASSUME NEW r \in Req, RescheduleWrite(r)
          PROVE  req[r].slot # s /\ req[r].seen # s
        <3>1. IsFree(req[r].slot) /\ slots[req[r].seen] = BookedBy(req[r].booking)
            BY <2>5, RescheduleWriteSafe
        <3>2. BookedBy(req[r].booking) = BookedBy(b) => req[r].booking = b
            BY BookedByInjective
        <3>. QED
            BY <1>2, <2>1, <2>2, <2>5, <3>1, <3>2
    <2>. QED
        BY <1>1, <1>2, <2>1, <2>2, <2>3, <2>4, <2>5, SlotRowMoves
<1>3. ASSUME NEW r \in Req, RescheduleWrite(r), req[r].booking = b
      PROVE  slots'[bookings'[b].slot] = BookedBy(b)
    <2>1. /\ req[r].slot \in SlotId /\ IsFree(req[r].slot) /\ Live(b)
          /\ bookings'[b] = [bookings[b] EXCEPT !.slot = req[r].slot]
        BY <1>3, RescheduleWriteSafe
    <2>2. bookings'[b].slot = req[r].slot
        BY <1>1, <2>1 DEF Live, Exists, TypeOK, BookingRow
    <2>. QED
        BY <1>1, <1>3, <2>1, <2>2, RescheduleWritesSlots DEF IsFree
<1>4. CASE /\ bookings'[b] = bookings[b]
           /\ \A r \in Req : RescheduleWrite(r) => req[r].booking # b
    BY <1>2, <1>4 DEF Live, Exists
<1>5. ASSUME NEW r \in Req, CreateInsert(r, b)
      PROVE  slots'[bookings'[b].slot] = BookedBy(b)
    <2>1. req[r].slot \in SlotId /\ slots[req[r].slot] # NoRow
        BY <1>1, <1>5 DEF CreateInsert, RequestShape, CreatePc, TargetSafe, IsFree
    <2>2. bookings'[b].slot = req[r].slot
        BY <1>1, <1>5 DEF CreateInsert, TypeOK, NewBooking
    <2>3. BookedBy(b) \in SlotRow
        BY BookedIsNotFree
    <2>. QED
        BY <1>1, <1>5, <2>1, <2>2, <2>3, WriteSlotKeeps DEF CreateInsert, TypeOK
<1>6. ASSUME NEW r \in Req, ConfirmBooking(r, b), \A x \in Req : ~RescheduleWrite(x)
      PROVE  slots'[bookings'[b].slot] = BookedBy(b)
    <2>1. Live(b)
        BY <1>1, <1>6 DEF ConfirmBooking, ClientMay
    <2>. QED
        BY <1>1, <1>2, <1>6, <2>1, StatusKeepsRow DEF ConfirmBooking
<1>7. ASSUME NEW r \in Req, req[r].booking = b, Exists(b), CancelStatus(r) \/ DeleteRow(r)
      PROVE  bookings'[b] = bookings[b]
    <2>1. CASE CancelStatus(r)
        BY <1>1, <1>7, <2>1, StatusKeepsRow DEF CancelStatus, Live
    <2>2. CASE DeleteRow(r)
        BY <1>1, <1>7, <2>2 DEF DeleteRow, TypeOK, Live, Exists
    <2>. QED
        BY <1>7, <2>1, <2>2
<1>8. ASSUME NEW r \in Req, ConfirmBooking(r, b), NEW x \in Req, RescheduleWrite(x)
      PROVE  FALSE
    BY <1>1, <1>8, FinishKeeps DEF ConfirmBooking, RescheduleWrite, TypeOK
<1>. QED
    BY <1>1, <1>3, <1>4, <1>5, <1>6, <1>7, <1>8, BookingRowMoves

\* A booking that moves gives up the slot it had.
LEMMA OneSlotEachNext == CarefulStep => OneSlotEach'
<1>. SUFFICES ASSUME CarefulStep, NEW s \in SlotId, NEW b \in BookingId,
                     slots'[s] = BookedBy(b), Live(b)'
              PROVE  bookings'[b].slot = s
    BY DEF OneSlotEach, BookedBy
<1>1. /\ BaseInv /\ TypeOK /\ [Next]_vars /\ Careful
      /\ OneSlotEach /\ SlotsMinted /\ LiveHoldsSlot
    BY CarefulStepGives
<1>2. ASSUME NEW r \in Req, RescheduleWrite(r), req[r].booking = b
      PROVE  bookings'[b].slot = s
    <2>1. /\ req[r].slot \in SlotId /\ req[r].seen \in SlotId /\ Live(b)
          /\ bookings[b].slot = req[r].seen
          /\ bookings'[b] = [bookings[b] EXCEPT !.slot = req[r].slot]
        BY <1>2, RescheduleWriteSafe
    <2>2. bookings'[b].slot = req[r].slot
        BY <1>1, <2>1 DEF Live, Exists, TypeOK, BookingRow
    <2>3. s # req[r].slot => s # req[r].seen
        BY <1>2, <2>1, <1>1, RescheduleWritesSlots, BookedIsNotFree
    <2>4. s # req[r].slot /\ s # req[r].seen => slots[s] = BookedBy(b)
        BY <1>1, <1>2, RescheduleWritesSlots
    <2>. QED
        BY <1>1, <2>1, <2>2, <2>3, <2>4 DEF OneSlotEach
<1>3. CASE slots[s] = BookedBy(b) /\ \A r \in Req : RescheduleWrite(r) => req[r].booking # b
    <2>1. ASSUME NEW r \in Req, CreateInsert(r, b)
          PROVE  FALSE
        BY <1>1, <1>3, <2>1 DEF CreateInsert, SlotsMinted
    <2>2. ASSUME NEW r \in Req, ConfirmBooking(r, b)
          PROVE  Live(b) /\ bookings'[b].slot = bookings[b].slot
        BY <1>1, <2>2, StatusKeepsRow DEF ConfirmBooking, ClientMay
    <2>3. ASSUME NEW r \in Req, req[r].booking = b, Exists(b), CancelStatus(r)
          PROVE  FALSE
        BY <1>1, <2>3, StatusKeepsRow DEF CancelStatus, Live
    <2>4. ASSUME NEW r \in Req, req[r].booking = b, Exists(b), DeleteRow(r)
          PROVE  bookings'[b] = bookings[b]
        BY <1>1, <2>4 DEF DeleteRow, TypeOK, Live, Exists
    <2>5. Live(b) /\ bookings'[b].slot = bookings[b].slot
        BY <1>1, <1>3, <2>1, <2>2, <2>3, <2>4, BookingRowMoves DEF Live, Exists
    <2>. QED
        BY <1>1, <1>3, <2>5 DEF OneSlotEach
<1>4. ASSUME NEW r \in Req, NEW x \in BookingId, CreateInsert(r, x), req[r].slot = s,
             slots'[s] = BookedBy(x)
      PROVE  bookings'[b].slot = s
    <2>1. x = b
        BY <1>4, BookedByInjective
    <2>. QED
        BY <1>1, <1>4, <2>1 DEF CreateInsert, TypeOK, NewBooking
<1>5. ASSUME NEW r \in Req, RescheduleWrite(r), slots'[s] = BookedBy(req[r].booking)
      PROVE  bookings'[b].slot = s
    BY <1>2, <1>5, BookedByInjective
<1>. QED
    BY <1>1, <1>2, <1>3, <1>4, <1>5, SlotRowMoves, BookedIsNotFree

\* Careful clients leave a booking alone that a request is working on.
LEMMA BusyBookingStays ==
    ASSUME CarefulStep, NEW q \in Req, req[q].pc \in ReleasePc \cup ReschedulePc,
           req'[q] = req[q]
    PROVE  bookings'[req[q].booking] = bookings[req[q].booking]
<1>. DEFINE b == req[q].booking
<1>1. /\ BaseInv /\ TypeOK /\ [Next]_vars /\ Careful
      /\ BookingSafe /\ FreeSafe /\ RowsMinted /\ BookingAlone
    BY CarefulStepGives
<1>2. b \in BookingId
    BY <1>1 DEF BaseInv, RequestShape
<1>3. b \in minted
    BY <1>1, <1>2 DEF ReleasePc, BookingSafe, FreeSafe, Live, RowsMinted
<1>4. ASSUME NEW r \in Req, CreateInsert(r, b)
      PROVE  FALSE
    BY <1>3, <1>4 DEF CreateInsert
<1>5. ASSUME NEW r \in Req, ConfirmBooking(r, b)
      PROVE  FALSE
    BY <1>1, <1>5 DEF ConfirmBooking, ClientMay, Busy
<1>6. ASSUME NEW r \in Req, req[r].booking = b, CancelStatus(r) \/ DeleteRow(r)
      PROVE  FALSE
    <2>1. req[r].pc \in {"cancel", "delete"}
        BY <1>6 DEF CancelStatus, DeleteRow
    <2>2. r = q
        BY <1>1, <1>6, <2>1 DEF BookingAlone, ReleasePc
    <2>. QED
        BY <1>1, <1>6, <2>1, <2>2, GoToKeeps, FinishKeeps
        DEF CancelStatus, DeleteRow, TypeOK, Pc, ReleasePc
<1>7. ASSUME NEW r \in Req, req[r].booking = b, RescheduleWrite(r)
      PROVE  FALSE
    <2>1. r = q
        BY <1>1, <1>7 DEF RescheduleWrite, BookingAlone, ReschedulePc
    <2>. QED
        BY <1>1, <1>7, <2>1, FinishKeeps
        DEF RescheduleWrite, TypeOK, ReleasePc, ReschedulePc
<1>. QED
    BY <1>1, <1>2, <1>4, <1>5, <1>6, <1>7, BookingRowMoves

\* Until its first statement a release has a live booking, with its slot, and
\* a reschedule has one until its commit.
LEMMA BookingSafeNext == CarefulStep => BookingSafe'
<1>1. ASSUME CarefulStep
      PROVE  BaseInv /\ BaseInv' /\ [Next]_vars /\ Careful /\ BookingSafe
    BY <1>1, CarefulStepGives
<1>2. ASSUME CarefulStep, NEW q \in Req, req'[q].pc \in {"cancel", "delete"}
      PROVE  Live(req[q].booking)' /\ bookings'[req'[q].booking].slot = req'[q].seen
    <2>1. CASE req'[q] = req[q]
        BY <1>1, <1>2, <2>1, BusyBookingStays DEF BookingSafe, ReleasePc, Live, Exists
    <2>2. ASSUME NEW b \in BookingId, CancelGet(q, b) \/ DeleteGet(q, b),
                 req'[q].booking = b, req'[q].seen = bookings[b].slot
          PROVE  Live(req[q].booking)' /\ bookings'[req'[q].booking].slot = req'[q].seen
        BY <1>1, <1>2, <2>2 DEF CancelGet, DeleteGet, ClientMay, Live, Exists
    <2>. QED
        BY <1>1, <1>2, <2>1, <2>2, ReleaseMoves DEF ReleasePc
<1>3. ASSUME CarefulStep, NEW q \in Req, InReschedule(q)'
      PROVE  /\ Live(req[q].booking)'
             /\ req'[q].pc = "resch_write" =>
                    bookings'[req'[q].booking].slot = req'[q].seen
    <2>. DEFINE b == req[q].booking
    <2>1. CASE req'[q] = req[q]
        <3>1. /\ req[q].pc \in ReschedulePc /\ Live(b)
              /\ req[q].pc = "resch_write" => bookings[b].slot = req[q].seen
            BY <1>1, <1>3, <2>1 DEF BookingSafe, InReschedule
        <3>2. bookings'[b] = bookings[b]
            BY <1>3, <2>1, <3>1, BusyBookingStays
        <3>. QED
            BY <2>1, <3>1, <3>2 DEF Live, Exists
    <2>2. ASSUME NEW x \in BookingId, NEW s \in SlotId, RescheduleGet(q, x, s),
                 req'[q].pc = "resch_check", req'[q].booking = x
          PROVE  Live(req[q].booking)' /\ req'[q].pc # "resch_write"
        BY <1>1, <1>3, <2>2 DEF RescheduleGet, ClientMay, Live, Exists
    <2>3. CASE /\ InReschedule(q) /\ UNCHANGED <<slots, bookings>>
               /\ req'[q].booking = b
               /\ \/ req'[q].pc = "resch_select"
                  \/ req'[q].pc = "resch_write" /\ req'[q].seen = bookings[b].slot
        <3>1. Live(b)
            BY <1>1, <1>3, <2>3 DEF BookingSafe, InReschedule
        <3>. QED
            BY <2>3, <3>1 DEF Live, Exists
    <2>. QED
        BY <1>1, <1>3, <2>1, <2>2, <2>3, RescheduleMoves
<1>. QED
    BY <1>2, <1>3 DEF BookingSafe, InReschedule, ReschedulePc

\* From its first statement to its last, a release of b finds the slot in b's
\* name: nobody can book the slot in between, and nobody else frees it.
LEMMA FreeSafeNext == CarefulStep => FreeSafe'
<1>. SUFFICES ASSUME CarefulStep, NEW q \in Req,
                     req'[q].pc \in {"cancel_free", "delete_free"}
              PROVE  /\ req'[q].booking \in minted' /\ ~Live(req[q].booking)'
                     /\ slots'[req'[q].seen] = BookedBy(req'[q].booking)
    BY DEF FreeSafe, BookedBy
<1>1. /\ BaseInv /\ TypeOK /\ [Next]_vars /\ RequestShape /\ RowsMinted
      /\ TargetSafe /\ LiveHoldsSlot /\ BookingSafe /\ FreeSafe /\ BookingAlone
    BY CarefulStepGives
<1>. DEFINE b == req[q].booking
            s == req[q].seen
<1>2. CASE req'[q] = req[q]
    <2>1. /\ req[q].pc \in ReleasePc /\ b \in minted /\ ~Live(b) /\ b \in BookingId
          /\ s \in SlotId /\ slots[s] = BookedBy(b)
        BY <1>1, <1>2 DEF FreeSafe, RequestShape, ReleasePc
    <2>2. b \in minted' /\ ~Live(b)'
        BY <1>1, <1>2, <2>1, MintedGrows, BusyBookingStays DEF Live, Exists
    <2>3. slots[s] # NoRow /\ ~IsFree(s)
        BY <2>1, BookedIsNotFree DEF IsFree
    <2>4. ASSUME NEW r \in Req, NEW x \in BookingId, CreateInsert(r, x)
          PROVE  req[r].slot # s
        BY <1>1, <2>3, <2>4 DEF CreateInsert, TargetSafe
    <2>5. ASSUME NEW r \in Req, CancelFree(r) \/ DeleteFree(r)
          PROVE  req[r].seen # s
        <3>1. /\ req[r].pc \in {"cancel_free", "delete_free"}
              /\ slots[req[r].seen] = BookedBy(req[r].booking)
            BY <1>1, <2>5 DEF CancelFree, DeleteFree, FreeSafe
        <3>2. r # q
            BY <1>1, <1>2, <2>1, <2>5, FinishKeeps
            DEF CancelFree, DeleteFree, TypeOK, ReleasePc
        <3>3. req[r].booking # b
            BY <1>1, <2>1, <3>1, <3>2 DEF BookingAlone, ReleasePc
        <3>. QED
            BY <2>1, <3>1, <3>3, BookedByInjective
    <2>6. ASSUME NEW r \in Req, RescheduleWrite(r)
          PROVE  req[r].slot # s /\ req[r].seen # s
        <3>1. /\ IsFree(req[r].slot) /\ Live(req[r].booking)
              /\ slots[req[r].seen] = BookedBy(req[r].booking)
            BY <2>6, RescheduleWriteSafe
        <3>. QED
            BY <2>1, <2>3, <3>1, BookedByInjective
    <2>7. slots'[s] = BookedBy(b)
        BY <1>1, <2>1, <2>3, <2>4, <2>5, <2>6, SlotRowMoves
    <2>. QED
        BY <1>2, <2>2, <2>7
<1>3. CASE /\ CancelStatus(q) \/ DeleteRow(q)
           /\ req'[q].booking = b /\ req'[q].seen = s
    <2>1. b \in BookingId /\ Live(b) /\ bookings[b].slot = s
        BY <1>1, <1>3
        DEF CancelStatus, DeleteRow, BookingSafe, RequestShape, ReleasePc
    <2>2. slots[s] = BookedBy(b) /\ b \in minted
        BY <1>1, <2>1 DEF LiveHoldsSlot, RowsMinted, Live
    <2>3. slots' = slots /\ minted' = minted
        BY <1>3 DEF CancelStatus, DeleteRow
    <2>4. ~Live(b)'
        <3>1. CASE CancelStatus(q)
            BY <1>1, <1>3, <2>1, <3>1, StatusKeepsRow DEF CancelStatus, Live, Exists
        <3>2. CASE DeleteRow(q) /\ bookings' = [bookings EXCEPT ![b] = NoRow]
            BY <1>1, <1>3, <2>1, <3>2 DEF TypeOK, Live, Exists
        <3>3. CASE DeleteRow(q) /\ Finish(q)
            BY <1>1, <3>3, FinishKeeps DEF TypeOK
        <3>. QED
            BY <1>3, <3>1, <3>2, <3>3 DEF DeleteRow
    <2>. QED
        BY <1>3, <2>2, <2>3, <2>4
<1>. QED
    BY <1>1, <1>2, <1>3, ReleaseMoves DEF ReleasePc

\* Careful clients never have two requests at work on one booking.
LEMMA BookingAloneNext == CarefulStep => BookingAlone'
<1>. DEFINE Works(q) == req[q].pc \in ReleasePc \cup ReschedulePc
            Gets(q, b) == \/ CancelGet(q, b) \/ DeleteGet(q, b)
                          \/ \E s \in SlotId : RescheduleGet(q, b, s)
<1>. SUFFICES ASSUME CarefulStep, NEW q1 \in Req, NEW q2 \in Req,
                     Works(q1)', Works(q2)',
                     req'[q1].booking = req'[q2].booking, q1 # q2
              PROVE  FALSE
    BY DEF BookingAlone
<1>1. BaseInv /\ TypeOK /\ [Next]_vars /\ Careful /\ BookingAlone
    BY CarefulStepGives
<1>2. ASSUME NEW p \in Req, NEW q \in Req, p # q, req'[p].booking = req'[q].booking,
             NEW b \in BookingId, Gets(q, b)
      PROVE  FALSE
    <2>1. req'[p] = req[p] /\ req'[q].booking = b /\ ~Busy(b)
        BY <1>1, <1>2 DEF CancelGet, DeleteGet, RescheduleGet, ClientMay, Start, TypeOK
    <2>. QED
        BY <1>2, <2>1 DEF Busy
<1>3. ASSUME NEW q \in Req, Works(q)', \A b \in BookingId : ~Gets(q, b)
      PROVE  Works(q) /\ req'[q].booking = req[q].booking
    <2>1. CASE req'[q].pc \in ReleasePc
        BY <1>1, <1>3, <2>1, ReleaseMoves DEF CancelStatus, DeleteRow, ReleasePc
    <2>2. CASE req'[q].pc \in ReschedulePc
        <3>1. InReschedule(q)'
            BY <2>2 DEF InReschedule
        <3>. QED
            BY <1>1, <1>3, <3>1, RescheduleMoves DEF InReschedule
    <2>. QED
        BY <1>3, <2>1, <2>2
<1>. QED
    BY <1>1, <1>2, <1>3 DEF BookingAlone

LEMMA CarefulInit == Init => CarefulInv
<1>. SUFFICES ASSUME Init
              PROVE  CarefulInv
    OBVIOUS
<1>1. TypeOK /\ RequestShape
    BY BaseInit DEF BaseInv
<1>2. LockExclusion /\ TargetSafe /\ TargetAlone /\ BookingSafe /\ FreeSafe /\ BookingAlone
    BY DEF Init, Idle, ReschedulePc, LockExclusion, InCreate, InReschedule, CreatePc,
           TargetSafe, TargetAlone, BookingSafe, FreeSafe, BookingAlone, ReleasePc
<1>3. RowsMinted /\ LiveHoldsSlot
    BY DEF Init, RowsMinted, LiveHoldsSlot, Live, Exists
<1>4. SlotsMinted /\ OneSlotEach
    BY BookedIsNotFree DEF Init, SlotsMinted, OneSlotEach
<1>. QED
    BY <1>1, <1>2, <1>3, <1>4 DEF CarefulInv

LEMMA CarefulNext == CarefulService /\ CarefulInv /\ [Next]_vars => CarefulInv'
<1>. SUFFICES ASSUME CarefulStep
              PROVE  CarefulInv'
    BY DEF CarefulStep
<1>1. TypeOK' /\ RequestShape'
    BY CarefulStepGives DEF BaseInv
<1>2. LockExclusion'
    BY CarefulStepGives, LockExclusionNext
<1>3. RowsMinted'
    BY CarefulStepGives, RowsMintedNext
<1>. QED
    BY <1>1, <1>2, <1>3, SlotsMintedNext, TargetSafeNext, TargetAloneNext,
       LiveHoldsSlotNext, OneSlotEachNext, BookingSafeNext, FreeSafeNext,
       BookingAloneNext
    DEF CarefulInv

\* For careful clients and a prompt server the agreement of the two tables,
\* and what every request in flight relies on between its statements, holds at
\* all times: through concurrent creates, cancels, confirmations, reschedules,
\* deletions and attendances, and through requests that are cut off between
\* any two statements.
THEOREM CarefulHolds == CarefulService => (Spec => []CarefulInv)
<1>. SUFFICES ASSUME CarefulService
              PROVE  Spec => []CarefulInv
    OBVIOUS
<1>1. CarefulInv /\ [Next]_vars => CarefulInv'
    BY CarefulNext
<1>. QED
    BY CarefulInit, <1>1, PTL DEF Spec

\* For the same clients a live booking has its slot at all times.
THEOREM LiveBookingsHoldSlots == CarefulService => (Spec => []LiveHoldsSlot)
<1>1. CarefulInv => LiveHoldsSlot
    BY DEF CarefulInv
<1>. QED
    BY <1>1, CarefulHolds, PTL

\* For the same clients no two live bookings share a slot.
THEOREM NoSlotBookedTwice == CarefulService => (Spec => []NoDoubleBooking)
<1>1. CarefulInv => NoDoubleBooking
    BY BookedByInjective DEF CarefulInv, LiveHoldsSlot, NoDoubleBooking
<1>. QED
    BY <1>1, CarefulHolds, PTL

\* And no live booking keeps a slot it has moved away from.
THEOREM MovedBookingsLeaveSlots == CarefulService => (Spec => []OneSlotEach)
<1>1. CarefulInv => OneSlotEach
    BY DEF CarefulInv
<1>. QED
    BY <1>1, CarefulHolds, PTL

-----------------------------------------------------------------------------
(* Slots that are lost.                                                    *)

\* A step that ends the life of a booking is the first half of its release.
LEMMA LifeEnds ==
    ASSUME CarefulStep, NEW b \in BookingId, Live(b), ~Live(b)'
    PROVE  \E r \in Req :
              /\ req'[r].pc \in {"cancel_free", "delete_free"}
              /\ req'[r].booking = b /\ req'[r].seen = bookings[b].slot
<1>1. /\ BaseInv /\ TypeOK /\ [Next]_vars /\ RowsMinted /\ BookingSafe
      /\ bookings \in [BookingId -> BookingRow \cup {NoRow}] /\ req \in [Req -> Request]
    BY CarefulStepGives DEF TypeOK
<1>2. bookings'[b] # bookings[b]
    BY DEF Live, Exists
<1>3. ASSUME NEW r \in Req, CreateInsert(r, b)
      PROVE  FALSE
    BY <1>1, <1>3 DEF CreateInsert, RowsMinted, Live
<1>4. ASSUME NEW r \in Req, ConfirmBooking(r, b)
      PROVE  FALSE
    BY <1>1, <1>4, StatusKeepsRow DEF ConfirmBooking, Live, Exists
<1>5. ASSUME NEW r \in Req, req[r].booking = b, RescheduleWrite(r)
      PROVE  FALSE
    <2>1. /\ bookings'[b] = [bookings[b] EXCEPT !.slot = req[r].slot]
          /\ bookings'[b] # NoRow /\ bookings[b] \in BookingRow
        BY <1>1, <1>5, RescheduleWriteSafe DEF Live, Exists
    <2>. QED
        BY <2>1 DEF BookingRow, Live, Exists
<1>6. ASSUME NEW r \in Req, req[r].booking = b, CancelStatus(r) \/ DeleteRow(r)
      PROVE  /\ req'[r].pc \in {"cancel_free", "delete_free"}
             /\ req'[r].booking = b /\ req'[r].seen = bookings[b].slot
    <2>1. bookings[b].slot = req[r].seen
        BY <1>1, <1>6 DEF CancelStatus, DeleteRow, BookingSafe
    <2>2. GoTo(r, "cancel_free") \/ GoTo(r, "delete_free")
        BY <1>2, <1>6 DEF CancelStatus, DeleteRow, Exists
    <2>. QED
        BY <1>1, <1>6, <2>1, <2>2 DEF GoTo, Request
<1>. QED
    BY <1>1, <1>2, <1>3, <1>4, <1>5, <1>6, BookingRowMoves

\* After a step a booked slot has its live booking, or a request that is about
\* to free it; or it was without a live booking before, and was not freed.
LEMMA StaysBooked ==
    ASSUME CarefulStep, NEW s \in SlotId, NEW b \in BookingId, slots'[s] = BookedBy(b)
    PROVE  \/ Live(b)' /\ bookings'[b].slot = s
           \/ \E r \in Req : /\ req'[r].pc \in {"cancel_free", "delete_free"}
                             /\ req'[r].booking = b /\ req'[r].seen = s
           \/ /\ slots[s] = BookedBy(b) /\ ~Live(b)
              /\ \A r \in Req : req[r].seen = s => ~CancelFree(r) /\ ~DeleteFree(r)
<1>1. /\ BaseInv /\ [Next]_vars /\ RequestShape /\ OneSlotEach
      /\ bookings \in [BookingId -> BookingRow \cup {NoRow}]
      /\ slots \in [SlotId -> SlotRow \cup {NoRow}]
    BY CarefulStepGives DEF TypeOK
<1>2. CASE Live(b)'
    <2>1. OneSlotEach'
        BY OneSlotEachNext
    <2>. QED
        BY <1>2, <2>1 DEF OneSlotEach, BookedBy
<1>3. ASSUME ~Live(b)', slots'[s] # slots[s]
      PROVE  FALSE
    <2>1. ASSUME NEW r \in Req, CreateInsert(r, b)
          PROVE  FALSE
        <3>1. req[r].slot \in SlotId
            BY <1>1, <2>1 DEF CreateInsert, RequestShape, CreatePc
        <3>2. /\ NewBooking(req[r].slot) \in BookingRow
              /\ NewBooking(req[r].slot).status = "pending"
            BY <3>1, BookingsAssumption DEF NewBooking, BookingRow
        <3>3. bookings'[b] = NewBooking(req[r].slot)
            BY <1>1, <2>1 DEF CreateInsert
        <3>. QED
            BY <1>3, <3>2, <3>3, BookingsAssumption DEF Live, Exists
    <2>2. ASSUME NEW r \in Req, RescheduleWrite(r), req[r].booking = b
          PROVE  FALSE
        <3>1. /\ Live(b) /\ bookings[b] \in BookingRow
              /\ bookings'[b] = [bookings[b] EXCEPT !.slot = req[r].slot]
              /\ bookings'[b] # NoRow
            BY <1>1, <2>2, RescheduleWriteSafe DEF Live, Exists
        <3>. QED
            BY <1>3, <3>1 DEF BookingRow, Live, Exists
    <2>3. BookedBy(b) # FreeSlot
        BY BookedIsNotFree
    <2>. QED
        BY <1>1, <1>3, <2>1, <2>2, <2>3, SlotRowMoves, BookedByInjective
<1>4. CASE ~Live(b)' /\ slots'[s] = slots[s] /\ Live(b)
    <2>1. bookings[b].slot = s
        BY <1>1, <1>4 DEF OneSlotEach
    <2>. QED
        BY <1>4, <2>1, LifeEnds
<1>5. ASSUME slots'[s] = slots[s], NEW r \in Req, req[r].seen = s
      PROVE  ~CancelFree(r) /\ ~DeleteFree(r)
    <2>1. slots[s] # NoRow /\ BookedBy(b) # FreeSlot /\ FreeSlot \in SlotRow
        BY <1>5, BookedIsNotFree
    <2>. QED
        BY <1>1, <1>5, <2>1, WriteSlotKeeps DEF CancelFree, DeleteFree
<1>. QED
    BY <1>2, <1>3, <1>4, <1>5

\* A request that is not cut off leaves its release only by freeing the slot.
LEMMA ReleaseGoesOn ==
    ASSUME CarefulStep, Faulty = {}, NEW r \in Req,
           req[r].pc \in {"cancel_free", "delete_free"}
    PROVE  req'[r] = req[r] \/ CancelFree(r) \/ DeleteFree(r)
<1>1. ~Arrive(r)
    BY DEF Arrive, CreateLock, CancelGet, ConfirmBooking, DeleteGet, CreateAttendance,
           RescheduleGet, ClientMay
<1>2. Proceed(r) => CancelFree(r) \/ DeleteFree(r)
    BY DEF Proceed, CreateCheck, CreateInsert, CreateUnlock, CancelStatus,
           RescheduleCheck, RescheduleSelect, RescheduleWrite, DeleteRow
<1>3. ~Fail(r)
    BY DEF Fail
<1>. QED
    BY <1>1, <1>2, <1>3, CarefulStepGives, OneRequestMoves

LEMMA NoStrandedNext ==
    Faulty = {} /\ CarefulStep /\ NoStrandedSlot => NoStrandedSlot'
<1>. SUFFICES ASSUME Faulty = {}, CarefulStep, NoStrandedSlot,
                     NEW s \in SlotId, NEW b \in BookingId, slots'[s] = BookedBy(b)
              PROVE  \/ Live(b)' /\ bookings'[b].slot = s
                     \/ \E r \in Req : /\ req'[r].pc \in {"cancel_free", "delete_free"}
                                       /\ req'[r].booking = b /\ req'[r].seen = s
    BY DEF NoStrandedSlot, BookedBy
<1>1. CASE /\ slots[s] = BookedBy(b) /\ ~Live(b)
           /\ \A r \in Req : req[r].seen = s => ~CancelFree(r) /\ ~DeleteFree(r)
    <2>1. PICK r \in Req : /\ req[r].pc \in {"cancel_free", "delete_free"}
                           /\ req[r].booking = b /\ req[r].seen = s
        BY <1>1 DEF NoStrandedSlot
    <2>2. req'[r] = req[r]
        BY <1>1, <2>1, ReleaseGoesOn
    <2>. QED
        BY <2>1, <2>2
<1>. QED
    BY <1>1, StaysBooked

\* For careful clients whose requests all run to their end, the two tables agree
\* from the side of the slots as well: a booked slot has a live booking that
\* names it, or a release under way that is about to free it.  Without the
\* condition on faults this is false.
THEOREM NoSlotIsStranded ==
    CarefulService /\ Faulty = {} => (Spec => []NoStrandedSlot)
<1>. SUFFICES ASSUME CarefulService, Faulty = {}
              PROVE  Spec => []NoStrandedSlot
    OBVIOUS
<1>1. Init => NoStrandedSlot
    BY BookedIsNotFree DEF Init, NoStrandedSlot
<1>2. CarefulInv /\ NoStrandedSlot /\ [Next]_vars => NoStrandedSlot'
    BY NoStrandedNext DEF CarefulStep
<1>. QED
    BY <1>1, <1>2, CarefulHolds, PTL DEF Spec

-----------------------------------------------------------------------------
(* The refinement.                                                         *)

LEMMA LedgerInit == Init => Ledger!Init
BY DEF Init, Ledger!Init, Held, Live, Exists

\* Nobody holds a slot that is free.
LEMMA FreeIsUnheld ==
    ASSUME LiveHoldsSlot, NEW s \in SlotId, IsFree(s)
    PROVE  Ledger!Unheld(s)
<1>. SUFFICES ASSUME NEW x \in BookingId
              PROVE  Held[x] # s
    BY DEF Ledger!Unheld
<1>1. CASE Live(x)
    <2>1. slots[bookings[x].slot] = BookedBy(x) /\ BookedBy(x).status # "free"
        BY <1>1 DEF LiveHoldsSlot, BookedBy
    <2>2. bookings[x].slot # s
        BY <2>1 DEF IsFree
    <2>. QED
        BY <1>1, <2>2 DEF Held
<1>2. CASE ~Live(x)
    BY <1>2, BookingsAssumption DEF Held
<1>. QED
    BY <1>1, <1>2

\* Every step of the service is one operation of the ledger, or none.
LEMMA LedgerNext == CarefulStep => [Ledger!Next]_(Ledger!ledgerVars)
<1>. SUFFICES ASSUME CarefulStep
              PROVE  [Ledger!Next]_(Ledger!ledgerVars)
    OBVIOUS
<1>. USE DEF Ledger!ledgerVars
<1>1. /\ BaseInv /\ TypeOK /\ [Next]_vars /\ Careful /\ RequestShape
      /\ TargetSafe /\ LiveHoldsSlot /\ BookingSafe
    BY CarefulStepGives
<1>2. ASSUME NEW r \in Req, NEW b \in BookingId, CreateInsert(r, b)
      PROVE  Ledger!Next
    <2>. DEFINE s == req[r].slot
    <2>1. s \in SlotId /\ b \notin minted /\ IsFree(s)
        BY <1>1, <1>2 DEF CreateInsert, RequestShape, CreatePc, TargetSafe
    <2>2. Ledger!Unheld(s)
        BY <1>1, <2>1, FreeIsUnheld
    <2>3. bookings' = [bookings EXCEPT ![b] = NewBooking(s)] /\ minted' = minted \cup {b}
        BY <1>2 DEF CreateInsert
    <2>4. NewBooking(s) \in BookingRow /\ NewBooking(s).slot = s
                                   /\ NewBooking(s).status = "pending"
        BY <2>1, BookingsAssumption DEF NewBooking, BookingRow
    <2>5. /\ bookings'[b] = NewBooking(s) /\ NewBooking(s) # NoRow
          /\ \A x \in BookingId : x # b => bookings'[x] = bookings[x]
        BY <1>1, <2>3, <2>4, BookingsAssumption DEF TypeOK
    <2>. HIDE DEF s
    <2>6. Held' = [Held EXCEPT ![b] = s]
        BY <2>4, <2>5 DEF Held, Live, Exists
    <2>7. Ledger!Book(b, s)
        BY <2>1, <2>2, <2>3, <2>6 DEF Ledger!Book
    <2>. QED
        BY <2>1, <2>7 DEF Ledger!Next
<1>3. ASSUME NEW b \in BookingId, Live(b), ~Live(b)', minted' = minted,
             \A x \in BookingId : x # b => bookings'[x] = bookings[x]
      PROVE  Ledger!Next
    <2>1. Held[b] # NoSlot
        BY <1>1, <1>3, BookingsAssumption DEF Held, Live, Exists, TypeOK, BookingRow
    <2>2. Held' = [Held EXCEPT ![b] = NoSlot]
        BY <1>3 DEF Held, Live, Exists
    <2>3. Ledger!Release(b)
        BY <1>3, <2>1, <2>2 DEF Ledger!Release
    <2>. QED
        BY <2>3 DEF Ledger!Next
<1>4. ASSUME NEW r \in Req, CancelStatus(r)
      PROVE  Ledger!Next
    <2>1. req[r].booking \in BookingId /\ Live(req[r].booking)
        BY <1>1, <1>4 DEF CancelStatus, RequestShape, BookingSafe, ReleasePc
    <2>. QED
        BY <1>1, <1>3, <1>4, <2>1, StatusKeepsRow DEF CancelStatus, Live, Exists
<1>5. ASSUME NEW r \in Req, DeleteRow(r)
      PROVE  [Ledger!Next]_(Ledger!ledgerVars)
    <2>1. req[r].booking \in BookingId /\ Live(req[r].booking)
        BY <1>1, <1>5 DEF DeleteRow, RequestShape, BookingSafe, ReleasePc
    <2>2. CASE bookings' = [bookings EXCEPT ![req[r].booking] = NoRow]
        BY <1>1, <1>3, <1>5, <2>1, <2>2 DEF DeleteRow, Live, Exists, TypeOK
    <2>3. CASE UNCHANGED bookings
        BY <1>5, <2>3 DEF DeleteRow, Held, Live, Exists
    <2>. QED
        BY <1>5, <2>2, <2>3 DEF DeleteRow
<1>6. ASSUME NEW r \in Req, NEW b \in BookingId, ConfirmBooking(r, b)
      PROVE  UNCHANGED (Ledger!ledgerVars)
    <2>1. Live(b)
        BY <1>1, <1>6 DEF ConfirmBooking, ClientMay
    <2>2. Live(b)' /\ bookings'[b].slot = bookings[b].slot
        BY <1>1, <1>6, <2>1, StatusKeepsRow DEF ConfirmBooking, Live, Exists
    <2>3. \A x \in BookingId : x # b => bookings'[x] = bookings[x]
        BY <1>1, <1>6, StatusKeepsRow DEF ConfirmBooking
    <2>4. Held' = Held
        BY <2>1, <2>2, <2>3 DEF Held, Live, Exists
    <2>. QED
        BY <1>6, <2>4 DEF ConfirmBooking
<1>7. ASSUME NEW r \in Req, RescheduleWrite(r)
      PROVE  Ledger!Next
    <2>. DEFINE b == req[r].booking
                s == req[r].slot
    <2>1. /\ b \in BookingId /\ Live(b) /\ s \in SlotId /\ IsFree(s)
          /\ bookings'[b] = [bookings[b] EXCEPT !.slot = s] /\ bookings'[b] # NoRow
          /\ \A x \in BookingId : x # b => bookings'[x] = bookings[x]
        BY <1>7, RescheduleWriteSafe
    <2>2. bookings[b] \in BookingRow
        BY <1>1, <2>1 DEF Live, Exists, TypeOK
    <2>3. bookings'[b].slot = s /\ bookings'[b].status = bookings[b].status
        BY <2>1, <2>2 DEF BookingRow
    <2>4. Held[b] # NoSlot
        BY <2>1, <2>2, BookingsAssumption DEF Held, BookingRow
    <2>. HIDE DEF b, s
    <2>5. Held' = [Held EXCEPT ![b] = s]
        BY <2>1, <2>3 DEF Held, Live, Exists
    <2>6. minted' = minted
        BY <1>7 DEF RescheduleWrite
    <2>7. Ledger!Unheld(s)
        BY <1>1, <2>1, FreeIsUnheld
    <2>8. Ledger!Move(b, s)
        BY <2>4, <2>5, <2>6, <2>7 DEF Ledger!Move
    <2>. QED
        BY <2>1, <2>8 DEF Ledger!Next
<1>8. CASE UNCHANGED <<bookings, minted>>
    BY <1>8 DEF Held, Live, Exists
<1>. QED
    BY <1>1, <1>2, <1>4, <1>5, <1>6, <1>7, <1>8
    DEF Next, Arrive, Proceed, vars, CreateLock, CreateCheck, CreateUnlock, LockExpire,
        CancelGet, CancelFree, RescheduleGet, RescheduleCheck, RescheduleSelect,
        DeleteGet, DeleteFree, CreateAttendance, SlotsGenerated, Fail

\* For the same clients the statements of all the requests in flight together
\* do what one-step bookings, moves and releases would do.
THEOREM BookingsImplementLedger == CarefulService => (Spec => ImplementsLedger)
<1>. SUFFICES ASSUME CarefulService
              PROVE  Spec => Ledger!Spec
    BY DEF ImplementsLedger
<1>1. CarefulInv /\ [Next]_vars => [Ledger!Next]_(Ledger!ledgerVars)
    BY LedgerNext DEF CarefulStep
<1>. QED
    BY LedgerInit, CarefulHolds, <1>1, PTL DEF Spec, Ledger!Spec

=============================================================================
