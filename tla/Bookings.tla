------------------------------ MODULE Bookings ------------------------------
(***************************************************************************)
(* The booking endpoints of the schedule service: the service methods of   *)
(* internal/service/service.go, the statements they send to PostgreSQL     *)
(* (internal/storage/postgres/postgres.go) and the Redis lock they take    *)
(* (internal/lock/redis.go).                                               *)
(*                                                                         *)
(* Every HTTP request runs in a goroutine of its own.  A step of this      *)
(* module is one SQL statement, one Redis command, or one transaction: the *)
(* rows a transaction writes stay invisible, and locked, until its commit, *)
(* so that its writes take effect together at the commit.  A statement     *)
(* that the code sends through s.db, although a transaction is open, is    *)
(* committed by itself and is a step of its own.                           *)
(***************************************************************************)
EXTENDS Naturals, FiniteSets

CONSTANTS
    Req,         \* request goroutines that may be in flight together
    SlotId,      \* slot ids that requests name, in the table or not
    BookingId,   \* the UUIDs the bookings table can draw
    Teacher,     \* teachers
    TeacherOf,   \* slots.teacher_id, which no statement updates
    Ops,         \* the endpoints that clients call
    Careful,     \* clients act on a live booking, one request at a time, and
                 \* want no slot that a reschedule in flight wants
    Prompt,      \* CreateBooking ends before the TTL of its lock
    Faulty,      \* requests that may be cut off between two statements
    NoSlot, NoBooking, NoRow

Endpoints ==
    {"create", "cancel", "confirm", "reschedule", "delete", "attend", "generate"}

(* Rows.  Only "free" and "booked" of the four slot statuses are ever      *)
(* written; stamped says that cancelled_at is set.                         *)

SlotRow == [status : {"free", "booked"}, booking : BookingId \cup {NoBooking}]

BookingRow ==
    [slot : SlotId, teacher : Teacher,
     status : {"pending", "confirmed", "cancelled"}, stamped : BOOLEAN]

NewBooking(s) ==
    [slot |-> s, teacher |-> TeacherOf[s], status |-> "pending", stamped |-> FALSE]

FreeSlot == [status |-> "free", booking |-> NoBooking]

BookedBy(b) == [status |-> "booked", booking |-> b]

ASSUME BookingsAssumption ==
    /\ TeacherOf \in [SlotId -> Teacher]
    /\ Ops \subseteq Endpoints
    /\ Careful \in BOOLEAN /\ Prompt \in BOOLEAN
    /\ Faulty \subseteq Req
    /\ NoSlot \notin SlotId /\ NoBooking \notin BookingId
    /\ NoRow \notin SlotRow \cup BookingRow

VARIABLES
    slots,       \* table slots: status and booking_id by id, or NoRow
    bookings,    \* table bookings: a row by id, or NoRow
    minted,      \* booking ids that were ever drawn
    attendance,  \* bookings that have an attendance row (booking_id is UNIQUE)
    lockKeys,    \* slots whose key "lock:slot:<id>" is set in Redis
    req          \* where each request stands and what it has read

vars == <<slots, bookings, minted, attendance, lockKeys, req>>

-----------------------------------------------------------------------------
\* A request: the statement it sends next, the slot and the booking it is
\* about, and the slot_id it read from the booking.
CreatePc == {"check", "insert", "unlock"}
ReleasePc == {"cancel", "cancel_free", "delete", "delete_free"}
ReschedulePc == {"resch_check", "resch_select", "resch_write"}
Pc == {"idle"} \cup CreatePc \cup ReleasePc \cup ReschedulePc

Request ==
    [pc : Pc, slot : SlotId \cup {NoSlot}, booking : BookingId \cup {NoBooking},
     seen : SlotId \cup {NoSlot}]

Idle == [pc |-> "idle", slot |-> NoSlot, booking |-> NoBooking, seen |-> NoSlot]

Exists(b) == bookings[b] # NoRow
IsFree(s) == slots[s] # NoRow /\ slots[s].status = "free"
Live(b) == Exists(b) /\ bookings[b].status # "cancelled"
Busy(b) == \E r \in Req : req[r].booking = b
InCreate(r) == req[r].pc \in CreatePc
InReschedule(r) == req[r].pc \in ReschedulePc

TypeOK ==
    /\ slots \in [SlotId -> SlotRow \cup {NoRow}]
    /\ bookings \in [BookingId -> BookingRow \cup {NoRow}]
    /\ minted \subseteq BookingId
    /\ attendance \subseteq BookingId
    /\ lockKeys \subseteq SlotId
    /\ req \in [Req -> Request]

\* The tables after earlier calls of GenerateSlots and before any booking.
Init ==
    /\ slots \in [SlotId -> {FreeSlot, NoRow}]
    /\ bookings = [b \in BookingId |-> NoRow]
    /\ minted = {}
    /\ attendance = {}
    /\ lockKeys = {}
    /\ req = [r \in Req |-> Idle]

-----------------------------------------------------------------------------
(* Statements.                                                             *)

\* UPDATE slots SET status, booking_id WHERE id: no row, no effect.
WriteSlot(table, s, row) ==
    IF table[s] = NoRow THEN table ELSE [table EXCEPT ![s] = row]

\* UPDATE bookings SET status, and cancelled_at when the booking is cancelled.
UpdateBookingStatus(b, status) ==
    bookings' = [bookings EXCEPT
        ![b].status = status,
        ![b].stamped = @ \/ status = "cancelled"]

GoTo(r, pc) == req' = [req EXCEPT ![r].pc = pc]
Finish(r) == req' = [req EXCEPT ![r] = Idle]
Start(r, pc, s, b, seen) ==
    req' = [req EXCEPT ![r] = [pc |-> pc, slot |-> s, booking |-> b, seen |-> seen]]

\* What a careful client waits for before it sends a request about b.
ClientMay(r, op, b) ==
    /\ op \in Ops
    /\ req[r].pc = "idle"
    /\ Careful => Live(b) /\ ~Busy(b)

-----------------------------------------------------------------------------
(* CreateBooking                                                           *)

\* A reschedule takes no lock for the slot it wants, so careful clients keep
\* such a slot apart themselves.
CreateMay(s) == Careful => \A q \in Req : ~(InReschedule(q) /\ req[q].slot = s)
RescheduleMay(s) == Careful => \A q \in Req : req[q].slot # s

\* The UUIDs are bounded: a create starts only if one is left for it.
RoomForBooking ==
    Cardinality({r \in Req : req[r].pc \in {"check", "insert"}})
        < Cardinality(BookingId \ minted)

\* Mutant: a plain SET, without NX.
CreateLockPlainSet(r, s) ==
    /\ "create" \in Ops
    /\ req[r].pc = "idle"
    /\ RoomForBooking /\ CreateMay(s)
    /\ lockKeys' = lockKeys \cup {s}
    /\ Start(r, "check", s, NoBooking, NoSlot)
    /\ UNCHANGED <<slots, bookings, minted, attendance>>

\* SET lock:slot:<id> NX with a TTL; a key that is already there answers 423.
CreateLock(r, s) ==
    /\ "create" \in Ops
    /\ req[r].pc = "idle"
    /\ RoomForBooking /\ CreateMay(s)
    /\ s \notin lockKeys
    /\ lockKeys' = lockKeys \cup {s}
    /\ Start(r, "check", s, NoBooking, NoSlot)
    /\ UNCHANGED <<slots, bookings, minted, attendance>>

\* Mutant: the status of the slot is not compared with "free".
CreateCheckAnyStatus(r) ==
    /\ req[r].pc = "check"
    /\ GoTo(r, IF slots[req[r].slot] # NoRow THEN "insert" ELSE "unlock")
    /\ UNCHANGED <<slots, bookings, minted, attendance, lockKeys>>

\* Mutant: a slot that is not there passes for a free one.
CreateCheckMissingIsFree(r) ==
    /\ req[r].pc = "check"
    /\ GoTo(r, IF slots[req[r].slot] = NoRow \/ IsFree(req[r].slot)
               THEN "insert" ELSE "unlock")
    /\ UNCHANGED <<slots, bookings, minted, attendance, lockKeys>>

\* Mutant: the request waits for the slot instead of answering 409.
CreateCheckWaits(r) ==
    /\ req[r].pc = "check"
    /\ IsFree(req[r].slot)
    /\ GoTo(r, "insert")
    /\ UNCHANGED <<slots, bookings, minted, attendance, lockKeys>>

\* GetSlotForBooking.  Its SELECT ... FOR UPDATE is sent outside the
\* transaction, so the row lock is gone when the statement returns.
CreateCheck(r) ==
    /\ req[r].pc = "check"
    /\ GoTo(r, IF IsFree(req[r].slot) THEN "insert" ELSE "unlock")
    /\ UNCHANGED <<slots, bookings, minted, attendance, lockKeys>>

\* The transaction: INSERT the booking, UPDATE the slot, COMMIT.
CreateInsert(r, b) ==
    /\ req[r].pc = "insert"
    /\ b \notin minted
    /\ minted' = minted \cup {b}
    /\ bookings' = [bookings EXCEPT ![b] = NewBooking(req[r].slot)]
    /\ slots' = WriteSlot(slots, req[r].slot, BookedBy(b))
    /\ req' = [req EXCEPT ![r].pc = "unlock", ![r].booking = b]
    /\ UNCHANGED <<attendance, lockKeys>>

\* The deferred Unlock: DEL of the key, whoever set it.
CreateUnlock(r) ==
    /\ req[r].pc = "unlock"
    /\ lockKeys' = lockKeys \ {req[r].slot}
    /\ Finish(r)
    /\ UNCHANGED <<slots, bookings, minted, attendance>>

\* Mutant: the key is set without a TTL.
LockExpireNever(s) ==
    /\ s \in lockKeys \ SlotId
    /\ UNCHANGED vars

\* The TTL of a key runs out.
LockExpire(s) ==
    /\ s \in lockKeys
    /\ Prompt => \A r \in Req : ~(InCreate(r) /\ req[r].slot = s)
    /\ lockKeys' = lockKeys \ {s}
    /\ UNCHANGED <<slots, bookings, minted, attendance, req>>

-----------------------------------------------------------------------------
(* CancelBooking and ConfirmBooking                                        *)

\* GetBooking; the slot id it returns is used to the end of the request.
CancelGet(r, b) ==
    /\ ClientMay(r, "cancel", b)
    /\ Exists(b)
    /\ Start(r, "cancel", NoSlot, b, bookings[b].slot)
    /\ UNCHANGED <<slots, bookings, minted, attendance, lockKeys>>

\* Committed by itself.  No row: the request ends with 404.
CancelStatus(r) ==
    LET b == req[r].booking IN
    /\ req[r].pc = "cancel"
    /\ \/ /\ Exists(b)
          /\ UpdateBookingStatus(b, "cancelled")
          /\ GoTo(r, "cancel_free")
       \/ /\ ~Exists(b)
          /\ Finish(r)
          /\ UNCHANGED bookings
    /\ UNCHANGED <<slots, minted, attendance, lockKeys>>

\* Mutant: the slot is marked cancelled, like its booking.
CancelFreeMarksCancelled(r) ==
    /\ req[r].pc = "cancel_free"
    /\ slots' = WriteSlot(slots, req[r].seen,
                          [status |-> "cancelled", booking |-> NoBooking])
    /\ Finish(r)
    /\ UNCHANGED <<bookings, minted, attendance, lockKeys>>

\* Mutant: the slot is forgotten.
CancelFreeNothing(r) ==
    /\ req[r].pc = "cancel_free"
    /\ Finish(r)
    /\ UNCHANGED <<slots, bookings, minted, attendance, lockKeys>>

\* UpdateSlotStatus(free, NULL) on the slot read at the start, whoever has it.
CancelFree(r) ==
    /\ req[r].pc = "cancel_free"
    /\ slots' = WriteSlot(slots, req[r].seen, FreeSlot)
    /\ Finish(r)
    /\ UNCHANGED <<bookings, minted, attendance, lockKeys>>

\* One UPDATE, whatever the status of the booking was.
ConfirmBooking(r, b) ==
    /\ ClientMay(r, "confirm", b)
    /\ Exists(b)
    /\ UpdateBookingStatus(b, "confirmed")
    /\ UNCHANGED <<slots, minted, attendance, lockKeys, req>>

-----------------------------------------------------------------------------
(* RescheduleBooking                                                       *)

RescheduleGet(r, b, s) ==
    /\ ClientMay(r, "reschedule", b) /\ RescheduleMay(s)
    /\ Exists(b)
    /\ Start(r, "resch_check", s, b, NoSlot)
    /\ UNCHANGED <<slots, bookings, minted, attendance, lockKeys>>

\* Mutant: the slot is not looked at before the booking moves to it.
RescheduleCheckAnyStatus(r) ==
    /\ req[r].pc = "resch_check"
    /\ IF slots[req[r].slot] # NoRow THEN GoTo(r, "resch_select") ELSE Finish(r)
    /\ UNCHANGED <<slots, bookings, minted, attendance, lockKeys>>

\* Mutant: the new slot is not looked up at all.
RescheduleCheckSkipsLookup(r) ==
    /\ req[r].pc = "resch_check"
    /\ GoTo(r, "resch_select")
    /\ UNCHANGED <<slots, bookings, minted, attendance, lockKeys>>

\* GetSlot before the transaction, without a lock: 404 or 409 end the request.
RescheduleCheck(r) ==
    /\ req[r].pc = "resch_check"
    /\ IF IsFree(req[r].slot) THEN GoTo(r, "resch_select") ELSE Finish(r)
    /\ UNCHANGED <<slots, bookings, minted, attendance, lockKeys>>

\* In the transaction: SELECT slot_id, which locks nothing.
RescheduleSelect(r) ==
    LET b == req[r].booking IN
    /\ req[r].pc = "resch_select"
    /\ IF Exists(b)
       THEN req' = [req EXCEPT ![r].pc = "resch_write", ![r].seen = bookings[b].slot]
       ELSE Finish(r)
    /\ UNCHANGED <<slots, bookings, minted, attendance, lockKeys>>

\* Mutant: the slot the booking leaves stays booked.
RescheduleWriteKeepsOld(r) ==
    LET b == req[r].booking IN
    /\ req[r].pc = "resch_write"
    /\ bookings' = IF Exists(b)
                   THEN [bookings EXCEPT ![b].slot = req[r].slot]
                   ELSE bookings
    /\ slots' = WriteSlot(slots, req[r].slot, BookedBy(b))
    /\ Finish(r)
    /\ UNCHANGED <<minted, attendance, lockKeys>>

\* The three UPDATEs and the COMMIT.  A booking deleted meanwhile is an
\* UPDATE of no row; the two slots are written all the same.
RescheduleWrite(r) ==
    LET b == req[r].booking IN
    /\ req[r].pc = "resch_write"
    /\ bookings' = IF Exists(b)
                   THEN [bookings EXCEPT ![b].slot = req[r].slot]
                   ELSE bookings
    /\ slots' = WriteSlot(WriteSlot(slots, req[r].seen, FreeSlot),
                          req[r].slot, BookedBy(b))
    /\ Finish(r)
    /\ UNCHANGED <<minted, attendance, lockKeys>>

-----------------------------------------------------------------------------
(* DeleteBooking and CreateAttendance                                      *)

DeleteGet(r, b) ==
    /\ ClientMay(r, "delete", b)
    /\ Exists(b)
    /\ Start(r, "delete", NoSlot, b, bookings[b].slot)
    /\ UNCHANGED <<slots, bookings, minted, attendance, lockKeys>>

\* Mutant: attendance does not hold on to its booking.
DeleteRowCascades(r) ==
    LET b == req[r].booking IN
    /\ req[r].pc = "delete"
    /\ IF Exists(b)
       THEN /\ bookings' = [bookings EXCEPT ![b] = NoRow]
            /\ GoTo(r, "delete_free")
       ELSE /\ Finish(r)
            /\ UNCHANGED bookings
    /\ UNCHANGED <<slots, minted, attendance, lockKeys>>

\* Mutant: the slot is freed though the row could not be deleted.
DeleteRowIgnoresRefusal(r) ==
    LET b == req[r].booking IN
    /\ req[r].pc = "delete"
    /\ bookings' = IF b \in attendance THEN bookings
                   ELSE [bookings EXCEPT ![b] = NoRow]
    /\ GoTo(r, "delete_free")
    /\ UNCHANGED <<slots, minted, attendance, lockKeys>>

\* Committed by itself.  The foreign key of attendance (ON DELETE RESTRICT)
\* refuses it, and no row is 404: both end the request.
DeleteRow(r) ==
    LET b == req[r].booking IN
    /\ req[r].pc = "delete"
    /\ \/ /\ Exists(b) /\ b \notin attendance
          /\ bookings' = [bookings EXCEPT ![b] = NoRow]
          /\ GoTo(r, "delete_free")
       \/ /\ ~Exists(b) \/ b \in attendance
          /\ Finish(r)
          /\ UNCHANGED bookings
    /\ UNCHANGED <<slots, minted, attendance, lockKeys>>

DeleteFree(r) ==
    /\ req[r].pc = "delete_free"
    /\ slots' = WriteSlot(slots, req[r].seen, FreeSlot)
    /\ Finish(r)
    /\ UNCHANGED <<bookings, minted, attendance, lockKeys>>

\* One INSERT; its foreign key wants the booking, UNIQUE no earlier row.
CreateAttendance(r, b) ==
    /\ "attend" \in Ops
    /\ req[r].pc = "idle"
    /\ Exists(b) /\ b \notin attendance
    /\ attendance' = attendance \cup {b}
    /\ UNCHANGED <<slots, bookings, minted, lockKeys, req>>

-----------------------------------------------------------------------------
(* The rest of the world                                                   *)

\* A transaction of GenerateSlots commits free slots.
SlotsGenerated(S) ==
    /\ "generate" \in Ops
    /\ \A s \in S : slots[s] = NoRow
    /\ slots' = [s \in SlotId |-> IF s \in S THEN FreeSlot ELSE slots[s]]
    /\ UNCHANGED <<bookings, minted, attendance, lockKeys, req>>

\* The client hangs up, a statement fails or the process dies: the request
\* stops where it is, and an open transaction leaves nothing behind.  The
\* deferred Unlock still runs, unless the context it is given is cancelled
\* or the process is gone.
Fail(r) ==
    /\ r \in Faulty
    /\ req[r].pc # "idle"
    /\ \/ Finish(r)
       \/ req[r].pc \in {"check", "insert"} /\ GoTo(r, "unlock")
    /\ UNCHANGED <<slots, bookings, minted, attendance, lockKeys>>

-----------------------------------------------------------------------------
\* The steps a request takes by itself once it has been sent.
Proceed(r) ==
    \/ CreateCheck(r)
    \/ \E b \in BookingId : CreateInsert(r, b)
    \/ CreateUnlock(r)
    \/ CancelStatus(r) \/ CancelFree(r)
    \/ RescheduleCheck(r) \/ RescheduleSelect(r) \/ RescheduleWrite(r)
    \/ DeleteRow(r) \/ DeleteFree(r)

Arrive(r) ==
    \/ \E s \in SlotId : CreateLock(r, s)
    \/ \E b \in BookingId :
          \/ CancelGet(r, b) \/ ConfirmBooking(r, b) \/ DeleteGet(r, b)
          \/ CreateAttendance(r, b)
          \/ \E s \in SlotId : RescheduleGet(r, b, s)

Next ==
    \/ \E r \in Req : Arrive(r) \/ Proceed(r) \/ Fail(r)
    \/ \E s \in SlotId : LockExpire(s)
    \/ \E S \in SUBSET SlotId \ {{}} : SlotsGenerated(S)

Spec == Init /\ [][Next]_vars

-----------------------------------------------------------------------------
(* Properties                                                              *)

\* Whoever the clients are, a request in flight knows what it works on, and a
\* slot it is going to write is a row of the table.
RequestShape ==
    \A r \in Req :
        /\ req[r].pc \in CreatePc \cup ReschedulePc => req[r].slot \in SlotId
        /\ req[r].pc \in ReleasePc \cup ReschedulePc => req[r].booking \in BookingId
        /\ req[r].pc \in ReleasePc \cup {"resch_write"} => req[r].seen \in SlotId

SlotChecked ==
    \A r \in Req :
        /\ req[r].pc \in {"insert", "resch_select", "resch_write"} =>
               slots[req[r].slot] # NoRow
        /\ req[r].pc \in ReleasePc \cup {"resch_write"} => slots[req[r].seen] # NoRow

\* The bookings there are, and those that requests know, have drawn their ids:
\* a booking that was deleted never comes back.
RowsMinted == \A b \in BookingId : Exists(b) => b \in minted
BusyMinted == \A r \in Req : req[r].booking \in minted \cup {NoBooking}

\* A booking row names a slot that exists: the foreign key on slot_id never
\* has to refuse what CreateBooking and RescheduleBooking send it.
BookingSlotExists ==
    \A b \in BookingId : Exists(b) => slots[bookings[b].slot] # NoRow

\* A booking somebody attended is never deleted, although DeleteBooking has
\* read it before the attendance was written.
AttendanceHasBooking == \A b \in attendance : Exists(b)

\* Together they are inductive.
AnyClientInv ==
    /\ TypeOK /\ RequestShape /\ SlotChecked /\ RowsMinted /\ BusyMinted
    /\ BookingSlotExists /\ AttendanceHasBooking

\* Between Lock and Unlock a create is alone with its slot.
LockExclusion ==
    /\ \A r \in Req : InCreate(r) => req[r].slot \in lockKeys
    /\ \A r1, r2 \in Req :
          InCreate(r1) /\ InCreate(r2) /\ req[r1].slot = req[r2].slot => r1 = r2

\* No two live bookings share a slot: what the lock, the check of the slot
\* status and the transaction of CreateBooking are there for.
NoDoubleBooking ==
    \A b1, b2 \in BookingId :
        Live(b1) /\ Live(b2) /\ bookings[b1].slot = bookings[b2].slot => b1 = b2

\* A live booking has its slot: the two tables agree from the booking's side.
LiveHoldsSlot ==
    \A b \in BookingId : Live(b) => slots[bookings[b].slot] = BookedBy(b)

\* A live booking has one slot: what it held before a reschedule is given up.
OneSlotEach ==
    \A s \in SlotId, b \in BookingId :
        slots[s] = BookedBy(b) /\ Live(b) => bookings[b].slot = s

\* Why these hold for careful clients and a prompt server.  A slot about to be
\* written is still free and nobody else's target, a booking about to be
\* released or moved still has its slot, and a slot about to be freed is
\* nobody else's yet.
TargetSafe ==
    \A r \in Req : req[r].pc \in {"insert", "resch_select", "resch_write"} =>
        IsFree(req[r].slot)

TargetAlone ==
    \A r1, r2 \in Req :
        /\ InCreate(r1) \/ InReschedule(r1)
        /\ InReschedule(r2)
        /\ req[r1].slot = req[r2].slot
        => r1 = r2

BookingSafe ==
    \A r \in Req :
        /\ req[r].pc \in {"cancel", "delete"} \cup ReschedulePc =>
               Live(req[r].booking)
        /\ req[r].pc \in {"cancel", "delete", "resch_write"} =>
               bookings[req[r].booking].slot = req[r].seen

FreeSafe ==
    \A r \in Req : req[r].pc \in {"cancel_free", "delete_free"} =>
        /\ req[r].booking \in minted /\ ~Live(req[r].booking)
        /\ slots[req[r].seen] = BookedBy(req[r].booking)

\* One request at a time releases or moves a booking.
BookingAlone ==
    \A r1, r2 \in Req :
        /\ req[r1].pc \in ReleasePc \cup ReschedulePc
        /\ req[r2].pc \in ReleasePc \cup ReschedulePc
        /\ req[r1].booking = req[r2].booking
        => r1 = r2

\* A slot names no booking that was not drawn yet.
SlotsMinted ==
    \A s \in SlotId, b \in BookingId : slots[s] = BookedBy(b) => b \in minted

CarefulInv ==
    /\ TypeOK /\ RequestShape /\ RowsMinted /\ SlotsMinted
    /\ LockExclusion /\ TargetSafe /\ TargetAlone
    /\ LiveHoldsSlot /\ OneSlotEach /\ BookingSafe /\ FreeSafe /\ BookingAlone

\* And from the slot's side: what keeps a slot booked is a live booking of
\* that very slot, or a request that is about to free it.
NoStrandedSlot ==
    \A s \in SlotId, b \in BookingId : slots[s] = BookedBy(b) =>
        \/ Live(b) /\ bookings[b].slot = s
        \/ \E r \in Req : /\ req[r].pc \in {"cancel_free", "delete_free"}
                          /\ req[r].booking = b /\ req[r].seen = s

\* The endpoints do what the ledger of slots says.
Held == [b \in BookingId |-> IF Live(b) THEN bookings[b].slot ELSE NoSlot]

Ledger == INSTANCE SlotLedger WITH held <- Held

ImplementsLedger == Ledger!Spec

=============================================================================
