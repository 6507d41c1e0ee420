--------------------------- MODULE BookingAnswers ---------------------------
(***************************************************************************)
(* The booking endpoints as their clients see them: every step of Bookings *)
(* together with the HTTP status it decides, the last read of the booking  *)
(* that most endpoints answer with, and the keys of retried creates.  The  *)
(* handlers are internal/http-server/handlers/bookings/* and               *)
(* .../attendance/create; requests they refuse with 400 never reach the    *)
(* service and are left out.                                               *)
(***************************************************************************)
EXTENDS Bookings

CONSTANTS
    Key,         \* values of the Idempotency-Key header
    SlotOfKey,   \* a client that repeats a create repeats its slot
    NoKey, NoOp, NoReq

ASSUME AnswersAssumption ==
    /\ SlotOfKey \in [Key -> SlotId]
    /\ NoKey \notin Key /\ NoOp \notin Endpoints /\ NoReq \notin Req

VARIABLES
    call,        \* the exchange on each connection: in progress, or the last one
    keyed,       \* history: the bookings that were made under each key
    cut,         \* history: the bookings whose release was cut off half way
    writer       \* history: the request that wrote the row of a booking last

history == <<keyed, cut, writer>>
answerVars == <<vars, call, history>>

Code == {0, 200, 201, 204, 404, 409, 423, 500}

\* code = 0: not decided yet.  wrote: this request has committed a change.
\* reread: what is left is the GetBooking whose result is the answer; got is
\* the row it found, and own says that nobody else had written it since.
Call ==
    [op : Endpoints \cup {NoOp}, key : Key \cup {NoKey}, slot : SlotId \cup {NoSlot},
     booking : BookingId \cup {NoBooking}, code : Code,
     wrote : BOOLEAN, reread : BOOLEAN, got : BookingRow \cup {NoRow}, own : BOOLEAN]

NewCall(op, key, s, b, code, wrote, reread) ==
    [op |-> op, key |-> key, slot |-> s, booking |-> b, code |-> code,
     wrote |-> wrote, reread |-> reread, got |-> NoRow, own |-> FALSE]

NoCall == NewCall(NoOp, NoKey, NoSlot, NoBooking, 0, FALSE, FALSE)

InFlight(r) == req[r].pc # "idle" \/ call[r].reread

AnswersTypeOK ==
    /\ TypeOK
    /\ call \in [Req -> Call]
    /\ keyed \in [Key -> SUBSET BookingId]
    /\ cut \subseteq BookingId
    /\ writer \in [BookingId -> Req \cup {NoReq}]

AnswersInit ==
    /\ Init
    /\ call = [r \in Req |-> NoCall]
    /\ keyed = [k \in Key |-> {}]
    /\ cut = {}
    /\ writer = [b \in BookingId |-> NoReq]

-----------------------------------------------------------------------------
(* What a step does to its call.                                           *)

\* The request arrives; code is 0 unless its first statement decides it.
Opens(r, op, key, s, b, code) ==
    /\ ~InFlight(r)
    /\ call' = [call EXCEPT ![r] = NewCall(op, key, s, b, code, FALSE, FALSE)]

Answers(r, code) == call' = [call EXCEPT ![r].code = code]

\* The last read has found a row, or none.
Closes(r, code, row) ==
    call' = [call EXCEPT ![r].reread = FALSE, ![r].code = code, ![r].got = row,
                         ![r].own = writer[call[r].booking] = r]

\* The request writes the row of b, its key being of no interest.
Writes(r, b) ==
    /\ writer' = [writer EXCEPT ![b] = r]
    /\ UNCHANGED <<keyed, cut>>

\* A refusal by the first statement, which changes nothing.
RefusedAtOnce(r, op, key, s, b, code) ==
    /\ op \in Ops
    /\ Opens(r, op, key, s, b, code)
    /\ UNCHANGED <<vars, history>>

\* CreateBooking.  423: the lock is taken; 404, 409: GetSlotForBooking.
CreateArrives(r, s, key) ==
    \/ CreateLock(r, s) /\ Opens(r, "create", key, s, NoBooking, 0) /\ UNCHANGED history
    \/ s \in lockKeys /\ RefusedAtOnce(r, "create", key, s, NoBooking, 423)

CreateChecked(r) ==
    /\ CreateCheck(r)
    /\ \/ slots[req[r].slot] = NoRow /\ Answers(r, 404)
       \/ slots[req[r].slot] # NoRow /\ ~IsFree(req[r].slot) /\ Answers(r, 409)
       \/ IsFree(req[r].slot) /\ UNCHANGED call
    /\ UNCHANGED history

\* The key is not looked at, neither here nor before.
CreateInserted(r, b) ==
    /\ CreateInsert(r, b)
    /\ call' = [call EXCEPT ![r].booking = b, ![r].wrote = TRUE, ![r].reread = TRUE]
    /\ keyed' = [k \in Key |-> IF k = call[r].key THEN keyed[k] \cup {b} ELSE keyed[k]]
    /\ writer' = [writer EXCEPT ![b] = r]
    /\ UNCHANGED cut

\* The deferred Unlock comes after the final read.
CreateUnlocked(r) == CreateUnlock(r) /\ ~call[r].reread /\ UNCHANGED <<call, history>>

\* Mutant: the answer is built from the row as it was made.
RereadStale(r) ==
    LET b == call[r].booking IN
    /\ call[r].reread
    /\ \/ /\ Exists(b)
          /\ Closes(r, IF call[r].op = "create" THEN 201 ELSE 200,
                    NewBooking(bookings[b].slot))
       \/ ~Exists(b) /\ Closes(r, 404, NoRow)
    /\ UNCHANGED <<vars, history>>

\* Mutant: GetBooking does not find a cancelled booking.
RereadHidesCancelled(r) ==
    LET b == call[r].booking IN
    /\ call[r].reread
    /\ \/ Live(b) /\ Closes(r, IF call[r].op = "create" THEN 201 ELSE 200, bookings[b])
       \/ ~Live(b) /\ Closes(r, 404, NoRow)
    /\ UNCHANGED <<vars, history>>

\* The GetBooking that ends create, cancel, confirm and reschedule.
Reread(r) ==
    LET b == call[r].booking IN
    /\ call[r].reread
    /\ \/ Exists(b) /\ Closes(r, IF call[r].op = "create" THEN 201 ELSE 200, bookings[b])
       \/ ~Exists(b) /\ Closes(r, 404, NoRow)
    /\ UNCHANGED <<vars, history>>

\* CancelBooking and DeleteBooking.
CancelArrives(r, b) ==
    \/ CancelGet(r, b) /\ Opens(r, "cancel", NoKey, NoSlot, b, 0) /\ UNCHANGED history
    \/ ~Exists(b) /\ RefusedAtOnce(r, "cancel", NoKey, NoSlot, b, 404)

\* The status change is committed by itself.
CancelStatusSent(r) ==
    /\ CancelStatus(r)
    /\ \/ /\ Exists(req[r].booking)
          /\ call' = [call EXCEPT ![r].wrote = TRUE]
          /\ Writes(r, req[r].booking)
       \/ ~Exists(req[r].booking) /\ Answers(r, 404) /\ UNCHANGED history

CancelFreed(r) ==
    CancelFree(r) /\ call' = [call EXCEPT ![r].reread = TRUE] /\ UNCHANGED history

DeleteArrives(r, b) ==
    \/ DeleteGet(r, b) /\ Opens(r, "delete", NoKey, NoSlot, b, 0) /\ UNCHANGED history
    \/ ~Exists(b) /\ RefusedAtOnce(r, "delete", NoKey, NoSlot, b, 404)

\* Mutant: deleting no row is no error.
DeleteRowSentAnyCount(r) ==
    LET b == req[r].booking IN
    /\ req[r].pc = "delete"
    /\ bookings' = [bookings EXCEPT ![b] = NoRow]
    /\ GoTo(r, "delete_free")
    /\ call' = [call EXCEPT ![r].wrote = Exists(b)]
    /\ UNCHANGED <<slots, minted, attendance, lockKeys, history>>

\* A refusal by the foreign key of attendance is an error like any other.
DeleteRowSent(r) ==
    LET b == req[r].booking IN
    /\ DeleteRow(r)
    /\ \/ Exists(b) /\ b \notin attendance /\ call' = [call EXCEPT ![r].wrote = TRUE]
       \/ ~Exists(b) /\ Answers(r, 404)
       \/ Exists(b) /\ b \in attendance /\ Answers(r, 500)
    /\ UNCHANGED history

\* 500: the COMMIT of the transaction, in which nothing is left to do, fails.
DeleteFreed(r) ==
    /\ DeleteFree(r)
    /\ Answers(r, 204) \/ (r \in Faulty /\ Answers(r, 500))
    /\ UNCHANGED history

\* ConfirmBooking and CreateAttendance, one statement each.
ConfirmArrives(r, b) ==
    \/ /\ ConfirmBooking(r, b)
       /\ ~InFlight(r)
       /\ call' = [call EXCEPT ![r] =
                      NewCall("confirm", NoKey, NoSlot, b, 0, TRUE, TRUE)]
       /\ Writes(r, b)
    \/ ~Exists(b) /\ RefusedAtOnce(r, "confirm", NoKey, NoSlot, b, 404)

\* The foreign key and UNIQUE refuse with an error the handler does not know,
\* and the GetAttendance after the INSERT may fail.
AttendanceArrives(r, b) ==
    \/ /\ CreateAttendance(r, b)
       /\ ~InFlight(r)
       /\ \E code \in {201, 500} :
             /\ code = 500 => r \in Faulty
             /\ call' = [call EXCEPT ![r] =
                            NewCall("attend", NoKey, NoSlot, b, code, TRUE, FALSE)]
       /\ UNCHANGED history
    \/ /\ ~Exists(b) \/ b \in attendance
       /\ RefusedAtOnce(r, "attend", NoKey, NoSlot, b, 500)

\* RescheduleBooking, with GetSlot for the new slot.
SlotFound(s) == slots[s] # NoRow

RescheduleArrives(r, b, s) ==
    \/ RescheduleGet(r, b, s) /\ Opens(r, "reschedule", NoKey, s, b, 0) /\ UNCHANGED history
    \/ ~Exists(b) /\ RefusedAtOnce(r, "reschedule", NoKey, s, b, 404)

RescheduleChecked(r) ==
    /\ RescheduleCheck(r)
    /\ \/ ~SlotFound(req[r].slot) /\ Answers(r, 404)
       \/ SlotFound(req[r].slot) /\ ~IsFree(req[r].slot) /\ Answers(r, 409)
       \/ IsFree(req[r].slot) /\ UNCHANGED call
    /\ UNCHANGED history

RescheduleSelected(r) ==
    /\ RescheduleSelect(r)
    /\ \/ Exists(req[r].booking) /\ UNCHANGED call
       \/ ~Exists(req[r].booking) /\ Answers(r, 404)
    /\ UNCHANGED history

RescheduleWritten(r) ==
    /\ RescheduleWrite(r)
    /\ call' = [call EXCEPT ![r].wrote = TRUE, ![r].reread = TRUE]
    /\ Writes(r, req[r].booking)

\* A statement fails, the last read included, or a COMMIT whose reply is lost:
\* 500, if nothing was decided.
Fails(r) ==
    /\ \/ Fail(r)
       \/ r \in Faulty /\ call[r].reread /\ UNCHANGED vars
    /\ call' = [call EXCEPT ![r].reread = FALSE,
                            ![r].code = IF call[r].code = 0 THEN 500 ELSE call[r].code]
    /\ cut' = IF req[r].pc \in {"cancel_free", "delete_free"}
              THEN cut \cup {req[r].booking} ELSE cut
    /\ UNCHANGED <<keyed, writer>>

-----------------------------------------------------------------------------
KeysFor(s) == {k \in Key : SlotOfKey[k] = s} \cup {NoKey}

ArrivesAt(r) ==
    \/ \E s \in SlotId : \E k \in KeysFor(s) : CreateArrives(r, s, k)
    \/ \E b \in BookingId :
          \/ CancelArrives(r, b) \/ DeleteArrives(r, b)
          \/ ConfirmArrives(r, b) \/ AttendanceArrives(r, b)
          \/ \E s \in SlotId : RescheduleArrives(r, b, s)

\* The steps a request takes by itself once it has been sent.
Advances(r) ==
    \/ CreateChecked(r) \/ CreateUnlocked(r) \/ Reread(r)
    \/ \E b \in BookingId : CreateInserted(r, b)
    \/ CancelStatusSent(r) \/ CancelFreed(r)
    \/ DeleteRowSent(r) \/ DeleteFreed(r)
    \/ RescheduleChecked(r) \/ RescheduleSelected(r) \/ RescheduleWritten(r)

KeyExpires(s) == LockExpire(s) /\ UNCHANGED <<call, history>>

AnswersNext ==
    \/ \E r \in Req : ArrivesAt(r) \/ Advances(r) \/ Fails(r)
    \/ \E s \in SlotId : KeyExpires(s)
    \/ \E S \in SUBSET SlotId \ {{}} : SlotsGenerated(S) /\ UNCHANGED <<call, history>>

AnswersSpec == AnswersInit /\ [][AnswersNext]_answerVars

\* The Go runtime runs every goroutine on and Redis drops expired keys.
\* Nothing makes a client send a request, nor a fault happen.
AnswersFairSpec ==
    /\ AnswersSpec
    /\ \A r \in Req : WF_answerVars(Advances(r))
    /\ \A s \in SlotId : WF_answerVars(KeyExpires(s))

-----------------------------------------------------------------------------
(* Properties                                                              *)

\* A client that is told "not found", "not available" or "locked" may forget
\* its request, whoever else is at work: it has changed nothing, or what it
\* changed is gone, because the last read found its booking deleted for good.
RefusalLeavesNothing ==
    \A r \in Req : call[r].code \in {404, 409, 423} /\ call[r].wrote =>
        /\ call[r].code = 404
        /\ call[r].booking \in minted /\ ~Exists(call[r].booking)

\* Whoever the clients are and whatever fails, a conflict has changed nothing, a
\* success has, and of two deletes of a booking at most one is told it did it.
CodeHonest ==
    /\ \A r \in Req : /\ call[r].code \in {409, 423} => ~call[r].wrote
                      /\ call[r].code \in {200, 201, 204} => call[r].wrote
    /\ \A r1, r2 \in Req :
          call[r1].code = 204 /\ call[r2].code = 204 /\ call[r1].booking = call[r2].booking
          => r1 = r2

\* The row that a success shows.  What no other request takes back: a booking
\* that was confirmed is not pending again, one that was cancelled keeps its
\* cancelled_at.  If nobody else has written the row since the request did, it
\* is as asked: on the slot it named, in the status its endpoint sets.
Lasting(op, row) ==
    /\ op = "cancel" => row.stamped
    /\ op = "confirm" => row.status # "pending"

AsAsked(op, slot, row) ==
    /\ op \in {"create", "reschedule"} => row.slot = slot
    /\ op = "create" => row.status = "pending"
    /\ op = "cancel" => row.status = "cancelled"
    /\ op = "confirm" => row.status = "confirmed"

\* A success shows the client the booking it asked for, although its write and
\* the read it answers with are two statements: other clients may cross it with
\* writes of their own, but no stale or half-written row is shown for theirs.
SuccessAsAsked ==
    \A r \in Req : call[r].code \in {200, 201} /\ call[r].op # "attend" =>
        /\ call[r].got # NoRow
        /\ Lasting(call[r].op, call[r].got)
        /\ call[r].own => AsAsked(call[r].op, call[r].slot, call[r].got)

\* A create that is sent again with its key is not refused for the booking
\* that was made under this very key.
RetryServed ==
    \A r \in Req : call[r].op = "create" /\ call[r].code = 409 /\ call[r].key \in Key =>
        keyed[call[r].key] = {}

\* What keeps a slot booked is a live booking of that very slot, or a release
\* that is about to free the slot, or that was cut off half way.
StrandedOnlyWhenCut ==
    \A s \in SlotId, b \in BookingId : slots[s] = BookedBy(b) =>
        \/ Live(b) /\ bookings[b].slot = s
        \/ \E r \in Req : /\ req[r].pc \in {"cancel_free", "delete_free"}
                          /\ req[r].booking = b /\ req[r].seen = s
        \/ b \in cut

\* Every request is answered.
AnswerComes == \A r \in Req : InFlight(r) ~> ~InFlight(r)

\* A lock that a dead request left behind does not block its slot for ever.
LockReleased == \A s \in SlotId : s \in lockKeys ~> s \notin lockKeys

\* A cancelled or deleted booking gives its slot back, unless it was cut off.
SlotGivenBack ==
    \A s \in SlotId, b \in BookingId :
        slots[s] = BookedBy(b) /\ ~Live(b) ~> slots[s] # BookedBy(b) \/ b \in cut

=============================================================================
