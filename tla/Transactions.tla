---------------------------- MODULE Transactions ----------------------------
(***************************************************************************)
(* The transactions of CreateBooking and RescheduleBooking, statement by   *)
(* statement.  Bookings lets all writes of a transaction happen at its     *)
(* commit.  Here a transaction collects the rows it writes, keeps them     *)
(* locked against the writes of others until it ends, and installs them    *)
(* when it commits; other requests go on in between, and wait where        *)
(* PostgreSQL makes them wait.                                             *)
(*                                                                         *)
(* The locks are those of PostgreSQL at READ COMMITTED.  An UPDATE or a    *)
(* DELETE waits for a row another open transaction has written, SELECT ... *)
(* FOR UPDATE also for a row that a foreign key of such a transaction      *)
(* points to, a plain SELECT and an INSERT for nothing.                    *)
(***************************************************************************)
EXTENDS Bookings

\* The server may abort any transaction, so any request may be cut off.
ASSUME TransactionsAssumption == Faulty = Req

VARIABLE tx     \* the open transaction of each request

txVars == <<vars, tx>>

\* How many writing statements it has sent, the rows it has written (NoRow:
\* not written), and the slots its foreign keys point to.
Transaction ==
    [sent : 0..3,
     slots : [SlotId -> SlotRow \cup {NoRow}],
     bookings : [BookingId -> BookingRow \cup {NoRow}],
     shared : SUBSET SlotId]

NoTx ==
    [sent |-> 0,
     slots |-> [s \in SlotId |-> NoRow],
     bookings |-> [b \in BookingId |-> NoRow],
     shared |-> {}]

TxTypeOK == TypeOK /\ tx \in [Req -> Transaction]

TxInit == Init /\ tx = [r \in Req |-> NoTx]

-----------------------------------------------------------------------------
(* Rows under a transaction.                                               *)

WroteSlot(q, s) == tx[q].slots[s] # NoRow
WroteBooking(q, b) == tx[q].bookings[b] # NoRow

\* Nobody but r has an open write to the row.
SlotOpen(r, s) == \A q \in Req \ {r} : ~WroteSlot(q, s)
BookingOpen(r, b) == \A q \in Req \ {r} : ~WroteBooking(q, b)

\* And nobody's foreign key points to it.
SlotUnshared(r, s) == SlotOpen(r, s) /\ \A q \in Req \ {r} : s \notin tx[q].shared

\* A table with the rows of a transaction in place of the old ones.
Install(written, table) ==
    [x \in DOMAIN table |-> IF written[x] = NoRow THEN table[x] ELSE written[x]]

\* UPDATE slots in the transaction of r: a slot that is not there stays so.
TxWriteSlot(r, s, row, sent) ==
    /\ SlotOpen(r, s)
    /\ tx' = [tx EXCEPT
           ![r].sent = sent,
           ![r].slots[s] = IF slots[s] = NoRow THEN NoRow ELSE row]
    /\ UNCHANGED vars

\* The transaction of r is over, and its locks are gone.
EndTx(r) == tx' = [tx EXCEPT ![r] = NoTx]

-----------------------------------------------------------------------------
(* The transaction of CreateBooking.                                       *)

\* INSERT ... RETURNING id, with an id that nobody has drawn.
InsertBooking(r, b) ==
    /\ req[r].pc = "insert" /\ tx[r].sent = 0
    /\ b \notin minted /\ BookingOpen(r, b)
    /\ tx' = [tx EXCEPT ![r].sent = 1,
                        ![r].bookings[b] = NewBooking(req[r].slot),
                        ![r].shared = {req[r].slot}]
    /\ UNCHANGED vars

BookSlot(r, b) ==
    /\ req[r].pc = "insert" /\ tx[r].sent = 1
    /\ WroteBooking(r, b)
    /\ TxWriteSlot(r, req[r].slot, BookedBy(b), 2)

CommitCreate(r, b) ==
    /\ req[r].pc = "insert" /\ tx[r].sent = 2
    /\ WroteBooking(r, b)
    /\ slots' = Install(tx[r].slots, slots)
    /\ bookings' = Install(tx[r].bookings, bookings)
    /\ minted' = minted \cup {b}
    /\ req' = [req EXCEPT ![r].pc = "unlock", ![r].booking = b]
    /\ EndTx(r)
    /\ UNCHANGED <<attendance, lockKeys>>

-----------------------------------------------------------------------------
(* The transaction of RescheduleBooking, after its SELECT.                 *)

\* Mutant: the first UPDATE is sent through s.db.
MoveBookingAlone(r) ==
    LET b == req[r].booking IN
    /\ req[r].pc = "resch_write" /\ tx[r].sent = 0
    /\ BookingOpen(r, b)
    /\ tx' = [tx EXCEPT ![r].sent = 1]
    /\ bookings' = IF Exists(b)
                   THEN [bookings EXCEPT ![b].slot = req[r].slot]
                   ELSE bookings
    /\ UNCHANGED <<slots, minted, attendance, lockKeys, req>>

\* UPDATE bookings SET slot_id: the row as it is now, with another slot.  Its
\* foreign key points to the new slot.
MoveBooking(r) ==
    LET b == req[r].booking IN
    /\ req[r].pc = "resch_write" /\ tx[r].sent = 0
    /\ BookingOpen(r, b)
    /\ IF Exists(b)
       THEN tx' = [tx EXCEPT ![r].sent = 1,
                       ![r].bookings[b] = [bookings[b] EXCEPT !.slot = req[r].slot],
                       ![r].shared = {req[r].slot}]
       ELSE tx' = [tx EXCEPT ![r].sent = 1]
    /\ UNCHANGED vars

\* Mutant: the constant of another status.
FreeOldSlotCancelled(r) ==
    /\ req[r].pc = "resch_write" /\ tx[r].sent = 1
    /\ TxWriteSlot(r, req[r].seen, [status |-> "cancelled", booking |-> NoBooking], 2)

FreeOldSlot(r) ==
    /\ req[r].pc = "resch_write" /\ tx[r].sent = 1
    /\ TxWriteSlot(r, req[r].seen, FreeSlot, 2)

BookNewSlot(r) ==
    /\ req[r].pc = "resch_write" /\ tx[r].sent = 2
    /\ TxWriteSlot(r, req[r].slot, BookedBy(req[r].booking), 3)

CommitReschedule(r) ==
    /\ req[r].pc = "resch_write" /\ tx[r].sent = 3
    /\ slots' = Install(tx[r].slots, slots)
    /\ bookings' = Install(tx[r].bookings, bookings)
    /\ Finish(r)
    /\ EndTx(r)
    /\ UNCHANGED <<minted, attendance, lockKeys>>

-----------------------------------------------------------------------------
(* Statements outside a transaction, which wait for the rows they write.   *)

CheckSlot(r) == CreateCheck(r) /\ SlotUnshared(r, req[r].slot) /\ UNCHANGED tx

WriteBookingRow(r) ==
    /\ CancelStatus(r) \/ DeleteRow(r)
    /\ BookingOpen(r, req[r].booking)
    /\ UNCHANGED tx

Confirm(r, b) == ConfirmBooking(r, b) /\ BookingOpen(r, b) /\ UNCHANGED tx

FreeSeenSlot(r) ==
    /\ CancelFree(r) \/ DeleteFree(r)
    /\ SlotOpen(r, req[r].seen)
    /\ UNCHANGED tx

\* Reads, Redis commands and the INSERT of an attendance wait for nobody.
Unhindered(r) ==
    /\ \/ \E s \in SlotId : CreateLock(r, s)
       \/ CreateUnlock(r)
       \/ \E b \in BookingId :
             \/ CancelGet(r, b) \/ DeleteGet(r, b) \/ CreateAttendance(r, b)
             \/ \E s \in SlotId : RescheduleGet(r, b, s)
       \/ RescheduleCheck(r) \/ RescheduleSelect(r)
    /\ UNCHANGED tx

-----------------------------------------------------------------------------
(* How a transaction ends otherwise.                                       *)

\* The next statement of r waits for a row that q has written.
WaitsFor(r, q) ==
    /\ q # r
    /\ \/ req[r].pc = "insert" /\ tx[r].sent = 1 /\ WroteSlot(q, req[r].slot)
       \/ /\ req[r].pc = "resch_write"
          /\ \/ tx[r].sent = 0 /\ WroteBooking(q, req[r].booking)
             \/ tx[r].sent = 1 /\ WroteSlot(q, req[r].seen)
             \/ tx[r].sent = 2 /\ WroteSlot(q, req[r].slot)

\* A circle of transactions that wait for each other, r among them: each
\* waits for one row, which has one owner.
Deadlocked(r) ==
    \E circle \in SUBSET Req :
        /\ r \in circle
        /\ \A p \in circle :
              /\ \E q \in circle : WaitsFor(p, q)
              /\ \E q \in circle : WaitsFor(q, p)

\* What the code does with the error of a statement: roll back and answer,
\* for a create after its Unlock.
GiveUp(r) ==
    /\ IF req[r].pc = "insert" THEN GoTo(r, "unlock") ELSE Finish(r)
    /\ EndTx(r)
    /\ UNCHANGED <<slots, bookings, minted, attendance, lockKeys>>

\* PostgreSQL aborts one of a circle (deadlock_timeout).
DeadlockAbort(r) == Deadlocked(r) /\ GiveUp(r)

\* Mutant: the error path forgets the Rollback.
TxFailKeepsLocks(r) == Fail(r) /\ UNCHANGED tx

TxFail(r) == Fail(r) /\ EndTx(r)

-----------------------------------------------------------------------------
Statement(r) ==
    \/ \E b \in BookingId : InsertBooking(r, b) \/ BookSlot(r, b) \/ CommitCreate(r, b)
    \/ MoveBooking(r) \/ FreeOldSlot(r) \/ BookNewSlot(r) \/ CommitReschedule(r)
    \/ CheckSlot(r) \/ WriteBookingRow(r) \/ FreeSeenSlot(r)
    \/ \E b \in BookingId : Confirm(r, b)

World ==
    /\ \/ \E s \in SlotId : LockExpire(s)
       \/ \E S \in SUBSET SlotId \ {{}} : SlotsGenerated(S)
    /\ UNCHANGED tx

TxNext ==
    \/ \E r \in Req : Statement(r) \/ Unhindered(r) \/ DeadlockAbort(r) \/ TxFail(r)
    \/ World

TxSpec == TxInit /\ [][TxNext]_txVars

-----------------------------------------------------------------------------
(* Properties                                                              *)

\* A row that a transaction is going to install is still the committed row
\* with the slot replaced: nobody has changed the booking since the UPDATE
\* read it, so that the commit loses no cancellation, confirmation or delete.
Image(r) ==
    LET b == req[r].booking IN
    [NoTx.bookings EXCEPT
        ![b] = IF Exists(b) THEN [bookings[b] EXCEPT !.slot = req[r].slot] ELSE NoRow]

ImageOf(r) ==
    req[r].pc = "resch_write" /\ tx[r].sent > 0 => tx[r].bookings = Image(r)

ImageCurrent == \A r \in Req : ImageOf(r)

\* Whoever keeps a row locked is in flight and in its transaction: no request
\* waits for one that was answered, gave up or died.
AtWork(r) == tx[r] # NoTx => req[r].pc \in {"insert", "resch_write"}

HoldersAtWork == \A r \in Req : AtWork(r)

\* The rest of what makes a commit one step of Bookings.  A row is in one open
\* transaction only, and each has written what its statements so far say.
OneWriter ==
    \A r, q \in Req : r # q =>
        /\ \A s \in SlotId : ~(WroteSlot(r, s) /\ WroteSlot(q, s))
        /\ \A b \in BookingId : ~(WroteBooking(r, b) /\ WroteBooking(q, b))

CreateSent(t, s, b) ==
    /\ t.sent \in {1, 2}
    /\ t.bookings = [NoTx.bookings EXCEPT ![b] = NewBooking(s)]
    /\ t.sent = 1 => t.slots = NoTx.slots
    /\ t.sent = 2 => t.slots = [NoTx.slots EXCEPT ![s] = BookedBy(b)]

CreateWrote(r) ==
    req[r].pc = "insert" =>
        \/ tx[r] = NoTx
        \/ \E b \in BookingId \ minted : CreateSent(tx[r], req[r].slot, b)

RescheduleWrote(r) ==
    req[r].pc = "resch_write" =>
        /\ tx[r].sent = 0 => tx[r] = NoTx
        /\ tx[r].sent = 1 => tx[r].slots = NoTx.slots
        /\ tx[r].sent = 2 => tx[r].slots = [NoTx.slots EXCEPT ![req[r].seen] = FreeSlot]
        /\ tx[r].sent = 3 =>
              tx[r].slots = [NoTx.slots EXCEPT ![req[r].seen] = FreeSlot,
                                               ![req[r].slot] = BookedBy(req[r].booking)]

\* Inductive.
TxInv ==
    /\ AnyClientInv /\ TxTypeOK
    /\ HoldersAtWork /\ OneWriter /\ ImageCurrent
    /\ \A r \in Req : CreateWrote(r) /\ RescheduleWrote(r)

\* Requests that come between the statements of a transaction, or wait for
\* it, or are aborted with it, see it happen at its commit or not at all:
\* what holds of Bookings holds of this module.
ImplementsBookings == Spec

=============================================================================
