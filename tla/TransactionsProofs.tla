------------------------- MODULE TransactionsProofs -------------------------
(***************************************************************************)
(* The transactions of Transactions are atomic, for any sets of requests,  *)
(* slots and bookings: the module implements Bookings, and so everything   *)
(* proved of Bookings holds with the statements of a transaction apart.    *)
(***************************************************************************)
EXTENDS Transactions, BookingsProofs

-----------------------------------------------------------------------------
(* Transactions as values.                                                 *)

LEMMA NoTxIsTransaction == NoTx \in Transaction
BY DEF NoTx, Transaction

\* Installing no row, one row, or two rows that are in the table.
LEMMA InstallNone ==
    ASSUME TypeOK
    PROVE  Install([b \in BookingId |-> NoRow], bookings) = bookings
BY DEF Install, TypeOK

LEMMA InstallBooking ==
    ASSUME TypeOK, NEW b \in BookingId, NEW row, row # NoRow
    PROVE  Install([[x \in BookingId |-> NoRow] EXCEPT ![b] = row], bookings)
               = [bookings EXCEPT ![b] = row]
<1>. DEFINE w == [[x \in BookingId |-> NoRow] EXCEPT ![b] = row]
<1>1. \A x \in BookingId : w[x] = IF x = b THEN row ELSE NoRow
    OBVIOUS
<1>2. Install(w, bookings)
          = [x \in BookingId |-> IF w[x] = NoRow THEN bookings[x] ELSE w[x]]
    BY DEF Install, TypeOK
<1>. HIDE DEF w
<1>3. Install(w, bookings) = [bookings EXCEPT ![b] = row]
    BY <1>1, <1>2 DEF TypeOK
<1>. QED
    BY <1>3 DEF w

LEMMA InstallSlot ==
    ASSUME TypeOK, NEW s \in SlotId, NEW row, row # NoRow
    PROVE  Install([[x \in SlotId |-> NoRow] EXCEPT ![s] = row], slots)
               = [slots EXCEPT ![s] = row]
<1>. DEFINE w == [[x \in SlotId |-> NoRow] EXCEPT ![s] = row]
<1>1. \A x \in SlotId : w[x] = IF x = s THEN row ELSE NoRow
    OBVIOUS
<1>2. Install(w, slots)
          = [x \in SlotId |-> IF w[x] = NoRow THEN slots[x] ELSE w[x]]
    BY DEF Install, TypeOK
<1>. HIDE DEF w
<1>3. Install(w, slots) = [slots EXCEPT ![s] = row]
    BY <1>1, <1>2 DEF TypeOK
<1>. QED
    BY <1>3 DEF w

LEMMA InstallSlots ==
    ASSUME TypeOK, NEW s \in SlotId, NEW row, row # NoRow,
           NEW s2 \in SlotId, NEW row2, row2 # NoRow
    PROVE  Install([[x \in SlotId |-> NoRow] EXCEPT ![s] = row, ![s2] = row2], slots)
               = [slots EXCEPT ![s] = row, ![s2] = row2]
<1>. DEFINE w == [[x \in SlotId |-> NoRow] EXCEPT ![s] = row, ![s2] = row2]
<1>1. \A x \in SlotId : w[x] = IF x = s2 THEN row2 ELSE IF x = s THEN row ELSE NoRow
    OBVIOUS
<1>2. Install(w, slots)
          = [x \in SlotId |-> IF w[x] = NoRow THEN slots[x] ELSE w[x]]
    BY DEF Install, TypeOK
<1>. HIDE DEF w
<1>3. Install(w, slots) = [slots EXCEPT ![s] = row, ![s2] = row2]
    BY <1>1, <1>2 DEF TypeOK
<1>. QED
    BY <1>3 DEF w

\* The rows that are written are rows.
LEMMA RowsAreRows ==
    /\ FreeSlot # NoRow
    /\ \A b \in BookingId : BookedBy(b) # NoRow
    /\ \A s \in SlotId : NewBooking(s) \in BookingRow /\ NewBooking(s) # NoRow
<1>1. FreeSlot \in SlotRow
    BY DEF FreeSlot, SlotRow
<1>2. \A b \in BookingId : BookedBy(b) \in SlotRow
    BY DEF BookedBy, SlotRow
<1>3. \A s \in SlotId : NewBooking(s) \in BookingRow
    BY BookingsAssumption DEF NewBooking, BookingRow
<1>. QED
    BY <1>1, <1>2, <1>3, BookingsAssumption

LEMMA EmptyTransaction ==
    /\ NoTx.sent = 0 /\ NoTx.shared = {}
    /\ NoTx.slots = [s \in SlotId |-> NoRow]
    /\ NoTx.bookings = [b \in BookingId |-> NoRow]
BY DEF NoTx

-----------------------------------------------------------------------------
(* Every step is a step of Bookings, or none.                              *)

LEMMA CommitCreateMaps ==
    ASSUME TxInv, NEW r \in Req, NEW b \in BookingId, CommitCreate(r, b)
    PROVE  CreateInsert(r, b)
<1>1. PICK c \in BookingId \ minted : CreateSent(tx[r], req[r].slot, c)
  <2>1. req[r].pc = "insert" /\ tx[r] # NoTx
      BY EmptyTransaction DEF CommitCreate
  <2>. QED
      BY <2>1 DEF TxInv, CreateWrote
<1>2. b = c
    BY <1>1, EmptyTransaction DEF CommitCreate, WroteBooking, CreateSent
<1>3. /\ req[r].slot \in SlotId /\ slots[req[r].slot] # NoRow
      /\ TypeOK
    BY DEF TxInv, AnyClientInv, TypeOK, RequestShape, SlotChecked, CommitCreate, CreatePc
<1>. tx[r].slots = [NoTx.slots EXCEPT ![req[r].slot] = BookedBy(b)]
    BY <1>1, <1>2 DEF CommitCreate, CreateSent
<1>4. slots' = [slots EXCEPT ![req[r].slot] = BookedBy(b)]
  <2>1. BookedBy(b) # NoRow
      BY RowsAreRows
  <2>2. Install([[x \in SlotId |-> NoRow] EXCEPT ![req[r].slot] = BookedBy(b)], slots)
            = [slots EXCEPT ![req[r].slot] = BookedBy(b)]
      BY <1>3, <2>1, InstallSlot
  <2>. QED
      BY <2>2, EmptyTransaction DEF CommitCreate
<1>5. bookings' = [bookings EXCEPT ![b] = NewBooking(req[r].slot)]
  <2>1. NewBooking(req[r].slot) # NoRow
      BY <1>3, RowsAreRows
  <2>2. Install([[x \in BookingId |-> NoRow] EXCEPT ![b] = NewBooking(req[r].slot)],
                bookings)
            = [bookings EXCEPT ![b] = NewBooking(req[r].slot)]
      BY <1>3, <2>1, InstallBooking
  <2>. QED
      BY <1>1, <1>2, <2>2, EmptyTransaction DEF CommitCreate, CreateSent
<1>. QED
    BY <1>1, <1>2, <1>3, <1>4, <1>5 DEF CommitCreate, CreateInsert, WriteSlot, TypeOK

LEMMA CommitRescheduleMaps ==
    ASSUME TxInv, NEW r \in Req, CommitReschedule(r)
    PROVE  RescheduleWrite(r)
<1>. DEFINE b == req[r].booking
            s == req[r].slot
            old == req[r].seen
<1>1. /\ b \in BookingId /\ s \in SlotId /\ old \in SlotId
      /\ slots[s] # NoRow /\ slots[old] # NoRow
      /\ TypeOK
    BY DEF TxInv, AnyClientInv, TypeOK, RequestShape, SlotChecked, CommitReschedule,
           ReschedulePc
<1>2. req[r].pc = "resch_write" /\ tx[r].sent = 3 /\ RescheduleWrote(r) /\ ImageOf(r)
    BY DEF TxInv, CommitReschedule, ImageCurrent
<1>. /\ tx[r].slots = [NoTx.slots EXCEPT ![old] = FreeSlot, ![s] = BookedBy(b)]
     /\ tx[r].bookings = Image(r)
    BY <1>2 DEF RescheduleWrote, ImageOf
<1>3. slots' = [slots EXCEPT ![old] = FreeSlot, ![s] = BookedBy(b)]
  <2>1. FreeSlot # NoRow /\ BookedBy(b) # NoRow
      BY <1>1, RowsAreRows
  <2>2. Install([[x \in SlotId |-> NoRow] EXCEPT ![old] = FreeSlot, ![s] = BookedBy(b)],
                slots)
            = [slots EXCEPT ![old] = FreeSlot, ![s] = BookedBy(b)]
    <3>. DEFINE booked == BookedBy(b)
    <3>. HIDE DEF booked, s, old
    <3>1. old \in SlotId /\ s \in SlotId /\ FreeSlot # NoRow /\ booked # NoRow /\ TypeOK
        BY <1>1, <2>1 DEF booked, s, old
    <3>2. Install([[x \in SlotId |-> NoRow] EXCEPT ![old] = FreeSlot, ![s] = booked],
                  slots)
              = [slots EXCEPT ![old] = FreeSlot, ![s] = booked]
        BY <3>1, InstallSlots
    <3>. QED
        BY <3>2 DEF booked
  <2>. QED
      BY <2>2, EmptyTransaction DEF CommitReschedule
<1>4. slots' = WriteSlot(WriteSlot(slots, old, FreeSlot), s, BookedBy(b))
    BY <1>1, <1>3, RowsAreRows DEF WriteSlot, TypeOK
<1>5. bookings' = IF Exists(b) THEN [bookings EXCEPT ![b].slot = s] ELSE bookings
  <2>1. CASE Exists(b)
    <3>1. tx[r].bookings = [[x \in BookingId |-> NoRow]
                               EXCEPT ![b] = [bookings[b] EXCEPT !.slot = s]]
        BY <2>1, EmptyTransaction DEF Image
    <3>2. [bookings[b] EXCEPT !.slot = s] # NoRow
        BY <1>1, <2>1, BookingsAssumption DEF Exists, BookingRow, TypeOK
    <3>. DEFINE row == [bookings[b] EXCEPT !.slot = s]
    <3>. HIDE DEF row
    <3>3. Install([[x \in BookingId |-> NoRow] EXCEPT ![b] = row], bookings)
              = [bookings EXCEPT ![b] = row]
        BY <1>1, <3>2, InstallBooking DEF row
    <3>4. bookings' = [bookings EXCEPT ![b] = row]
        BY <3>1, <3>3 DEF CommitReschedule, row
    <3>. QED
        BY <2>1, <3>4 DEF row
  <2>2. CASE ~Exists(b)
    <3>1. tx[r].bookings = [x \in BookingId |-> NoRow]
        BY <1>1, <2>2, EmptyTransaction DEF Image
    <3>2. Install(tx[r].bookings, bookings) = bookings
        BY <1>1, <3>1, InstallNone
    <3>. QED
        BY <2>2, <3>2 DEF CommitReschedule
  <2>. QED
      BY <2>1, <2>2
<1>. QED
    BY <1>4, <1>5 DEF CommitReschedule, RescheduleWrite

\* The victim of a deadlock was in its transaction.
LEMMA DeadlockMaps ==
    ASSUME NEW r \in Req, DeadlockAbort(r)
    PROVE  Fail(r)
<1>1. \E q \in Req : WaitsFor(r, q)
    BY DEF DeadlockAbort, Deadlocked
<1>2. req[r].pc \in {"insert", "resch_write"}
    BY <1>1 DEF WaitsFor
<1>. QED
    BY <1>2, TransactionsAssumption DEF DeadlockAbort, GiveUp, Fail

LEMMA AloneMaps ==
    ASSUME NEW r \in Req,
           \/ CheckSlot(r) \/ WriteBookingRow(r) \/ FreeSeenSlot(r)
           \/ \E b \in BookingId : Confirm(r, b)
           \/ Unhindered(r)
    PROVE  Arrive(r) \/ Proceed(r)
BY DEF CheckSlot, WriteBookingRow, FreeSeenSlot, Confirm, Unhindered, Arrive, Proceed

LEMMA TxStepMaps ==
    ASSUME TxInv, [TxNext]_txVars
    PROVE  [Next]_vars
<1>1. CASE UNCHANGED txVars
    BY <1>1 DEF txVars
<1>2. ASSUME NEW r \in Req, Statement(r) \/ Unhindered(r) \/ DeadlockAbort(r) \/ TxFail(r)
      PROVE  [Next]_vars
  <2>1. ASSUME NEW b \in BookingId, InsertBooking(r, b) \/ BookSlot(r, b)
        PROVE  UNCHANGED vars
      BY <2>1 DEF InsertBooking, BookSlot, TxWriteSlot
  <2>2. ASSUME NEW b \in BookingId, CommitCreate(r, b)
        PROVE  Next
      BY <2>2, CommitCreateMaps DEF Next, Proceed
  <2>3. CASE MoveBooking(r) \/ FreeOldSlot(r) \/ BookNewSlot(r)
      BY <2>3 DEF MoveBooking, FreeOldSlot, BookNewSlot, TxWriteSlot
  <2>4. CASE CommitReschedule(r)
      BY <2>4, CommitRescheduleMaps DEF Next, Proceed
  <2>5. CASE \/ CheckSlot(r) \/ WriteBookingRow(r) \/ FreeSeenSlot(r)
             \/ \E b \in BookingId : Confirm(r, b)
             \/ Unhindered(r)
      BY <2>5, AloneMaps DEF Next
  <2>6. CASE DeadlockAbort(r)
      BY <2>6, DeadlockMaps DEF Next
  <2>7. CASE TxFail(r)
      BY <2>7 DEF TxFail, Next
  <2>. QED
      BY <1>2, <2>1, <2>2, <2>3, <2>4, <2>5, <2>6, <2>7 DEF Statement
<1>3. CASE World
    BY <1>3 DEF World, Next
<1>. QED
    BY <1>1, <1>2, <1>3 DEF TxNext

-----------------------------------------------------------------------------
(* The transactions in flight stay as they should be.                      *)

\* What TxInv says of transactions.
TxShape ==
    /\ HoldersAtWork /\ OneWriter /\ ImageCurrent
    /\ \A r \in Req : CreateWrote(r) /\ RescheduleWrote(r)

\* A request that has no transaction is in shape.
LEMMA NoTxShape ==
    ASSUME NEW r \in Req, tx[r] = NoTx
    PROVE  AtWork(r) /\ CreateWrote(r) /\ RescheduleWrote(r) /\ ImageOf(r)
BY EmptyTransaction DEF AtWork, CreateWrote, RescheduleWrote, ImageOf

\* Whoever has no transaction, or ends it, or is in none of its statements,
\* may write and draw bookings that no other transaction has written.
LEMMA OthersStayInShape ==
    ASSUME TxInv, NEW r \in Req,
           tx'[r] = NoTx,
           \A q \in Req : q # r => tx'[q] = tx[q] /\ req'[q] = req[q],
           \A b \in minted' \ minted : BookingOpen(r, b),
           minted \subseteq minted', minted' \subseteq BookingId,
           \A b \in BookingId :
               \/ bookings'[b] = bookings[b]
               \/ BookingOpen(r, b) /\ (Exists(b) \/ b \notin minted)
    PROVE  TxShape'
<1>1. (AtWork(r) /\ CreateWrote(r) /\ RescheduleWrote(r) /\ ImageOf(r))'
    BY EmptyTransaction DEF AtWork, CreateWrote, RescheduleWrote, ImageOf
<1>2. ASSUME NEW q \in Req, q # r
      PROVE  (AtWork(q) /\ CreateWrote(q) /\ RescheduleWrote(q) /\ ImageOf(q))'
  <2>1. tx'[q] = tx[q] /\ req'[q] = req[q]
      BY <1>2
  <2>2. AtWork(q) /\ CreateWrote(q) /\ RescheduleWrote(q) /\ ImageOf(q)
      BY DEF TxInv, HoldersAtWork, ImageCurrent
  <2>3. AtWork(q)' /\ RescheduleWrote(q)'
      BY <2>1, <2>2 DEF AtWork, RescheduleWrote
  <2>4. CreateWrote(q)'
    <3>1. SUFFICES ASSUME req[q].pc = "insert", tx[q] # NoTx
                   PROVE  CreateWrote(q)'
        BY <2>1 DEF CreateWrote
    <3>2. PICK b \in BookingId \ minted : CreateSent(tx[q], req[q].slot, b)
        BY <2>2, <3>1 DEF CreateWrote
    <3>3. req[q].slot \in SlotId
        BY <3>1 DEF TxInv, AnyClientInv, RequestShape, CreatePc
    <3>4. tx[q].bookings[b] # NoRow
        BY <3>2, <3>3, EmptyTransaction, RowsAreRows DEF CreateSent
    <3>5. b \notin minted'
        BY <1>2, <3>2, <3>4 DEF BookingOpen, WroteBooking
    <3>. QED
        BY <2>1, <3>2, <3>5 DEF CreateWrote
  <2>5. ImageOf(q)'
    <3>1. SUFFICES ASSUME req[q].pc = "resch_write", tx[q].sent > 0
                   PROVE  tx[q].bookings = Image(q)'
        BY <2>1 DEF ImageOf
    <3>. DEFINE b == req[q].booking
    <3>2. b \in BookingId /\ b \in minted /\ TypeOK
        BY <3>1, BookingsAssumption
           DEF TxInv, AnyClientInv, RequestShape, BusyMinted, ReschedulePc
    <3>3. tx[q].bookings = Image(q)
        BY <2>2, <3>1 DEF ImageOf
    <3>4. bookings'[b] = bookings[b]
      <4>1. CASE Exists(b)
        <5>1. tx[q].bookings[b] = [bookings[b] EXCEPT !.slot = req[q].slot]
            BY <3>2, <3>3, <4>1, EmptyTransaction DEF Image
        <5>2. tx[q].bookings[b] # NoRow
            BY <3>2, <4>1, <5>1, BookingsAssumption, <3>1
               DEF Exists, BookingRow, TypeOK, TxInv, AnyClientInv, RequestShape, ReschedulePc
        <5>. QED
            BY <1>2, <3>2, <5>2 DEF BookingOpen, WroteBooking
      <4>2. CASE ~Exists(b)
          BY <3>2, <4>2
      <4>. QED
          BY <4>1, <4>2
    <3>. QED
        BY <2>1, <3>3, <3>4 DEF Image, Exists
  <2>. QED
      BY <2>3, <2>4, <2>5
<1>3. OneWriter'
  <2>1. \A q \in Req : \A s \in SlotId : WroteSlot(q, s)' => q # r /\ WroteSlot(q, s)
      BY EmptyTransaction DEF WroteSlot
  <2>2. \A q \in Req : \A b \in BookingId :
            WroteBooking(q, b)' => q # r /\ WroteBooking(q, b)
      BY EmptyTransaction DEF WroteBooking
  <2>. QED
      BY <2>1, <2>2 DEF TxInv, OneWriter
<1>. QED
    BY <1>1, <1>2, <1>3 DEF TxShape, HoldersAtWork, ImageCurrent

\* A statement of a transaction writes rows that no other has written.
LEMMA WriterStaysInShape ==
    ASSUME TxInv, NEW r \in Req, UNCHANGED vars,
           \A q \in Req : q # r => tx'[q] = tx[q],
           \A s \in SlotId : tx'[r].slots[s] # NoRow => SlotOpen(r, s),
           \A b \in BookingId : tx'[r].bookings[b] # NoRow => BookingOpen(r, b),
           req[r].pc \in {"insert", "resch_write"},
           (CreateWrote(r) /\ RescheduleWrote(r) /\ ImageOf(r))'
    PROVE  TxShape'
<1>1. \A q \in Req : (AtWork(q) /\ CreateWrote(q) /\ RescheduleWrote(q) /\ ImageOf(q))'
  <2>1. TAKE q \in Req
  <2>2. CASE q = r
      BY <2>2 DEF vars, AtWork
  <2>3. CASE q # r
    <3>1. AtWork(q) /\ CreateWrote(q) /\ RescheduleWrote(q) /\ ImageOf(q)
        BY DEF TxInv, HoldersAtWork, ImageCurrent
    <3>2. tx'[q] = tx[q] /\ req'[q] = req[q] /\ minted' = minted /\ bookings' = bookings
        BY <2>3 DEF vars
    <3>3. AtWork(q)' /\ RescheduleWrote(q)'
        BY <3>1, <3>2 DEF AtWork, RescheduleWrote
    <3>4. CreateWrote(q)'
        BY <3>1, <3>2 DEF CreateWrote
    <3>5. Image(q)' = Image(q)
        BY <3>2 DEF Image, Exists
    <3>6. ImageOf(q)'
        BY <3>1, <3>2, <3>5 DEF ImageOf
    <3>. QED
        BY <3>3, <3>4, <3>6
  <2>. QED
      BY <2>2, <2>3
<1>2. OneWriter'
    BY DEF TxInv, OneWriter, SlotOpen, BookingOpen, WroteSlot, WroteBooking
<1>. QED
    BY <1>1, <1>2 DEF TxShape, HoldersAtWork, ImageCurrent

-----------------------------------------------------------------------------
(* The statements of the transactions.                                     *)

LEMMA TxWriteSlotKeeps ==
    ASSUME TxTypeOK, NEW r \in Req, NEW s \in SlotId, slots[s] # NoRow,
           NEW row \in SlotRow, NEW sent \in 0..3, TxWriteSlot(r, s, row, sent)
    PROVE  /\ tx' \in [Req -> Transaction]
           /\ tx'[r].sent = sent
           /\ tx'[r].slots = [tx[r].slots EXCEPT ![s] = row]
           /\ tx'[r].bookings = tx[r].bookings
           /\ \A q \in Req : q # r => tx'[q] = tx[q]
<1>1. tx \in [Req -> Transaction]
    BY DEF TxTypeOK
<1>. DEFINE t == [[tx[r] EXCEPT !.sent = sent]
                      EXCEPT !.slots = [tx[r].slots EXCEPT ![s] = row]]
<1>2. tx' = [tx EXCEPT ![r] = t]
    BY <1>1 DEF TxWriteSlot, Transaction
<1>3. /\ t \in Transaction /\ t.sent = sent /\ t.bookings = tx[r].bookings
      /\ t.slots = [tx[r].slots EXCEPT ![s] = row]
    BY <1>1 DEF Transaction
<1>. HIDE DEF t
<1>. QED
    BY <1>1, <1>2, <1>3

LEMMA InsertInShape ==
    ASSUME TxInv, NEW r \in Req, NEW b \in BookingId, InsertBooking(r, b)
    PROVE  TxShape' /\ tx' \in [Req -> Transaction]
<1>. DEFINE row == NewBooking(req[r].slot)
            t == [NoTx EXCEPT !.sent = 1,
                              !.bookings = [NoTx.bookings EXCEPT ![b] = row],
                              !.shared = {req[r].slot}]
<1>1. /\ req[r].pc = "insert" /\ tx[r].sent = 0 /\ b \notin minted
      /\ BookingOpen(r, b) /\ UNCHANGED vars
    BY DEF InsertBooking
<1>2. req[r].slot \in SlotId /\ tx \in [Req -> Transaction]
    BY <1>1 DEF TxInv, AnyClientInv, RequestShape, CreatePc, TxTypeOK
<1>3. row \in BookingRow /\ row # NoRow
    BY <1>2, RowsAreRows
<1>4. tx[r] = NoTx
  <2>1. \A c : ~CreateSent(tx[r], req[r].slot, c)
      BY <1>1 DEF CreateSent
  <2>. QED
      BY <1>1, <2>1 DEF TxInv, CreateWrote
<1>. HIDE DEF row
<1>5. tx' = [tx EXCEPT ![r] = t]
    BY <1>2, <1>4 DEF InsertBooking, NoTx, row
<1>6. /\ t \in Transaction /\ t.sent = 1 /\ t.slots = NoTx.slots
      /\ t.bookings = [NoTx.bookings EXCEPT ![b] = row]
  <2>1. [NoTx.bookings EXCEPT ![b] = row] \in [BookingId -> BookingRow \cup {NoRow}]
      BY <1>3, EmptyTransaction
  <2>2. {req[r].slot} \in SUBSET SlotId /\ 1 \in 0..3
      BY <1>2
  <2>. QED
      BY <2>1, <2>2, NoTxIsTransaction DEF NoTx, Transaction
<1>. HIDE DEF t
<1>7. tx' \in [Req -> Transaction] /\ tx'[r] = t /\ \A q \in Req : q # r => tx'[q] = tx[q]
    BY <1>2, <1>5, <1>6
<1>8. CreateWrote(r)'
  <2>1. CreateSent(tx'[r], req[r].slot, b)
      BY <1>6, <1>7 DEF CreateSent, row
  <2>. QED
      BY <1>1, <2>1 DEF CreateWrote, vars
<1>9. (RescheduleWrote(r) /\ ImageOf(r))'
    BY <1>1 DEF RescheduleWrote, ImageOf, vars
<1>10. /\ \A s \in SlotId : tx'[r].slots[s] # NoRow => SlotOpen(r, s)
       /\ \A c \in BookingId : tx'[r].bookings[c] # NoRow => BookingOpen(r, c)
    BY <1>1, <1>6, <1>7, EmptyTransaction
<1>. QED
    BY <1>1, <1>7, <1>8, <1>9, <1>10, WriterStaysInShape

LEMMA BookSlotInShape ==
    ASSUME TxInv, NEW r \in Req, NEW b \in BookingId, BookSlot(r, b)
    PROVE  TxShape' /\ tx' \in [Req -> Transaction]
<1>. DEFINE s == req[r].slot
<1>1. /\ req[r].pc = "insert" /\ tx[r].sent = 1 /\ WroteBooking(r, b)
      /\ SlotOpen(r, s) /\ UNCHANGED vars /\ TxWriteSlot(r, s, BookedBy(b), 2)
    BY DEF BookSlot, TxWriteSlot
<1>2. s \in SlotId /\ slots[s] # NoRow /\ TxTypeOK
    BY <1>1 DEF TxInv, AnyClientInv, RequestShape, SlotChecked, CreatePc
<1>3. PICK c \in BookingId \ minted : CreateSent(tx[r], s, c)
  <2>1. tx[r] # NoTx
      BY <1>1, EmptyTransaction
  <2>. QED
      BY <1>1, <2>1 DEF TxInv, CreateWrote
<1>4. b = c
    BY <1>1, <1>3, EmptyTransaction DEF WroteBooking, CreateSent
<1>5. BookedBy(b) \in SlotRow /\ 2 \in 0..3
    BY DEF BookedBy, SlotRow
<1>6. /\ tx' \in [Req -> Transaction] /\ tx'[r].sent = 2
      /\ tx'[r].slots = [NoTx.slots EXCEPT ![s] = BookedBy(b)]
      /\ tx'[r].bookings = [NoTx.bookings EXCEPT ![b] = NewBooking(s)]
      /\ \A q \in Req : q # r => tx'[q] = tx[q]
    BY <1>1, <1>2, <1>3, <1>4, <1>5, TxWriteSlotKeeps DEF CreateSent
<1>7. CreateWrote(r)'
  <2>1. CreateSent(tx'[r], s, b)
      BY <1>6 DEF CreateSent
  <2>. QED
      BY <1>1, <1>3, <1>4, <2>1 DEF CreateWrote, vars
<1>8. (RescheduleWrote(r) /\ ImageOf(r))'
    BY <1>1 DEF RescheduleWrote, ImageOf, vars
<1>9. /\ \A x \in SlotId : tx'[r].slots[x] # NoRow => SlotOpen(r, x)
      /\ \A x \in BookingId : tx'[r].bookings[x] # NoRow => BookingOpen(r, x)
  <2>1. BookingOpen(r, b)
      BY <1>1 DEF TxInv, OneWriter, BookingOpen
  <2>. QED
      BY <1>1, <1>6, <2>1, EmptyTransaction
<1>. QED
    BY <1>1, <1>6, <1>7, <1>8, <1>9, WriterStaysInShape

LEMMA MoveBookingInShape ==
    ASSUME TxInv, NEW r \in Req, MoveBooking(r)
    PROVE  TxShape' /\ tx' \in [Req -> Transaction]
<1>. DEFINE b == req[r].booking
            t == IF Exists(b)
                 THEN [NoTx EXCEPT !.sent = 1, !.bookings = Image(r),
                                   !.shared = {req[r].slot}]
                 ELSE [NoTx EXCEPT !.sent = 1]
<1>1. /\ req[r].pc = "resch_write" /\ tx[r].sent = 0
      /\ BookingOpen(r, b) /\ UNCHANGED vars
    BY DEF MoveBooking
<1>2. /\ req[r].slot \in SlotId /\ b \in BookingId
      /\ tx \in [Req -> Transaction] /\ TypeOK
    BY <1>1 DEF TxInv, AnyClientInv, RequestShape, ReschedulePc, TxTypeOK
<1>3. tx[r] = NoTx
    BY <1>1 DEF TxInv, RescheduleWrote
<1>4. Exists(b) => [bookings[b] EXCEPT !.slot = req[r].slot] \in BookingRow
    BY <1>2 DEF TypeOK, Exists, BookingRow
<1>5. /\ Image(r) \in [BookingId -> BookingRow \cup {NoRow}]
      /\ Exists(b) => Image(r) = [NoTx.bookings EXCEPT
                                     ![b] = [bookings[b] EXCEPT !.slot = req[r].slot]]
      /\ ~Exists(b) => Image(r) = NoTx.bookings
      /\ \A c \in BookingId : Image(r)[c] # NoRow => c = b
    BY <1>2, <1>4, EmptyTransaction DEF Image
<1>6. tx' = [tx EXCEPT ![r] = t]
  <2>1. CASE Exists(b)
      BY <1>2, <1>3, <1>5, <2>1 DEF MoveBooking, NoTx
  <2>2. CASE ~Exists(b)
      BY <1>2, <1>3, <2>2 DEF MoveBooking
  <2>. QED
      BY <2>1, <2>2
<1>7. /\ t \in Transaction /\ t.sent = 1 /\ t.slots = NoTx.slots
      /\ t.bookings = Image(r)
  <2>1. CASE Exists(b)
    <3>1. {req[r].slot} \in SUBSET SlotId /\ 1 \in 0..3
        BY <1>2
    <3>2. t = [NoTx EXCEPT !.sent = 1, !.bookings = Image(r), !.shared = {req[r].slot}]
        BY <2>1
    <3>. HIDE DEF t
    <3>. QED
        BY <1>5, <3>1, <3>2, NoTxIsTransaction DEF NoTx, Transaction
  <2>2. CASE ~Exists(b)
      BY <1>2, <1>5, <2>2, NoTxIsTransaction DEF NoTx, Transaction
  <2>. QED
      BY <2>1, <2>2
<1>. HIDE DEF t
<1>8. tx' \in [Req -> Transaction] /\ tx'[r] = t /\ \A q \in Req : q # r => tx'[q] = tx[q]
    BY <1>2, <1>6, <1>7
<1>9. CreateWrote(r)' /\ RescheduleWrote(r)'
    BY <1>1, <1>7, <1>8 DEF CreateWrote, RescheduleWrote, vars, NoTx
<1>10. ImageOf(r)'
  <2>1. Image(r)' = Image(r)
      BY <1>1 DEF Image, Exists, vars, NoTx
  <2>. QED
      BY <1>7, <1>8, <2>1 DEF ImageOf
<1>11. /\ \A s \in SlotId : tx'[r].slots[s] # NoRow => SlotOpen(r, s)
       /\ \A c \in BookingId : tx'[r].bookings[c] # NoRow => BookingOpen(r, c)
    BY <1>1, <1>5, <1>7, <1>8, EmptyTransaction
<1>. QED
    BY <1>1, <1>8, <1>9, <1>10, <1>11, WriterStaysInShape

\* The second and third UPDATE of a reschedule leave its image as it is.
LEMMA UpdateInShape ==
    ASSUME TxInv, NEW r \in Req, req[r].pc = "resch_write", tx[r].sent > 0,
           NEW s \in SlotId, slots[s] # NoRow, NEW row \in SlotRow,
           NEW sent \in 2..3, TxWriteSlot(r, s, row, sent), RescheduleWrote(r)'
    PROVE  TxShape' /\ tx' \in [Req -> Transaction]
<1>1. /\ tx' \in [Req -> Transaction] /\ tx'[r].sent = sent
      /\ tx'[r].slots = [tx[r].slots EXCEPT ![s] = row]
      /\ tx'[r].bookings = tx[r].bookings
      /\ \A q \in Req : q # r => tx'[q] = tx[q]
  <2>1. TxTypeOK /\ sent \in 0..3
      BY DEF TxInv
  <2>. QED
      BY <2>1, TxWriteSlotKeeps
<1>2. UNCHANGED vars /\ SlotOpen(r, s)
    BY DEF TxWriteSlot
<1>3. tx[r].slots \in [SlotId -> SlotRow \cup {NoRow}]
    BY DEF TxInv, TxTypeOK, Transaction
<1>4. ImageOf(r)'
  <2>1. Image(r)' = Image(r)
      BY <1>2 DEF Image, Exists, vars, NoTx
  <2>2. ImageOf(r)
      BY DEF TxInv, ImageCurrent
  <2>. QED
      BY <1>1, <1>2, <2>1, <2>2 DEF ImageOf, vars
<1>5. CreateWrote(r)'
    BY <1>2 DEF CreateWrote, vars
<1>6. \A x \in SlotId : tx'[r].slots[x] # NoRow => SlotOpen(r, x)
  <2>1. \A x \in SlotId : WroteSlot(r, x) => SlotOpen(r, x)
      BY DEF TxInv, OneWriter, SlotOpen
  <2>. QED
      BY <1>1, <1>2, <1>3, <2>1 DEF WroteSlot
<1>7. \A b \in BookingId : tx'[r].bookings[b] # NoRow => BookingOpen(r, b)
    BY <1>1 DEF TxInv, OneWriter, BookingOpen, WroteBooking
<1>. QED
    BY <1>1, <1>2, <1>4, <1>5, <1>6, <1>7, WriterStaysInShape

LEMMA FreeOldSlotInShape ==
    ASSUME TxInv, NEW r \in Req, FreeOldSlot(r)
    PROVE  TxShape' /\ tx' \in [Req -> Transaction]
<1>. DEFINE s == req[r].seen
<1>1. /\ req[r].pc = "resch_write" /\ tx[r].sent = 1 /\ tx[r].sent > 0
      /\ TxWriteSlot(r, s, FreeSlot, 2) /\ UNCHANGED vars
    BY DEF FreeOldSlot, TxWriteSlot
<1>2. s \in SlotId /\ slots[s] # NoRow /\ TxTypeOK
    BY <1>1 DEF TxInv, AnyClientInv, RequestShape, SlotChecked
<1>3. FreeSlot \in SlotRow /\ 2 \in 0..3 /\ 2 \in 2..3
    BY DEF FreeSlot, SlotRow
<1>4. tx[r].slots = NoTx.slots
    BY <1>1 DEF TxInv, RescheduleWrote
<1>5. tx'[r].sent = 2 /\ tx'[r].slots = [NoTx.slots EXCEPT ![s] = FreeSlot]
    BY <1>1, <1>2, <1>3, <1>4, TxWriteSlotKeeps
<1>6. RescheduleWrote(r)'
    BY <1>1, <1>5 DEF RescheduleWrote, vars, NoTx
<1>. QED
    BY <1>1, <1>2, <1>3, <1>6, UpdateInShape

LEMMA BookNewSlotInShape ==
    ASSUME TxInv, NEW r \in Req, BookNewSlot(r)
    PROVE  TxShape' /\ tx' \in [Req -> Transaction]
<1>. DEFINE s == req[r].slot
            row == BookedBy(req[r].booking)
<1>1. /\ req[r].pc = "resch_write" /\ tx[r].sent = 2 /\ tx[r].sent > 0
      /\ TxWriteSlot(r, s, row, 3) /\ UNCHANGED vars
    BY DEF BookNewSlot, TxWriteSlot
<1>2. /\ s \in SlotId /\ slots[s] # NoRow /\ TxTypeOK /\ req[r].booking \in BookingId
      /\ req[r].seen \in SlotId
    BY <1>1 DEF TxInv, AnyClientInv, RequestShape, SlotChecked, ReschedulePc
<1>3. row \in SlotRow /\ 3 \in 0..3 /\ 3 \in 2..3
    BY <1>2 DEF BookedBy, SlotRow
<1>4. tx[r].slots = [NoTx.slots EXCEPT ![req[r].seen] = FreeSlot]
    BY <1>1 DEF TxInv, RescheduleWrote
<1>. HIDE DEF row
<1>5. tx'[r].sent = 3 /\ tx'[r].slots = [tx[r].slots EXCEPT ![s] = row]
    BY <1>1, <1>2, <1>3, TxWriteSlotKeeps
<1>6. tx'[r].slots = [NoTx.slots EXCEPT ![req[r].seen] = FreeSlot, ![s] = row]
    BY <1>4, <1>5
<1>7. RescheduleWrote(r)'
    BY <1>1, <1>5, <1>6 DEF RescheduleWrote, vars, row, NoTx
<1>. QED
    BY <1>1, <1>2, <1>3, <1>7, UpdateInShape

-----------------------------------------------------------------------------
(* Commits, the ends of transactions, and everything else.                 *)

LEMMA EndTxEnds ==
    ASSUME TxInv, NEW r \in Req, EndTx(r)
    PROVE  /\ tx' \in [Req -> Transaction] /\ tx'[r] = NoTx
           /\ \A q \in Req : q # r => tx'[q] = tx[q]
BY NoTxIsTransaction DEF TxInv, TxTypeOK, EndTx

LEMMA CommitCreateInShape ==
    ASSUME TxInv, NEW r \in Req, NEW b \in BookingId, CommitCreate(r, b)
    PROVE  TxShape' /\ tx' \in [Req -> Transaction]
<1>1. /\ CreateInsert(r, b) /\ EndTx(r) /\ WroteBooking(r, b)
    BY CommitCreateMaps DEF CommitCreate
<1>2. BookingOpen(r, b)
    BY <1>1 DEF TxInv, OneWriter, BookingOpen
<1>3. /\ minted' = minted \cup {b} /\ minted' \subseteq BookingId /\ b \notin minted
      /\ \A c \in BookingId : c # b => bookings'[c] = bookings[c]
      /\ \A q \in Req : q # r => req'[q] = req[q]
    BY <1>1 DEF CreateInsert, TxInv, AnyClientInv, TypeOK
<1>. QED
    BY <1>1, <1>2, <1>3, EndTxEnds, OthersStayInShape

LEMMA CommitRescheduleInShape ==
    ASSUME TxInv, NEW r \in Req, CommitReschedule(r)
    PROVE  TxShape' /\ tx' \in [Req -> Transaction]
<1>. DEFINE b == req[r].booking
<1>1. /\ RescheduleWrite(r) /\ EndTx(r) /\ tx[r].sent = 3 /\ req[r].pc = "resch_write"
    BY CommitRescheduleMaps DEF CommitReschedule
<1>2. b \in BookingId /\ req[r].slot \in SlotId /\ TypeOK
    BY <1>1 DEF TxInv, AnyClientInv, RequestShape, ReschedulePc
<1>3. ASSUME Exists(b)
      PROVE  BookingOpen(r, b)
  <2>1. tx[r].bookings = Image(r)
      BY <1>1 DEF TxInv, ImageCurrent, ImageOf
  <2>2. [bookings[b] EXCEPT !.slot = req[r].slot] # NoRow
      BY <1>2, <1>3, BookingsAssumption DEF Exists, BookingRow, TypeOK
  <2>3. WroteBooking(r, b)
      BY <1>2, <1>3, <2>1, <2>2, EmptyTransaction DEF WroteBooking, Image
  <2>. QED
      BY <1>2, <2>3 DEF TxInv, OneWriter, BookingOpen
<1>4. /\ minted' = minted /\ minted' \subseteq BookingId
      /\ \A c \in BookingId : bookings'[c] = bookings[c] \/ (c = b /\ Exists(b))
      /\ \A q \in Req : q # r => req'[q] = req[q]
  <2>1. minted' = minted /\ minted' \subseteq BookingId
      BY <1>1, <1>2 DEF RescheduleWrite, TypeOK
  <2>2. \A q \in Req : q # r => req'[q] = req[q]
      BY <1>1, <1>2 DEF RescheduleWrite, Finish, TypeOK
  <2>3. \A c \in BookingId : bookings'[c] = bookings[c] \/ (c = b /\ Exists(b))
      BY <1>1, <1>2 DEF RescheduleWrite, TypeOK
  <2>. QED
      BY <2>1, <2>2, <2>3
<1>. QED
    BY <1>1, <1>3, <1>4, EndTxEnds, OthersStayInShape

LEMMA GivenUpInShape ==
    ASSUME TxInv, NEW r \in Req, Fail(r), EndTx(r)
    PROVE  TxShape' /\ tx' \in [Req -> Transaction]
<1>1. /\ bookings' = bookings /\ minted' = minted /\ minted' \subseteq BookingId
      /\ \A q \in Req : q # r => req'[q] = req[q]
    BY DEF Fail, Finish, GoTo, TxInv, AnyClientInv, TypeOK
<1>. QED
    BY <1>1, EndTxEnds, OthersStayInShape

\* A request that is in none of its statements of a transaction.
LEMMA AloneInShape ==
    ASSUME TxInv, NEW r \in Req,
           \/ CheckSlot(r) \/ WriteBookingRow(r) \/ FreeSeenSlot(r)
           \/ \E b \in BookingId : Confirm(r, b)
           \/ Unhindered(r)
    PROVE  TxShape' /\ tx' \in [Req -> Transaction]
<1>1. TypeOK /\ minted \subseteq BookingId /\ tx \in [Req -> Transaction]
    BY DEF TxInv, AnyClientInv, TypeOK, TxTypeOK
<1>2. tx' = tx /\ minted' = minted
    BY DEF CheckSlot, CreateCheck, WriteBookingRow, CancelStatus, DeleteRow, FreeSeenSlot,
           CancelFree, DeleteFree, Confirm, ConfirmBooking, Unhindered, CreateLock,
           CreateUnlock, CancelGet, DeleteGet, CreateAttendance, RescheduleGet,
           RescheduleCheck, RescheduleSelect
<1>3. req[r].pc \notin {"insert", "resch_write"}
    BY DEF CheckSlot, CreateCheck, WriteBookingRow, CancelStatus, DeleteRow, FreeSeenSlot,
           CancelFree, DeleteFree, Confirm, ConfirmBooking, Unhindered, CreateLock,
           CreateUnlock, CancelGet, DeleteGet, CreateAttendance, RescheduleGet,
           RescheduleCheck, RescheduleSelect, ClientMay
<1>4. tx[r] = NoTx
    BY <1>3 DEF TxInv, HoldersAtWork, AtWork
<1>5. \A q \in Req : q # r => req'[q] = req[q]
    BY <1>1 DEF CheckSlot, CreateCheck, WriteBookingRow, CancelStatus, DeleteRow,
           FreeSeenSlot, CancelFree, DeleteFree, Confirm, ConfirmBooking, Unhindered,
           CreateLock, CreateUnlock, CancelGet, DeleteGet, CreateAttendance, RescheduleGet,
           RescheduleCheck, RescheduleSelect, GoTo, Finish, Start, TypeOK
<1>6. \A b \in BookingId :
          bookings'[b] = bookings[b] \/ (BookingOpen(r, b) /\ Exists(b))
  <2>1. CASE CheckSlot(r) \/ FreeSeenSlot(r) \/ Unhindered(r)
      BY <2>1 DEF CheckSlot, CreateCheck, FreeSeenSlot, CancelFree, DeleteFree, Unhindered,
           CreateLock, CreateUnlock, CancelGet, DeleteGet, CreateAttendance, RescheduleGet,
           RescheduleCheck, RescheduleSelect
  <2>2. CASE WriteBookingRow(r)
    <3>. DEFINE b == req[r].booking
    <3>1. BookingOpen(r, b)
        BY <2>2 DEF WriteBookingRow
    <3>2. \A c \in BookingId : bookings'[c] = bookings[c] \/ (c = b /\ Exists(b))
        BY <1>1, <2>2 DEF WriteBookingRow, CancelStatus, DeleteRow, UpdateBookingStatus,
                          TypeOK
    <3>. QED
        BY <3>1, <3>2
  <2>3. ASSUME NEW b \in BookingId, Confirm(r, b)
        PROVE  \A c \in BookingId : bookings'[c] = bookings[c]
                                     \/ (BookingOpen(r, c) /\ Exists(c))
      BY <1>1, <2>3 DEF Confirm, ConfirmBooking, UpdateBookingStatus, TypeOK
  <2>. QED
      BY <2>1, <2>2, <2>3
<1>. QED
    BY <1>1, <1>2, <1>4, <1>5, <1>6, OthersStayInShape

LEMMA StutterInShape ==
    ASSUME TxInv, UNCHANGED <<tx, req, bookings, minted>>
    PROVE  TxShape' /\ tx' \in [Req -> Transaction]
<1>1. tx' \in [Req -> Transaction]
    BY DEF TxInv, TxTypeOK
<1>2. OneWriter'
    BY DEF TxInv, OneWriter, WroteSlot, WroteBooking
<1>3. \A r \in Req : (AtWork(r) /\ CreateWrote(r) /\ RescheduleWrote(r) /\ ImageOf(r))'
  <2>1. TAKE r \in Req
  <2>2. AtWork(r) /\ CreateWrote(r) /\ RescheduleWrote(r) /\ ImageOf(r)
      BY DEF TxInv, HoldersAtWork, ImageCurrent
  <2>3. AtWork(r)' /\ RescheduleWrote(r)'
      BY <2>2 DEF AtWork, RescheduleWrote
  <2>4. CreateWrote(r)'
      BY <2>2 DEF CreateWrote
  <2>5. Image(r)' = Image(r)
      BY DEF Image, Exists
  <2>6. ImageOf(r)'
      BY <2>2, <2>5 DEF ImageOf
  <2>. QED
      BY <2>3, <2>4, <2>6
<1>. QED
    BY <1>1, <1>2, <1>3 DEF TxShape, HoldersAtWork, ImageCurrent

LEMMA TxShapeNext ==
    ASSUME TxInv, [TxNext]_txVars
    PROVE  TxShape' /\ tx' \in [Req -> Transaction]
<1>1. CASE UNCHANGED txVars
    BY <1>1, StutterInShape DEF txVars, vars
<1>2. ASSUME NEW r \in Req, Statement(r) \/ Unhindered(r) \/ DeadlockAbort(r) \/ TxFail(r)
      PROVE  TxShape' /\ tx' \in [Req -> Transaction]
  <2>1. ASSUME NEW b \in BookingId,
               InsertBooking(r, b) \/ BookSlot(r, b) \/ CommitCreate(r, b)
        PROVE  TxShape' /\ tx' \in [Req -> Transaction]
      BY <2>1, InsertInShape, BookSlotInShape, CommitCreateInShape
  <2>2. CASE MoveBooking(r) \/ FreeOldSlot(r) \/ BookNewSlot(r) \/ CommitReschedule(r)
      BY <2>2, MoveBookingInShape, FreeOldSlotInShape, BookNewSlotInShape,
         CommitRescheduleInShape
  <2>3. CASE \/ CheckSlot(r) \/ WriteBookingRow(r) \/ FreeSeenSlot(r)
             \/ \E b \in BookingId : Confirm(r, b)
             \/ Unhindered(r)
      BY <2>3, AloneInShape
  <2>4. CASE DeadlockAbort(r)
    <3>1. Fail(r) /\ EndTx(r)
        BY <2>4, DeadlockMaps DEF DeadlockAbort, GiveUp
    <3>. QED
        BY <3>1, GivenUpInShape
  <2>5. CASE TxFail(r)
      BY <2>5, GivenUpInShape DEF TxFail
  <2>. QED
      BY <1>2, <2>1, <2>2, <2>3, <2>4, <2>5 DEF Statement
<1>3. CASE World
    BY <1>3, StutterInShape DEF World, LockExpire, SlotsGenerated
<1>. QED
    BY <1>1, <1>2, <1>3 DEF TxNext

LEMMA TxInvInit == TxInit => TxInv
<1>. SUFFICES ASSUME TxInit
              PROVE  TxInv
    OBVIOUS
<1>1. AnyClientInv /\ \A r \in Req : tx[r] = NoTx
    BY AnyClientInit DEF TxInit
<1>2. TxTypeOK
    BY <1>1, NoTxIsTransaction DEF TxInit, TxTypeOK, AnyClientInv
<1>3. OneWriter
    BY <1>1, EmptyTransaction DEF OneWriter, WroteSlot, WroteBooking
<1>. QED
    BY <1>1, <1>2, <1>3, NoTxShape DEF TxInv, HoldersAtWork, ImageCurrent

LEMMA TxInvNext == TxInv /\ [TxNext]_txVars => TxInv'
<1>. SUFFICES ASSUME TxInv, [TxNext]_txVars
              PROVE  TxInv'
    OBVIOUS
<1>1. AnyClientInv'
    BY TxStepMaps, AnyClientNext DEF TxInv
<1>2. TxShape' /\ tx' \in [Req -> Transaction]
    BY TxShapeNext
<1>. QED
    BY <1>1, <1>2 DEF TxInv, TxShape, TxTypeOK, AnyClientInv

-----------------------------------------------------------------------------
(* The theorems.                                                           *)

\* For any clients and any failures, deadlocks included: transactions hold
\* apart the rows they write, and what they have written is what their
\* statements so far say.
THEOREM TransactionsInShape == TxSpec => []TxInv
BY TxInvInit, TxInvNext, PTL DEF TxSpec

\* Each part of it that a run checks by itself: the types of the module, that
\* a commit of RescheduleBooking loses no write to its booking, and that
\* nobody keeps a row locked but a request at work in its transaction.
THEOREM TxTypeCorrect == TxSpec => []TxTypeOK
<1>1. TxInv => TxTypeOK
    BY DEF TxInv
<1>. QED
    BY <1>1, TransactionsInShape, PTL

THEOREM CommitsLoseNothing == TxSpec => []ImageCurrent
<1>1. TxInv => ImageCurrent
    BY DEF TxInv
<1>. QED
    BY <1>1, TransactionsInShape, PTL

THEOREM NoAbandonedLocks == TxSpec => []HoldersAtWork
<1>1. TxInv => HoldersAtWork
    BY DEF TxInv
<1>. QED
    BY <1>1, TransactionsInShape, PTL

\* The transactions of CreateBooking and RescheduleBooking are atomic: every
\* behaviour of the statements is one of Bookings, where each is one step.
THEOREM TransactionsAtomic == TxSpec => ImplementsBookings
<1>1. TxInit => Init
    BY DEF TxInit
<1>2. TxInv /\ [TxNext]_txVars => [Next]_vars
    BY TxStepMaps
<1>. QED
    BY <1>1, <1>2, TransactionsInShape, PTL DEF TxSpec, ImplementsBookings, Spec

\* And so the guarantees of Bookings hold of the statements.
THEOREM TransactionsKeepForeignKeys ==
    TxSpec => [](BookingSlotExists /\ AttendanceHasBooking)
BY TransactionsAtomic, ForeignKeysHold, PTL DEF ImplementsBookings

THEOREM TransactionsBookOnce ==
    CarefulService => (TxSpec => [](NoDoubleBooking /\ LiveHoldsSlot /\ OneSlotEach))
<1>. SUFFICES ASSUME CarefulService
              PROVE  TxSpec => [](NoDoubleBooking /\ LiveHoldsSlot /\ OneSlotEach)
    OBVIOUS
<1>1. Spec => []NoDoubleBooking
    BY NoSlotBookedTwice
<1>2. Spec => []LiveHoldsSlot
    BY LiveBookingsHoldSlots
<1>3. Spec => []OneSlotEach
    BY MovedBookingsLeaveSlots
<1>. QED
    BY TransactionsAtomic, <1>1, <1>2, <1>3, PTL DEF ImplementsBookings

=============================================================================
