----------------------- MODULE BookingsUnmovedProofs -----------------------
(***************************************************************************)
(* Theorems about Bookings where clients are not careful at all, but the   *)
(* endpoints that take a slot from a live booking are out of use: several  *)
(* requests work on one booking at the same time, act on bookings that are *)
(* gone, and are cut off between any two statements.                       *)
(***************************************************************************)
EXTENDS BookingsProofs

\* Nobody cancels or reschedules, and no create outlives the TTL of its lock.
NothingMoves == Prompt /\ Ops \cap {"cancel", "reschedule"} = {}

-----------------------------------------------------------------------------
(* The inductive invariant.                                                *)

MoverPc == {"cancel", "cancel_free"} \cup ReschedulePc

\* No request is at work in an endpoint that is out of use.
NoMovers == \A r \in Req : req[r].pc \notin MoverPc

\* Hence a booking lives until its row is deleted.
NoneCancelled == \A b \in BookingId : Exists(b) => Live(b)

\* A slot that a create is about to write is still free.
InsertFree == \A r \in Req : req[r].pc = "insert" => IsFree(req[r].slot)

\* What DeleteBooking read at its start is still the slot of the booking, if
\* nobody else has deleted the booking meanwhile.
DeleteKnows ==
    \A r \in Req : req[r].pc = "delete" /\ Exists(req[r].booking) =>
        bookings[req[r].booking].slot = req[r].seen

\* Of several deletes of one booking only one gets to free the slot, and until
\* then nobody else gets the slot.
FreesOwn ==
    \A r \in Req : req[r].pc = "delete_free" =>
        /\ req[r].booking \in minted /\ ~Exists(req[r].booking)
        /\ slots[req[r].seen] = BookedBy(req[r].booking)

FreesAlone ==
    \A r1, r2 \in Req :
        /\ req[r1].pc = "delete_free" /\ req[r2].pc = "delete_free"
        /\ req[r1].booking = req[r2].booking
        => r1 = r2

UnmovedInv ==
    /\ BaseInv /\ RowsMinted /\ BusyMinted /\ SlotsMinted /\ LockExclusion
    /\ NoMovers /\ NoneCancelled /\ InsertFree
    /\ DeleteKnows /\ FreesOwn /\ FreesAlone
    /\ LiveHoldsSlot /\ OneSlotEach

UnmovedStep == NothingMoves /\ UnmovedInv /\ [Next]_vars

LEMMA UnmovedStepGives ==
    ASSUME UnmovedStep
    PROVE  /\ Prompt /\ Ops \cap {"cancel", "reschedule"} = {} /\ [Next]_vars
           /\ BaseInv /\ BaseInv' /\ TypeOK /\ RequestShape
           /\ RowsMinted /\ RowsMinted' /\ BusyMinted /\ SlotsMinted
           /\ LockExclusion /\ LockExclusion'
           /\ NoMovers /\ NoneCancelled /\ InsertFree
           /\ DeleteKnows /\ FreesOwn /\ FreesAlone
           /\ LiveHoldsSlot /\ OneSlotEach
BY BaseNext, RowsMintedNext, LockExclusionNext
DEF UnmovedStep, NothingMoves, UnmovedInv, BaseInv

\* The statements of the endpoints that are out of use are never sent.
LEMMA MoversStop ==
    ASSUME UnmovedStep, NEW r \in Req
    PROVE  /\ ~CancelStatus(r) /\ ~CancelFree(r)
           /\ ~RescheduleCheck(r) /\ ~RescheduleSelect(r) /\ ~RescheduleWrite(r)
           /\ \A b \in BookingId :
                 ~CancelGet(r, b) /\ \A s \in SlotId : ~RescheduleGet(r, b, s)
<1>1. req[r].pc \notin MoverPc /\ "cancel" \notin Ops /\ "reschedule" \notin Ops
    BY UnmovedStepGives DEF NoMovers
<1>. QED
    BY <1>1
    DEF MoverPc, ReschedulePc, CancelStatus, CancelFree, RescheduleCheck,
        RescheduleSelect, RescheduleWrite, CancelGet, RescheduleGet, ClientMay

\* What is left that can happen to a slot ...
LEMMA UnmovedSlot ==
    ASSUME UnmovedStep, NEW s \in SlotId
    PROVE  \/ slots'[s] = slots[s]
           \/ slots[s] = NoRow /\ slots'[s] = FreeSlot
           \/ \E r \in Req, b \in BookingId : /\ CreateInsert(r, b) /\ req[r].slot = s
                                            /\ slots'[s] = BookedBy(b)
           \/ \E r \in Req : DeleteFree(r) /\ req[r].seen = s /\ slots'[s] = FreeSlot
BY UnmovedStepGives, MoversStop, SlotRowMoves

\* ... and to a booking: a new row, a confirmation, or the end of the row.
LEMMA UnmovedBooking ==
    ASSUME UnmovedStep, NEW b \in BookingId
    PROVE  \/ bookings'[b] = bookings[b]
           \/ \E r \in Req : /\ CreateInsert(r, b) /\ ~Exists(b)
                             /\ req[r].slot \in SlotId /\ IsFree(req[r].slot)
                             /\ bookings'[b] = NewBooking(req[r].slot)
                             /\ NewBooking(req[r].slot) # NoRow
           \/ /\ Exists(b) /\ Live(b)' /\ bookings'[b].slot = bookings[b].slot
              /\ \E r \in Req : ConfirmBooking(r, b)
           \/ \E r \in Req : /\ DeleteRow(r) /\ req[r].booking = b
                             /\ Exists(b) /\ ~Exists(b)'
<1>1. /\ BaseInv /\ TypeOK /\ [Next]_vars /\ RequestShape
      /\ RowsMinted /\ InsertFree
    BY UnmovedStepGives
<1>2. ASSUME NEW r \in Req, CreateInsert(r, b)
      PROVE  /\ ~Exists(b) /\ req[r].slot \in SlotId /\ IsFree(req[r].slot)
             /\ bookings'[b] = NewBooking(req[r].slot)
             /\ NewBooking(req[r].slot) # NoRow
    <2>1. req[r].slot \in SlotId /\ IsFree(req[r].slot) /\ ~Exists(b)
        BY <1>1, <1>2 DEF CreateInsert, RequestShape, CreatePc, InsertFree, RowsMinted
    <2>2. NewBooking(req[r].slot) \in BookingRow
        BY <2>1, BookingsAssumption DEF NewBooking, BookingRow
    <2>. QED
        BY <1>1, <1>2, <2>1, <2>2, BookingsAssumption DEF CreateInsert, TypeOK
<1>3. ASSUME NEW r \in Req, ConfirmBooking(r, b)
      PROVE  Exists(b) /\ Live(b)' /\ bookings'[b].slot = bookings[b].slot
    BY <1>1, <1>3, StatusKeepsRow DEF ConfirmBooking, Live, Exists
<1>4. ASSUME NEW r \in Req, DeleteRow(r), req[r].booking = b, Exists(b)
      PROVE  bookings'[b] = bookings[b] \/ ~Exists(b)'
    BY <1>1, <1>4 DEF DeleteRow, TypeOK, Exists
<1>. QED
    BY <1>1, <1>2, <1>3, <1>4, MoversStop, BookingRowMoves

-----------------------------------------------------------------------------
(* Every part of the invariant survives a step.                            *)

LEMMA NoMoversNext == UnmovedStep => NoMovers'
<1>. SUFFICES ASSUME UnmovedStep, NEW q \in Req, req'[q].pc \in MoverPc
              PROVE  FALSE
    BY DEF NoMovers
<1>1. BaseInv /\ TypeOK /\ [Next]_vars /\ NoMovers
    BY UnmovedStepGives
<1>2. req'[q] # req[q]
    BY <1>1 DEF NoMovers
<1>3. CASE req'[q].pc \in ReschedulePc
    <2>1. InReschedule(q)'
        BY <1>3 DEF InReschedule
    <2>. QED
        BY <1>1, <1>2, <2>1, RescheduleMoves, MoversStop
<1>4. CASE req'[q].pc \in {"cancel", "cancel_free"}
    <2>1. req'[q].pc \in ReleasePc
        BY <1>4 DEF ReleasePc
    <2>2. ASSUME NEW b \in BookingId, DeleteGet(q, b)
          PROVE  FALSE
        BY <1>1, <1>4, <2>2 DEF DeleteGet, Start, TypeOK
    <2>3. ASSUME DeleteRow(q)
          PROVE  FALSE
        BY <1>1, <1>4, <2>3, GoToKeeps, FinishKeeps DEF DeleteRow, TypeOK, Pc, ReleasePc
    <2>. QED
        BY <1>1, <1>2, <2>1, <2>2, <2>3, ReleaseMoves, MoversStop
<1>. QED
    BY <1>3, <1>4 DEF MoverPc

LEMMA NoneCancelledNext == UnmovedStep => NoneCancelled'
<1>. SUFFICES ASSUME UnmovedStep, NEW b \in BookingId, Exists(b)'
              PROVE  Live(b)'
    BY DEF NoneCancelled
<1>1. CASE bookings'[b] = bookings[b]
    BY <1>1, UnmovedStepGives DEF NoneCancelled, Live, Exists
<1>2. ASSUME NEW r \in Req, bookings'[b] = NewBooking(req[r].slot)
      PROVE  Live(b)'
    BY <1>2 DEF NewBooking, Live
<1>. QED
    BY <1>1, <1>2, UnmovedBooking

LEMMA UnmovedSlotsMinted == UnmovedStep => SlotsMinted'
<1>. SUFFICES ASSUME UnmovedStep, NEW s \in SlotId, NEW b \in BookingId,
                     slots'[s] = BookedBy(b)
              PROVE  b \in minted'
    BY DEF SlotsMinted, BookedBy
<1>1. CASE slots'[s] = slots[s]
    BY <1>1, UnmovedStepGives, MintedGrows DEF SlotsMinted
<1>2. ASSUME NEW r \in Req, NEW x \in BookingId, CreateInsert(r, x),
             slots'[s] = BookedBy(x)
      PROVE  b \in minted'
    BY <1>2, BookedByInjective DEF CreateInsert
<1>. QED
    BY <1>1, <1>2, UnmovedSlot, BookedIsNotFree

\* From the check to the write nobody else books the slot: whoever could has to
\* hold the same lock.
LEMMA InsertFreeNext == UnmovedStep => InsertFree'
<1>. SUFFICES ASSUME UnmovedStep, NEW q \in Req, req'[q].pc = "insert"
              PROVE  /\ slots'[req'[q].slot] # NoRow
                     /\ slots'[req'[q].slot].status = "free"
    BY DEF InsertFree, IsFree
<1>1. /\ BaseInv /\ TypeOK /\ [Next]_vars /\ RequestShape
      /\ LockExclusion /\ InsertFree
    BY UnmovedStepGives
<1>2. CASE CreateCheck(q)
    <2>1. CASE IsFree(req[q].slot)
        BY <1>1, <1>2, <2>1, GoToKeeps DEF CreateCheck, TypeOK, Pc, CreatePc, IsFree
    <2>2. CASE ~IsFree(req[q].slot)
        BY <1>1, <1>2, <2>2, GoToKeeps DEF CreateCheck, TypeOK, Pc, CreatePc
    <2>. QED
        BY <2>1, <2>2
<1>3. CASE req'[q] = req[q]
    <2>. DEFINE s == req[q].slot
    <2>1. req[q].pc = "insert" /\ s \in SlotId /\ IsFree(s)
        BY <1>1, <1>3 DEF InsertFree, RequestShape, CreatePc
    <2>2. ASSUME NEW r \in Req, NEW b \in BookingId, CreateInsert(r, b), req[r].slot = s
          PROVE  FALSE
        <3>1. r = q
            BY <1>1, <2>1, <2>2 DEF CreateInsert, LockExclusion, InCreate, CreatePc
        <3>2. req'[q].pc = "unlock"
            BY <1>1, <2>2, <3>1 DEF CreateInsert, TypeOK, Request
        <3>. QED
            BY <3>2
    <2>3. slots'[s] = slots[s] \/ slots'[s] = FreeSlot
        BY <2>1, <2>2, UnmovedSlot
    <2>4. FreeSlot # NoRow /\ FreeSlot.status = "free"
        BY BookingsAssumption DEF FreeSlot, SlotRow
    <2>. QED
        BY <1>3, <2>1, <2>3, <2>4 DEF IsFree
<1>. QED
    BY <1>1, <1>2, <1>3, WriterHasChecked, MoversStop

\* A row that was deleted never comes back, and a row that stays keeps its slot.
LEMMA RowKeepsSlot ==
    ASSUME UnmovedStep, NEW b \in BookingId, b \in minted, bookings'[b] # NoRow
    PROVE  Exists(b) /\ bookings'[b].slot = bookings[b].slot
<1>1. ASSUME NEW r \in Req, CreateInsert(r, b)
      PROVE  FALSE
    BY <1>1 DEF CreateInsert
<1>. QED
    BY <1>1, UnmovedBooking DEF Exists

LEMMA DeleteKnowsNext == UnmovedStep => DeleteKnows'
<1>. SUFFICES ASSUME UnmovedStep, NEW q \in Req, req'[q].pc = "delete",
                     bookings'[req'[q].booking] # NoRow
              PROVE  bookings'[req'[q].booking].slot = req'[q].seen
    BY DEF DeleteKnows, Exists
<1>1. /\ BaseInv /\ TypeOK /\ [Next]_vars /\ RequestShape
      /\ BusyMinted /\ DeleteKnows
    BY UnmovedStepGives
<1>2. CASE req'[q] = req[q]
    <2>1. req[q].booking \in BookingId /\ req[q].booking \in minted
        BY <1>1, <1>2, BookingsAssumption DEF RequestShape, ReleasePc, BusyMinted
    <2>2. /\ Exists(req[q].booking)
          /\ bookings'[req[q].booking].slot = bookings[req[q].booking].slot
        BY <1>2, <2>1, RowKeepsSlot
    <2>. QED
        BY <1>1, <1>2, <2>2 DEF DeleteKnows
<1>3. ASSUME NEW b \in BookingId, DeleteGet(q, b)
      PROVE  bookings'[req'[q].booking].slot = req'[q].seen
    BY <1>1, <1>3 DEF DeleteGet, Start, TypeOK
<1>4. ASSUME DeleteRow(q)
      PROVE  FALSE
    BY <1>1, <1>4, GoToKeeps, FinishKeeps DEF DeleteRow, TypeOK, Pc, ReleasePc
<1>5. req'[q].pc \in ReleasePc
    BY DEF ReleasePc
<1>. QED
    BY <1>1, <1>2, <1>3, <1>4, <1>5, ReleaseMoves, MoversStop

\* Only the delete that took the row away goes on to free the slot.
LEMMA FreeMoves ==
    ASSUME UnmovedStep, NEW q \in Req, req'[q].pc = "delete_free"
    PROVE  \/ req'[q] = req[q]
           \/ /\ DeleteRow(q)
              /\ req[q].booking \in BookingId
              /\ Exists(req[q].booking) /\ bookings'[req[q].booking] = NoRow
              /\ req'[q].booking = req[q].booking /\ req'[q].seen = req[q].seen
<1>1. BaseInv /\ TypeOK /\ [Next]_vars /\ RequestShape
    BY UnmovedStepGives
<1>2. ASSUME DeleteRow(q)
      PROVE  /\ req[q].booking \in BookingId
             /\ Exists(req[q].booking) /\ bookings'[req[q].booking] = NoRow
             /\ req'[q].booking = req[q].booking /\ req'[q].seen = req[q].seen
    <2>1. req[q].booking \in BookingId
        BY <1>1, <1>2 DEF DeleteRow, RequestShape, ReleasePc
    <2>2. ~Finish(q)
        BY <1>1, FinishKeeps DEF TypeOK
    <2>3. /\ Exists(req[q].booking)
          /\ bookings' = [bookings EXCEPT ![req[q].booking] = NoRow]
          /\ GoTo(q, "delete_free")
        BY <1>2, <2>2 DEF DeleteRow
    <2>4. bookings'[req[q].booking] = NoRow
        BY <1>1, <2>1, <2>3 DEF TypeOK
    <2>. QED
        BY <1>1, <2>1, <2>3, <2>4, GoToKeeps DEF TypeOK, Pc, ReleasePc
<1>3. ASSUME NEW b \in BookingId, DeleteGet(q, b)
      PROVE  FALSE
    BY <1>1, <1>3 DEF DeleteGet, Start, TypeOK
<1>4. req'[q].pc \in ReleasePc
    BY DEF ReleasePc
<1>. QED
    BY <1>1, <1>2, <1>3, <1>4, ReleaseMoves, MoversStop

LEMMA FreesOwnNext == UnmovedStep => FreesOwn'
<1>. SUFFICES ASSUME UnmovedStep, NEW q \in Req, req'[q].pc = "delete_free"
              PROVE  /\ req'[q].booking \in minted'
                     /\ bookings'[req'[q].booking] = NoRow
                     /\ slots'[req'[q].seen] = BookedBy(req'[q].booking)
    BY DEF FreesOwn, BookedBy, Exists
<1>1. /\ BaseInv /\ TypeOK /\ [Next]_vars /\ RequestShape
      /\ RowsMinted /\ LiveHoldsSlot /\ NoneCancelled /\ InsertFree
      /\ DeleteKnows /\ FreesOwn /\ FreesAlone
      /\ minted \subseteq minted'
    BY UnmovedStepGives, MintedGrows
<1>. DEFINE b == req[q].booking
            s == req[q].seen
<1>2. CASE req'[q] = req[q]
    <2>1. /\ b \in BookingId /\ b \in minted /\ ~Exists(b)
          /\ s \in SlotId /\ slots[s] = BookedBy(b)
        BY <1>1, <1>2 DEF FreesOwn, RequestShape, ReleasePc
    <2>2. bookings'[b] = NoRow
        BY <2>1, RowKeepsSlot
    <2>3. slots[s] # NoRow /\ ~IsFree(s)
        BY <2>1, BookedIsNotFree DEF IsFree
    <2>4. ASSUME NEW r \in Req, NEW x \in BookingId, CreateInsert(r, x)
          PROVE  req[r].slot # s
        BY <1>1, <2>3, <2>4 DEF CreateInsert, InsertFree
    <2>5. ASSUME NEW r \in Req, DeleteFree(r)
          PROVE  req[r].seen # s
        <3>1. req[r].pc = "delete_free" /\ slots[req[r].seen] = BookedBy(req[r].booking)
            BY <1>1, <2>5 DEF DeleteFree, FreesOwn
        <3>2. r # q
            BY <1>1, <2>5, FinishKeeps DEF DeleteFree, TypeOK
        <3>3. req[r].booking # b
            BY <1>1, <1>2, <3>1, <3>2 DEF FreesAlone
        <3>. QED
            BY <2>1, <3>1, <3>3, BookedByInjective
    <2>6. slots'[s] = BookedBy(b)
        BY <2>1, <2>3, <2>4, <2>5, UnmovedSlot
    <2>. QED
        BY <1>1, <1>2, <2>1, <2>2, <2>6
<1>3. CASE /\ DeleteRow(q)
           /\ b \in BookingId /\ Exists(b) /\ bookings'[b] = NoRow
           /\ req'[q].booking = b /\ req'[q].seen = s
    <2>1. bookings[b].slot = s
        BY <1>1, <1>3 DEF DeleteRow, DeleteKnows
    <2>2. slots[s] = BookedBy(b) /\ b \in minted
        BY <1>1, <1>3, <2>1 DEF LiveHoldsSlot, RowsMinted, NoneCancelled
    <2>3. slots' = slots /\ minted' = minted
        BY <1>3 DEF DeleteRow
    <2>. QED
        BY <1>3, <2>2, <2>3
<1>. QED
    BY <1>2, <1>3, FreeMoves

LEMMA FreesAloneNext == UnmovedStep => FreesAlone'
<1>. SUFFICES ASSUME UnmovedStep, NEW p \in Req, NEW q \in Req, p # q,
                     req'[p].pc = "delete_free", req'[q].pc = "delete_free",
                     req'[p].booking = req'[q].booking
              PROVE  FALSE
    BY DEF FreesAlone
<1>1. /\ BaseInv /\ TypeOK /\ [Next]_vars /\ FreesOwn /\ FreesAlone
    BY UnmovedStepGives
<1>2. CASE req'[p] = req[p] /\ req'[q] = req[q]
    BY <1>1, <1>2 DEF FreesAlone
<1>3. ASSUME NEW x \in Req, NEW y \in Req, x # y, DeleteRow(x),
             Exists(req[x].booking), req'[x].booking = req[x].booking,
             req'[y].pc = "delete_free", req'[x].booking = req'[y].booking
      PROVE  FALSE
    <2>1. req'[y] = req[y]
        BY <1>1, <1>3, OthersWait DEF Proceed
    <2>. QED
        BY <1>1, <1>3, <2>1 DEF FreesOwn
<1>. QED
    BY <1>2, <1>3, FreeMoves

\* A booking keeps its slot: a create writes a slot nobody holds, and the delete
\* that frees one has taken its booking away before.
LEMMA UnmovedHoldsSlot == UnmovedStep => LiveHoldsSlot'
<1>. SUFFICES ASSUME UnmovedStep, NEW b \in BookingId, Live(b)'
              PROVE  slots'[bookings'[b].slot] = BookedBy(b)
    BY DEF LiveHoldsSlot, BookedBy
<1>1. /\ BaseInv /\ TypeOK /\ [Next]_vars
      /\ InsertFree /\ FreesOwn /\ LiveHoldsSlot /\ NoneCancelled
    BY UnmovedStepGives
<1>2. CASE Exists(b) /\ bookings'[b].slot = bookings[b].slot
    <2>. DEFINE s == bookings[b].slot
    <2>1. s \in SlotId /\ slots[s] = BookedBy(b)
        BY <1>1, <1>2 DEF NoneCancelled, Exists, TypeOK, BookingRow, LiveHoldsSlot
    <2>2. slots[s] # NoRow /\ ~IsFree(s)
        BY <2>1, BookedIsNotFree DEF IsFree
    <2>3. ASSUME NEW r \in Req, NEW x \in BookingId, CreateInsert(r, x)
          PROVE  req[r].slot # s
        BY <1>1, <2>2, <2>3 DEF CreateInsert, InsertFree
    <2>4. ASSUME NEW r \in Req, DeleteFree(r)
          PROVE  req[r].seen # s
        <3>1. /\ ~Exists(req[r].booking)
              /\ slots[req[r].seen] = BookedBy(req[r].booking)
            BY <1>1, <2>4 DEF DeleteFree, FreesOwn
        <3>. QED
            BY <1>2, <2>1, <3>1, BookedByInjective
    <2>. QED
        BY <1>2, <2>1, <2>2, <2>3, <2>4, UnmovedSlot
<1>3. ASSUME NEW r \in Req, CreateInsert(r, b), req[r].slot \in SlotId,
             IsFree(req[r].slot), bookings'[b] = NewBooking(req[r].slot)
      PROVE  slots'[bookings'[b].slot] = BookedBy(b)
    <2>1. bookings'[b].slot = req[r].slot /\ slots[req[r].slot] # NoRow
        BY <1>3 DEF NewBooking, IsFree
    <2>. QED
        BY <1>1, <1>3, <2>1, BookedIsNotFree, WriteSlotKeeps DEF CreateInsert, TypeOK
<1>4. bookings'[b] = bookings[b] => Exists(b)
    BY DEF Live, Exists
<1>. QED
    BY <1>2, <1>3, <1>4, UnmovedBooking DEF Live

LEMMA UnmovedOneSlot == UnmovedStep => OneSlotEach'
<1>. SUFFICES ASSUME UnmovedStep, NEW s \in SlotId, NEW b \in BookingId,
                     slots'[s] = BookedBy(b), bookings'[b] # NoRow
              PROVE  bookings'[b].slot = s
    BY DEF OneSlotEach, BookedBy, Live, Exists
<1>1. TypeOK /\ OneSlotEach /\ SlotsMinted /\ NoneCancelled
    BY UnmovedStepGives
<1>2. CASE slots[s] = BookedBy(b)
    <2>1. b \in minted
        BY <1>1, <1>2 DEF SlotsMinted
    <2>2. Exists(b) /\ bookings'[b].slot = bookings[b].slot
        BY <2>1, RowKeepsSlot
    <2>. QED
        BY <1>1, <1>2, <2>2 DEF OneSlotEach, NoneCancelled
<1>3. ASSUME NEW r \in Req, NEW x \in BookingId, CreateInsert(r, x), req[r].slot = s,
             slots'[s] = BookedBy(x)
      PROVE  bookings'[b].slot = s
    <2>1. x = b
        BY <1>3, BookedByInjective
    <2>. QED
        BY <1>1, <1>3, <2>1 DEF CreateInsert, TypeOK, NewBooking
<1>. QED
    BY <1>2, <1>3, UnmovedSlot, BookedIsNotFree

-----------------------------------------------------------------------------
(* The theorems.                                                           *)

LEMMA UnmovedInit == Init => UnmovedInv
<1>. SUFFICES ASSUME Init
              PROVE  UnmovedInv
    OBVIOUS
<1>1. BaseInv
    BY BaseInit
<1>2. /\ LockExclusion /\ NoMovers /\ InsertFree /\ DeleteKnows /\ FreesOwn
      /\ FreesAlone /\ BusyMinted
    BY DEF Init, Idle, LockExclusion, NoMovers, MoverPc, ReschedulePc, InsertFree,
       DeleteKnows, FreesOwn, FreesAlone, BusyMinted, InCreate, CreatePc
<1>3. RowsMinted /\ NoneCancelled /\ LiveHoldsSlot
    BY DEF Init, RowsMinted, NoneCancelled, LiveHoldsSlot, Live, Exists
<1>4. SlotsMinted /\ OneSlotEach
    BY BookedIsNotFree DEF Init, SlotsMinted, OneSlotEach
<1>. QED
    BY <1>1, <1>2, <1>3, <1>4 DEF UnmovedInv

LEMMA UnmovedNext == NothingMoves /\ UnmovedInv /\ [Next]_vars => UnmovedInv'
<1>. SUFFICES ASSUME UnmovedStep
              PROVE  UnmovedInv'
    BY DEF UnmovedStep
<1>1. BaseInv' /\ RowsMinted' /\ LockExclusion'
    BY UnmovedStepGives
<1>2. BusyMinted'
    BY UnmovedStepGives, BusyMintedNext
<1>. QED
    BY <1>1, <1>2, UnmovedSlotsMinted, NoMoversNext, NoneCancelledNext, InsertFreeNext,
       DeleteKnowsNext, FreesOwnNext, FreesAloneNext, UnmovedHoldsSlot, UnmovedOneSlot
    DEF UnmovedInv

THEOREM UnmovedHolds == NothingMoves => (Spec => []UnmovedInv)
<1>. SUFFICES ASSUME NothingMoves
              PROVE  Spec => []UnmovedInv
    OBVIOUS
<1>1. UnmovedInv /\ [Next]_vars => UnmovedInv'
    BY UnmovedNext
<1>. QED
    BY UnmovedInit, <1>1, PTL DEF Spec

\* Whoever the clients are, as long as nobody cancels or reschedules and no
\* create outlives its lock, no two live bookings share a slot and every live
\* booking has its slot in the table: creates, confirmations, deletions (several
\* of one booking at once) and attendances interleave in any way, and any of
\* them is cut off between any two statements.
THEOREM UnmovedNeverDoubleBooked ==
    NothingMoves => (Spec => [](NoDoubleBooking /\ LiveHoldsSlot))
<1>1. UnmovedInv => NoDoubleBooking /\ LiveHoldsSlot
    BY BookedByInjective DEF UnmovedInv, LiveHoldsSlot, NoDoubleBooking
<1>. QED
    BY <1>1, UnmovedHolds, PTL

-----------------------------------------------------------------------------
(* The refinement.                                                         *)

LEMMA UnmovedLedgerNext == UnmovedStep => [Ledger!Next]_(Ledger!ledgerVars)
<1>. SUFFICES ASSUME UnmovedStep
              PROVE  [Ledger!Next]_(Ledger!ledgerVars)
    OBVIOUS
<1>. USE DEF Ledger!ledgerVars
<1>1. /\ BaseInv /\ TypeOK /\ [Next]_vars /\ LiveHoldsSlot /\ NoneCancelled
      /\ NoneCancelled'
    BY UnmovedStepGives, NoneCancelledNext
<1>2. ASSUME NEW r \in Req, NEW b \in BookingId, CreateInsert(r, b)
      PROVE  Ledger!Next
    <2>. DEFINE s == req[r].slot
    <2>1. /\ s \in SlotId /\ IsFree(s)
          /\ b \notin minted /\ minted' = minted \cup {b}
          /\ \A x \in BookingId : x # b => bookings'[x] = bookings[x]
          /\ bookings'[b] = NewBooking(s)
        BY <1>1, <1>2, UnmovedStepGives
        DEF CreateInsert, TypeOK, RequestShape, CreatePc, InsertFree
    <2>2. NewBooking(s) \in BookingRow /\ NewBooking(s).slot = s
                                       /\ NewBooking(s).status = "pending"
        BY <2>1, BookingsAssumption DEF NewBooking, BookingRow
    <2>. HIDE DEF s
    <2>3. Held' = [Held EXCEPT ![b] = s]
        BY <2>1, <2>2, BookingsAssumption DEF Held, Live, Exists
    <2>4. Ledger!Unheld(s)
        BY <1>1, <2>1, FreeIsUnheld
    <2>. QED
        BY <2>1, <2>3, <2>4 DEF Ledger!Book, Ledger!Next
<1>3. ASSUME NEW r \in Req, DeleteRow(r)
      PROVE  [Ledger!Next]_(Ledger!ledgerVars)
    <2>. DEFINE b == req[r].booking
    <2>1. CASE Exists(b) /\ bookings' = [bookings EXCEPT ![b] = NoRow]
        <3>1. b \in BookingId /\ Live(b) /\ bookings[b] \in BookingRow
            BY <1>1, <1>3, <2>1
            DEF DeleteRow, BaseInv, RequestShape, ReleasePc, NoneCancelled, TypeOK, Exists
        <3>2. /\ bookings'[b] = NoRow /\ minted' = minted
              /\ \A x \in BookingId : x # b => bookings'[x] = bookings[x]
            BY <1>1, <1>3, <2>1, <3>1 DEF DeleteRow, TypeOK
        <3>. HIDE DEF b
        <3>3. Held[b] # NoSlot
            BY <3>1, BookingsAssumption DEF Held, BookingRow
        <3>4. Held' = [Held EXCEPT ![b] = NoSlot]
            BY <3>2 DEF Held, Live, Exists
        <3>. QED
            BY <3>1, <3>2, <3>3, <3>4 DEF Ledger!Release, Ledger!Next
    <2>2. CASE UNCHANGED bookings
        BY <1>3, <2>2 DEF DeleteRow, Held, Live, Exists
    <2>. QED
        BY <1>3, <2>1, <2>2 DEF DeleteRow
<1>4. ASSUME NEW r \in Req, NEW b \in BookingId, ConfirmBooking(r, b)
      PROVE  UNCHANGED (Ledger!ledgerVars)
    <2>1. /\ Live(b) /\ Live(b)' /\ bookings'[b].slot = bookings[b].slot
          /\ \A x \in BookingId : x # b => bookings'[x] = bookings[x]
        BY <1>1, <1>4, StatusKeepsRow DEF ConfirmBooking, NoneCancelled, Live, Exists
    <2>2. Held' = Held
        BY <2>1 DEF Held, Live, Exists
    <2>. QED
        BY <1>4, <2>2 DEF ConfirmBooking
<1>5. CASE UNCHANGED <<bookings, minted>>
    BY <1>5 DEF Held, Live, Exists
<1>. QED
    BY <1>1, <1>2, <1>3, <1>4, <1>5, MoversStop
    DEF Next, Arrive, Proceed, vars, CreateLock, CreateCheck, CreateUnlock, LockExpire,
        DeleteGet, DeleteFree, CreateAttendance, SlotsGenerated, Fail

\* For the same requests every create that answers 201 and every delete is one
\* step of the ledger: a slot that was held goes to nobody else before its
\* booking is gone, and a booking that is gone never holds a slot again.
THEOREM UnmovedImplementLedger == NothingMoves => (Spec => ImplementsLedger)
<1>. SUFFICES ASSUME NothingMoves
              PROVE  Spec => Ledger!Spec
    BY DEF ImplementsLedger
<1>1. UnmovedInv /\ [Next]_vars => [Ledger!Next]_(Ledger!ledgerVars)
    BY UnmovedLedgerNext DEF UnmovedStep
<1>. QED
    BY LedgerInit, UnmovedHolds, <1>1, PTL DEF Spec, Ledger!Spec

=============================================================================
