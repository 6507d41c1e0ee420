------------------------ MODULE BookingAnswersProofs ------------------------
(***************************************************************************)
(* Theorems about BookingAnswers, for any sets of requests, slots,         *)
(* bookings and keys.                                                      *)
(***************************************************************************)
EXTENDS BookingAnswers, BookingsProofs

-----------------------------------------------------------------------------
(* Every step of a call is a step of Bookings, or changes none of its      *)
(* tables: what is proved of Bookings holds here.                          *)

LEMMA ArrivalIsStep ==
    ASSUME NEW r \in Req, ArrivesAt(r)
    PROVE  Arrive(r) \/ UNCHANGED vars
<1>1. ASSUME NEW s \in SlotId, NEW k \in KeysFor(s), CreateArrives(r, s, k)
      PROVE  Arrive(r) \/ UNCHANGED vars
    BY <1>1 DEF CreateArrives, RefusedAtOnce, Arrive
<1>2. ASSUME NEW b \in BookingId, CancelArrives(r, b) \/ DeleteArrives(r, b)
      PROVE  Arrive(r) \/ UNCHANGED vars
    BY <1>2 DEF CancelArrives, DeleteArrives, RefusedAtOnce, Arrive
<1>3. ASSUME NEW b \in BookingId, ConfirmArrives(r, b) \/ AttendanceArrives(r, b)
      PROVE  Arrive(r) \/ UNCHANGED vars
    BY <1>3 DEF ConfirmArrives, AttendanceArrives, RefusedAtOnce, Arrive
<1>4. ASSUME NEW b \in BookingId, NEW s \in SlotId, RescheduleArrives(r, b, s)
      PROVE  Arrive(r) \/ UNCHANGED vars
    BY <1>4 DEF RescheduleArrives, RefusedAtOnce, Arrive
<1>. QED
    BY <1>1, <1>2, <1>3, <1>4 DEF ArrivesAt

LEMMA AdvanceIsStep ==
    ASSUME NEW r \in Req, Advances(r)
    PROVE  Proceed(r) \/ UNCHANGED vars
BY DEF Advances, Proceed, CreateChecked, CreateUnlocked, Reread, CreateInserted,
       CancelStatusSent, CancelFreed, DeleteRowSent, DeleteFreed, RescheduleChecked,
       RescheduleSelected, RescheduleWritten

LEMMA AnswersStep ==
    ASSUME [AnswersNext]_answerVars
    PROVE  [Next]_vars
<1>1. ASSUME NEW r \in Req, ArrivesAt(r) \/ Advances(r) \/ Fails(r)
      PROVE  [Next]_vars
    BY <1>1, ArrivalIsStep, AdvanceIsStep DEF Fails, Next
<1>2. ASSUME NEW s \in SlotId, KeyExpires(s)
      PROVE  [Next]_vars
    BY <1>2 DEF KeyExpires, Next
<1>3. ASSUME NEW S \in SUBSET SlotId \ {{}}, SlotsGenerated(S)
      PROVE  [Next]_vars
    BY <1>3 DEF Next
<1>4. CASE UNCHANGED answerVars
    BY <1>4 DEF answerVars
<1>. QED
    BY <1>1, <1>2, <1>3, <1>4 DEF AnswersNext

\* The endpoints with their answers and retried creates do nothing to the tables
\* that Bookings does not allow.
THEOREM AnswersImplementBookings == AnswersSpec => Spec
<1>1. AnswersInit => Init
    BY DEF AnswersInit
<1>2. [AnswersNext]_answerVars => [Next]_vars
    BY AnswersStep
<1>. QED
    BY <1>1, <1>2, PTL DEF AnswersSpec, Spec

-----------------------------------------------------------------------------
(* A call and the request behind it, for any clients.                      *)

\* What a call c shows of the request q it carries.
CallShape(c, q) ==
    /\ q.pc \in CreatePc => c.op = "create" /\ c.slot = q.slot
    /\ q.pc \in ReschedulePc => c.op = "reschedule" /\ c.slot = q.slot
    /\ q.pc \in {"cancel", "cancel_free"} => c.op = "cancel"
    /\ q.pc \in {"delete", "delete_free"} => c.op = "delete"
    /\ q.pc \in ReleasePc \cup ReschedulePc => c.booking = q.booking
    /\ q.pc \in {"check", "insert"} => c.booking = NoBooking

\* A decision is made once, and says whether something was written.
CallHonest(c, q) ==
    /\ q.pc \in {"check", "insert", "cancel", "delete"} \cup ReschedulePc =>
           c.code = 0 /\ ~c.wrote /\ ~c.reread
    /\ q.pc \in {"cancel_free", "delete_free"} => c.code = 0 /\ c.wrote /\ ~c.reread
    /\ c.reread => /\ c.code = 0 /\ c.wrote
                   /\ c.booking \in BookingId
                   /\ c.op \in {"create", "cancel", "confirm", "reschedule"}
    /\ c.code \in {409, 423} => ~c.wrote
    /\ c.code \in {200, 201, 204} => c.wrote

CallInv ==
    /\ AnyClientInv
    /\ call \in [Req -> Call]
    /\ \A r \in Req : CallShape(call[r], req[r]) /\ CallHonest(call[r], req[r])

\* A step of r leaves the other calls alone and its own as described.
CallStep(r) ==
    /\ call' \in [Req -> Call]
    /\ \A q \in Req : q # r => call'[q] = call[q]
    /\ CallShape(call'[r], req'[r]) /\ CallHonest(call'[r], req'[r])

\* How a request stands after it has opened a call.
Opened(q, op, s, b, code) ==
    \/ q.pc = "idle"
    \/ /\ op = "create" /\ q.pc = "check" /\ q.slot = s
       /\ b = NoBooking /\ code = 0
    \/ /\ op = "reschedule" /\ q.pc = "resch_check" /\ q.slot = s
       /\ q.booking = b /\ code = 0
    \/ /\ op = "cancel" /\ q.pc = "cancel"
       /\ q.booking = b /\ code = 0
    \/ /\ op = "delete" /\ q.pc = "delete"
       /\ q.booking = b /\ code = 0

\* What a call may be opened with: a code that is no success.
Fresh(op, key, s, b, code) ==
    /\ NewCall(op, key, s, b, code, FALSE, FALSE) \in Call
    /\ code \notin {200, 201, 204}

\* A request that has arrived is not half way through a release, its answer is
\* no success but that of an attendance, and only a confirmation has written.
Arrived(r) ==
    /\ CallStep(r)
    /\ req'[r].pc \notin {"cancel_free", "delete_free"}
    /\ call'[r].code \notin {200, 204}
    /\ call'[r].code = 201 => call'[r].op = "attend"
    /\ call'[r].code = 404 => ~call'[r].wrote
    /\ call'[r].code = 0 /\ call'[r].wrote => call'[r].reread
    /\ call'[r].reread =>
          /\ call'[r].op = "confirm"
          /\ \E b \in BookingId : ConfirmBooking(r, b) /\ call'[r].booking = b

LEMMA OpensStep ==
    ASSUME call \in [Req -> Call], NEW r \in Req,
           NEW op, NEW key, NEW s, NEW b, NEW code,
           Fresh(op, key, s, b, code),
           Opens(r, op, key, s, b, code), Opened(req'[r], op, s, b, code)
    PROVE  Arrived(r)
<1>. DEFINE c == NewCall(op, key, s, b, code, FALSE, FALSE)
            q == req'[r]
<1>1. /\ c \in Call /\ code \notin {200, 201, 204}
      /\ c.op = op /\ c.slot = s /\ c.booking = b
      /\ c.code = code /\ ~c.wrote /\ ~c.reread
    BY DEF Fresh, NewCall
<1>2. call' = [call EXCEPT ![r] = c]
    BY DEF Opens
<1>3. Opened(q, op, s, b, code)
    OBVIOUS
<1>. HIDE DEF c, q
<1>4. CallShape(c, q)
    BY <1>1, <1>3 DEF CallShape, Opened, CreatePc, ReleasePc, ReschedulePc
<1>5. CallHonest(c, q)
    BY <1>1, <1>3 DEF CallHonest, Opened, ReschedulePc
<1>. QED
    BY <1>1, <1>2, <1>3, <1>4, <1>5 DEF CallStep, Arrived, Opened, q

\* A request refused by its first statement.
LEMMA RefusedStep ==
    ASSUME call \in [Req -> Call], NEW r \in Req,
           NEW op, NEW key, NEW s, NEW b, NEW code,
           Fresh(op, key, s, b, code), RefusedAtOnce(r, op, key, s, b, code)
    PROVE  Arrived(r)
<1>1. Opens(r, op, key, s, b, code) /\ req' = req /\ req[r].pc = "idle"
    BY DEF RefusedAtOnce, Opens, InFlight, vars
<1>2. Opened(req'[r], op, s, b, code)
    BY <1>1 DEF Opened
<1>. QED
    BY <1>1, <1>2, OpensStep

LEMMA ArrivalKeepsCall ==
    ASSUME CallInv, NEW r \in Req, ArrivesAt(r)
    PROVE  Arrived(r)
<1>1. /\ call \in [Req -> Call] /\ req \in [Req -> Request]
      /\ bookings \in [BookingId -> BookingRow \cup {NoRow}]
    BY DEF CallInv, AnyClientInv, TypeOK
<1>2. ASSUME NEW s \in SlotId, NEW k \in KeysFor(s), CreateArrives(r, s, k)
      PROVE  Arrived(r)
    <2>1. Fresh("create", k, s, NoBooking, 0) /\ Fresh("create", k, s, NoBooking, 423)
        BY DEF KeysFor, Endpoints, Fresh, NewCall, Call, Code
    <2>2. CASE CreateLock(r, s) /\ Opens(r, "create", k, s, NoBooking, 0)
        <3>1. Opened(req'[r], "create", s, NoBooking, 0)
            BY <1>1, <2>2 DEF CreateLock, Start, Opened
        <3>. QED
            BY <1>1, <2>1, <2>2, <3>1, OpensStep
    <2>3. CASE RefusedAtOnce(r, "create", k, s, NoBooking, 423)
        BY <1>1, <2>1, <2>3, RefusedStep
    <2>. QED
        BY <1>2, <2>2, <2>3 DEF CreateArrives
<1>3. ASSUME NEW b \in BookingId, NEW op \in {"cancel", "delete"},
             \/ op = "cancel" /\ CancelArrives(r, b)
             \/ op = "delete" /\ DeleteArrives(r, b)
      PROVE  Arrived(r)
    <2>1. Fresh(op, NoKey, NoSlot, b, 0) /\ Fresh(op, NoKey, NoSlot, b, 404)
        BY DEF Endpoints, Fresh, NewCall, Call, Code
    <2>2. CASE /\ \/ op = "cancel" /\ CancelGet(r, b)
                  \/ op = "delete" /\ DeleteGet(r, b)
               /\ Opens(r, op, NoKey, NoSlot, b, 0)
        <3>1. Opened(req'[r], op, NoSlot, b, 0)
            BY <1>1, <2>2 DEF CancelGet, DeleteGet, Start, Opened
        <3>. QED
            BY <1>1, <2>1, <2>2, <3>1, OpensStep
    <2>3. CASE RefusedAtOnce(r, op, NoKey, NoSlot, b, 404)
        BY <1>1, <2>1, <2>3, RefusedStep
    <2>. QED
        BY <1>3, <2>2, <2>3 DEF CancelArrives, DeleteArrives
<1>4. ASSUME NEW b \in BookingId, NEW s \in SlotId, RescheduleArrives(r, b, s)
      PROVE  Arrived(r)
    <2>1. Fresh("reschedule", NoKey, s, b, 0) /\ Fresh("reschedule", NoKey, s, b, 404)
        BY DEF Endpoints, Fresh, NewCall, Call, Code
    <2>2. CASE RescheduleGet(r, b, s) /\ Opens(r, "reschedule", NoKey, s, b, 0)
        <3>1. Opened(req'[r], "reschedule", s, b, 0)
            BY <1>1, <2>2 DEF RescheduleGet, Start, Opened
        <3>. QED
            BY <1>1, <2>1, <2>2, <3>1, OpensStep
    <2>3. CASE RefusedAtOnce(r, "reschedule", NoKey, s, b, 404)
        BY <1>1, <2>1, <2>3, RefusedStep
    <2>. QED
        BY <1>4, <2>2, <2>3 DEF RescheduleArrives
<1>5. ASSUME NEW b \in BookingId, ConfirmArrives(r, b) \/ AttendanceArrives(r, b)
      PROVE  Arrived(r)
    <2>1. Fresh("confirm", NoKey, NoSlot, b, 404) /\ Fresh("attend", NoKey, NoSlot, b, 500)
        BY DEF Endpoints, Fresh, NewCall, Call, Code
    <2>5. /\ NewCall("confirm", NoKey, NoSlot, b, 0, TRUE, TRUE) \in Call
          /\ NewCall("attend", NoKey, NoSlot, b, 201, TRUE, FALSE) \in Call
          /\ NewCall("attend", NoKey, NoSlot, b, 500, TRUE, FALSE) \in Call
        BY DEF Endpoints, NewCall, Call, Code
    <2>2. CASE RefusedAtOnce(r, "confirm", NoKey, NoSlot, b, 404)
        BY <1>1, <2>1, <2>2, RefusedStep
    <2>3. CASE RefusedAtOnce(r, "attend", NoKey, NoSlot, b, 500)
        BY <1>1, <2>1, <2>3, RefusedStep
    <2>4. ASSUME NEW c, req'[r].pc = "idle", call' = [call EXCEPT ![r] = c],
                 \/ /\ c = NewCall("confirm", NoKey, NoSlot, b, 0, TRUE, TRUE)
                    /\ ConfirmBooking(r, b)
                 \/ c = NewCall("attend", NoKey, NoSlot, b, 201, TRUE, FALSE)
                 \/ c = NewCall("attend", NoKey, NoSlot, b, 500, TRUE, FALSE)
          PROVE  Arrived(r)
        <3>1. c \in Call
            <4>1. CASE c = NewCall("confirm", NoKey, NoSlot, b, 0, TRUE, TRUE)
                BY <4>1, <2>5
            <4>2. CASE c = NewCall("attend", NoKey, NoSlot, b, 201, TRUE, FALSE)
                BY <4>2, <2>5
            <4>3. CASE c = NewCall("attend", NoKey, NoSlot, b, 500, TRUE, FALSE)
                BY <4>3, <2>5
            <4>. QED
                BY <2>4, <4>1, <4>2, <4>3
        <3>2. /\ c.booking = b /\ c.wrote /\ c.code \in {0, 201, 500}
              /\ c.code = 0 => c.reread
              /\ c.reread => c.op = "confirm" /\ c.code = 0 /\ ConfirmBooking(r, b)
              /\ c.code = 201 => c.op = "attend"
            BY <2>4 DEF NewCall
        <3>3. CallShape(c, req'[r]) /\ CallHonest(c, req'[r])
            BY <2>4, <3>2
            DEF CallShape, CallHonest, CreatePc, ReleasePc, ReschedulePc
        <3>. QED
            BY <1>1, <2>4, <3>1, <3>2, <3>3 DEF CallStep, Arrived
    <2>. QED
        BY <1>5, <2>2, <2>3, <2>4
        DEF ConfirmArrives, AttendanceArrives, ConfirmBooking, CreateAttendance,
            ClientMay
<1>. QED
    BY <1>2, <1>3, <1>4, <1>5 DEF ArrivesAt

\* A call that is edited.
LEMMA EditStep ==
    ASSUME call \in [Req -> Call], NEW r \in Req, NEW c \in Call,
           call' = [call EXCEPT ![r] = c],
           CallShape(c, req'[r]), CallHonest(c, req'[r])
    PROVE  CallStep(r)
BY DEF CallStep

\* The call stays as it is, and the request does not outrun it.
LEMMA KeepStep ==
    ASSUME call \in [Req -> Call], NEW r \in Req, call' = call,
           CallShape(call[r], req'[r]), CallHonest(call[r], req'[r])
    PROVE  CallStep(r)
BY DEF CallStep

\* A call that ends.
LEMMA ClosesCall ==
    ASSUME call \in [Req -> Call], NEW r \in Req, NEW code \in Code,
           NEW row \in BookingRow \cup {NoRow}, Closes(r, code, row)
    PROVE  /\ call' \in [Req -> Call]
           /\ \A q \in Req : q # r => call'[q] = call[q]
           /\ call'[r].op = call[r].op /\ call'[r].slot = call[r].slot
           /\ call'[r].booking = call[r].booking /\ call'[r].wrote = call[r].wrote
           /\ call'[r].code = code /\ call'[r].got = row /\ ~call'[r].reread
           /\ call'[r].own = (writer[call[r].booking] = r)
<1>. DEFINE own == writer[call[r].booking] = r
            d == [call[r] EXCEPT !.reread = FALSE, !.code = code, !.got = row,
                                 !.own = own]
<1>0. own \in BOOLEAN
    OBVIOUS
<1>. HIDE DEF own
<1>1. d \in Call
    BY <1>0 DEF Call
<1>2. /\ d.op = call[r].op /\ d.slot = call[r].slot /\ d.booking = call[r].booking
      /\ d.wrote = call[r].wrote /\ d.code = code /\ d.got = row /\ d.own = own
    BY DEF Call
<1>3. d.reread = FALSE
    BY DEF Call
<1>4. call' = [call EXCEPT ![r] = d]
    BY DEF Closes, own
<1>. HIDE DEF d
<1>. QED
    BY <1>1, <1>2, <1>3, <1>4 DEF own

\* The last read decides.
LEMMA RereadCloses ==
    ASSUME call \in [Req -> Call], NEW r \in Req, Reread(r),
           call[r].booking \in BookingId,
           bookings \in [BookingId -> BookingRow \cup {NoRow}]
    PROVE  call'[r].code \in {200, 201, 404}
<1>1. PICK code \in {200, 201, 404}, row \in BookingRow \cup {NoRow} : Closes(r, code, row)
    BY DEF Reread
<1>2. code \in Code
    BY <1>1 DEF Code
<1>. QED
    BY <1>1, <1>2, ClosesCall

\* A call that is cut off.
LEMMA FailsCall ==
    ASSUME call \in [Req -> Call], NEW r \in Req, Fails(r)
    PROVE  /\ call' \in [Req -> Call]
           /\ \A q \in Req : q # r => call'[q] = call[q]
           /\ call'[r].op = call[r].op /\ call'[r].slot = call[r].slot
           /\ call'[r].booking = call[r].booking /\ call'[r].wrote = call[r].wrote
           /\ call'[r].got = call[r].got /\ call'[r].own = call[r].own
           /\ ~call'[r].reread /\ call'[r].code # 0
           /\ call'[r].code = 500 \/ call'[r].code = call[r].code
<1>. DEFINE code == IF call[r].code = 0 THEN 500 ELSE call[r].code
            d == [call[r] EXCEPT !.reread = FALSE, !.code = code]
<1>0. code \in Code /\ code # 0 /\ (code = 500 \/ code = call[r].code)
    BY DEF Call, Code
<1>1. call' = [call EXCEPT ![r] = d]
    BY DEF Fails
<1>. HIDE DEF code
<1>2. d \in Call
    BY <1>0 DEF Call
<1>3. /\ d.op = call[r].op /\ d.slot = call[r].slot /\ d.booking = call[r].booking
      /\ d.wrote = call[r].wrote /\ d.got = call[r].got /\ d.own = call[r].own
      /\ d.code = code
    BY DEF Call
<1>4. d.reread = FALSE
    BY DEF Call
<1>. HIDE DEF d
<1>. QED
    BY <1>0, <1>1, <1>2, <1>3, <1>4

\* A call whose code is decided, or which has written.
LEMMA AnswersCall ==
    ASSUME call \in [Req -> Call], NEW r \in Req, NEW code \in Code, Answers(r, code)
    PROVE  /\ call' \in [Req -> Call]
           /\ \A q \in Req : q # r => call'[q] = call[q]
           /\ call'[r].op = call[r].op /\ call'[r].slot = call[r].slot
           /\ call'[r].booking = call[r].booking /\ call'[r].wrote = call[r].wrote
           /\ call'[r].reread = call[r].reread /\ call'[r].got = call[r].got
           /\ call'[r].code = code
<1>. DEFINE d == [call[r] EXCEPT !.code = code]
<1>1. /\ d \in Call
      /\ d.op = call[r].op /\ d.slot = call[r].slot /\ d.booking = call[r].booking
      /\ d.wrote = call[r].wrote /\ d.reread = call[r].reread /\ d.got = call[r].got
      /\ d.code = code
    BY DEF Call
<1>2. call' = [call EXCEPT ![r] = d]
    BY DEF Answers
<1>. HIDE DEF d
<1>. QED
    BY <1>1, <1>2

LEMMA MarksCall ==
    ASSUME call \in [Req -> Call], NEW r \in Req,
           NEW wrote \in BOOLEAN, NEW reread \in BOOLEAN,
           \/ call' = [call EXCEPT ![r].wrote = TRUE] /\ wrote /\ reread = call[r].reread
           \/ call' = [call EXCEPT ![r].reread = TRUE] /\ reread /\ wrote = call[r].wrote
           \/ call' = [call EXCEPT ![r].wrote = TRUE, ![r].reread = TRUE]
              /\ wrote /\ reread
    PROVE  /\ call' \in [Req -> Call]
           /\ \A q \in Req : q # r => call'[q] = call[q]
           /\ call'[r].op = call[r].op /\ call'[r].slot = call[r].slot
           /\ call'[r].booking = call[r].booking /\ call'[r].code = call[r].code
           /\ call'[r].wrote = wrote /\ call'[r].reread = reread
           /\ call'[r].got = call[r].got
<1>. DEFINE e == [call[r] EXCEPT !.wrote = wrote]
            d == [call[r] EXCEPT !.wrote = wrote, !.reread = reread]
<1>0. e \in Call
    BY DEF Call
<1>1. d \in Call
    BY <1>0 DEF Call
<1>2. /\ d.op = call[r].op /\ d.slot = call[r].slot /\ d.booking = call[r].booking
      /\ d.code = call[r].code /\ d.got = call[r].got
      /\ d.wrote = wrote /\ d.reread = reread
    BY DEF Call
<1>3. call' = [call EXCEPT ![r] = d]
    BY DEF Call
<1>. HIDE DEF d
<1>. QED
    BY <1>1, <1>2, <1>3

LEMMA AdvanceKeepsCall ==
    ASSUME CallInv, NEW r \in Req, Advances(r)
    PROVE  CallStep(r)
<1>. DEFINE c == call[r]
            q == req[r]
<1>1. /\ call \in [Req -> Call] /\ c \in Call
      /\ req \in [Req -> Request] /\ q \in Request
      /\ bookings \in [BookingId -> BookingRow \cup {NoRow}]
      /\ CallShape(c, q) /\ CallHonest(c, q)
    BY DEF CallInv, AnyClientInv, TypeOK
<1>0. 0 \in Code /\ 200 \in Code /\ 201 \in Code /\ 204 \in Code /\ 404 \in Code
      /\ 409 \in Code /\ 500 \in Code
    BY DEF Code
<1>2. CASE CreateChecked(r)
    <2>1. /\ q.pc = "check" /\ req'[r].pc \in {"insert", "unlock"}
          /\ req'[r].slot = q.slot
        BY <1>1, <1>2, GoToKeeps DEF CreateChecked, CreateCheck, Pc, CreatePc
    <2>2. CASE UNCHANGED call /\ req'[r].pc = "insert"
        BY <1>1, <2>1, <2>2, KeepStep
        DEF CallShape, CallHonest, CreatePc, ReleasePc, ReschedulePc
    <2>3. ASSUME NEW code \in {404, 409}, Answers(r, code), req'[r].pc = "unlock"
          PROVE  CallStep(r)
        <3>. DEFINE d == [c EXCEPT !.code = code]
        <3>1. /\ d \in Call /\ d.code = code /\ d.wrote = c.wrote /\ d.op = c.op
              /\ d.reread = c.reread /\ d.slot = c.slot /\ d.booking = c.booking
            BY <1>0, <1>1 DEF Call
        <3>2. call' = [call EXCEPT ![r] = d]
            BY <1>1, <2>3 DEF Answers
        <3>. HIDE DEF d
        <3>3. CallShape(d, req'[r])
            BY <1>1, <2>1, <2>3, <3>1
            DEF CallShape, CreatePc, ReleasePc, ReschedulePc
        <3>4. CallHonest(d, req'[r])
            BY <1>1, <2>1, <2>3, <3>1 DEF CallHonest, ReschedulePc
        <3>. QED
            BY <1>1, <3>1, <3>2, <3>3, <3>4, EditStep
    <2>4. /\ req'[r].pc = "insert" <=> IsFree(q.slot)
          /\ req'[r].pc = "unlock" <=> ~IsFree(q.slot)
        BY <1>1, <1>2, <2>1 DEF CreateChecked, CreateCheck, GoTo
    <2>. QED
        BY <1>2, <2>2, <2>3, <2>4 DEF CreateChecked, IsFree
<1>3. CASE CreateUnlocked(r)
    <2>1. req'[r].pc = "idle" /\ call' = call
        BY <1>1, <1>3, FinishKeeps DEF CreateUnlocked, CreateUnlock
    <2>. QED
        BY <1>1, <2>1, KeepStep
        DEF CallShape, CallHonest, CreatePc, ReleasePc, ReschedulePc
<1>4. CASE Reread(r)
    <2>. DEFINE b == c.booking
    <2>1. /\ c.reread /\ c.wrote /\ b \in BookingId /\ req' = req
          /\ q.pc \in Pc /\ q.pc \in {"idle", "unlock"}
        BY <1>1, <1>4
        DEF Reread, CallHonest, vars, Request, Pc, CreatePc, ReleasePc, ReschedulePc
    <2>2. PICK code \in Code, row \in BookingRow \cup {NoRow} :
             Closes(r, code, row) /\ code \in {200, 201, 404}
        BY <1>0, <1>1, <1>4, <2>1 DEF Reread
    <2>3. /\ call' \in [Req -> Call]
          /\ \A p \in Req : p # r => call'[p] = call[p]
          /\ call'[r].op = c.op /\ call'[r].slot = c.slot /\ call'[r].booking = b
          /\ call'[r].wrote = c.wrote /\ call'[r].code = code /\ ~call'[r].reread
        BY <1>1, <2>2, ClosesCall
    <2>4. CallShape(call'[r], req'[r])
        BY <1>1, <2>1, <2>3 DEF CallShape, CreatePc, ReleasePc, ReschedulePc
    <2>5. CallHonest(call'[r], req'[r])
        BY <1>1, <2>1, <2>2, <2>3 DEF CallHonest, ReschedulePc
    <2>. QED
        BY <2>3, <2>4, <2>5 DEF CallStep
<1>5. ASSUME NEW b \in BookingId, CreateInserted(r, b)
      PROVE  CallStep(r)
    <2>. DEFINE d == [c EXCEPT !.booking = b, !.wrote = TRUE, !.reread = TRUE]
    <2>1. /\ q.pc = "insert" /\ req'[r].pc = "unlock" /\ req'[r].slot = q.slot
        BY <1>1, <1>5 DEF CreateInserted, CreateInsert, Request
    <2>2. /\ d \in Call /\ d.op = c.op /\ d.slot = c.slot /\ d.booking = b
          /\ d.wrote /\ d.reread /\ d.code = c.code
        BY <1>1 DEF Call
    <2>3. call' = [call EXCEPT ![r] = d]
        BY <1>1, <1>5 DEF CreateInserted
    <2>. HIDE DEF d
    <2>4. CallShape(d, req'[r])
        BY <1>1, <2>1, <2>2 DEF CallShape, CreatePc, ReleasePc, ReschedulePc
    <2>5. CallHonest(d, req'[r])
        BY <1>1, <2>1, <2>2 DEF CallHonest, CallShape, CreatePc, ReschedulePc
    <2>. QED
        BY <1>1, <2>2, <2>3, <2>4, <2>5, EditStep
<1>6. ASSUME NEW code \in Code, Answers(r, code), req'[r].pc = "idle",
             code \in {404, 409, 500, 204}, code \in {404, 409} => ~c.wrote,
             code = 204 => c.wrote,
             ~c.reread
      PROVE  CallStep(r)
    <2>1. /\ call' \in [Req -> Call]
          /\ \A p \in Req : p # r => call'[p] = call[p]
          /\ call'[r].wrote = c.wrote /\ call'[r].code = code /\ ~call'[r].reread
        BY <1>1, <1>6, AnswersCall
    <2>2. CallShape(call'[r], req'[r]) /\ CallHonest(call'[r], req'[r])
        BY <1>6, <2>1 DEF CallShape, CallHonest, CreatePc, ReleasePc, ReschedulePc
    <2>. QED
        BY <2>1, <2>2 DEF CallStep
<1>7. CASE CancelStatusSent(r) \/ DeleteRowSent(r)
    <2>1. /\ q.pc \in {"cancel", "delete"}
          /\ c.code = 0 /\ ~c.wrote /\ ~c.reread /\ c.booking = q.booking
          /\ q.pc = "cancel" => c.op = "cancel"
          /\ q.pc = "delete" => c.op = "delete"
        BY <1>1, <1>7 DEF CancelStatusSent, CancelStatus, DeleteRowSent, DeleteRow,
                          CallShape, CallHonest, ReleasePc
    <2>2. CASE call' = [call EXCEPT ![r].wrote = TRUE]
               /\ \/ q.pc = "cancel" /\ GoTo(r, "cancel_free")
                  \/ q.pc = "delete" /\ GoTo(r, "delete_free")
        <3>1. /\ req'[r].booking = q.booking
              /\ \/ q.pc = "cancel" /\ req'[r].pc = "cancel_free"
                 \/ q.pc = "delete" /\ req'[r].pc = "delete_free"
            BY <1>1, <2>2, GoToKeeps DEF Pc, ReleasePc
        <3>2. /\ call' \in [Req -> Call]
              /\ \A p \in Req : p # r => call'[p] = call[p]
              /\ call'[r].op = c.op /\ call'[r].booking = c.booking
              /\ call'[r].code = c.code /\ call'[r].wrote = TRUE
              /\ call'[r].reread = c.reread
            BY <1>1, <2>1, <2>2, MarksCall DEF Call
        <3>3. CallShape(call'[r], req'[r]) /\ CallHonest(call'[r], req'[r])
            BY <2>1, <3>1, <3>2
            DEF CallShape, CallHonest, CreatePc, ReleasePc, ReschedulePc
        <3>. QED
            BY <3>2, <3>3 DEF CallStep
    <2>3. CASE Finish(r) /\ (Answers(r, 404) \/ Answers(r, 500))
        <3>1. req'[r].pc = "idle"
            BY <1>1, <2>3, FinishKeeps
        <3>2. PICK code \in Code : Answers(r, code) /\ code \in {404, 500}
            BY <1>0, <2>3
        <3>. QED
            BY <1>6, <2>1, <3>1, <3>2
    <2>. QED
        BY <1>7, <2>1, <2>2, <2>3
        DEF CancelStatusSent, CancelStatus, DeleteRowSent, DeleteRow
<1>8. CASE CancelFreed(r) \/ RescheduleWritten(r)
    <2>1. /\ q.pc \in {"cancel_free", "resch_write"} /\ req'[r].pc = "idle"
          /\ c.code = 0 /\ c.booking = q.booking /\ q.booking \in BookingId
          /\ c.op \in {"cancel", "reschedule"}
        BY <1>1, <1>8, FinishKeeps
        DEF CancelFreed, CancelFree, RescheduleWritten, RescheduleWrite, CallShape,
            CallHonest, ReleasePc, ReschedulePc, CallInv, AnyClientInv, RequestShape
    <2>2. CancelFreed(r) => c.wrote
        BY <1>1 DEF CancelFreed, CancelFree, CallHonest
    <2>3. \/ call' = [call EXCEPT ![r].reread = TRUE] /\ c.wrote = TRUE
          \/ call' = [call EXCEPT ![r].wrote = TRUE, ![r].reread = TRUE]
        BY <1>1, <1>8, <2>2 DEF CancelFreed, RescheduleWritten, Call
    <2>4. /\ call' \in [Req -> Call]
          /\ \A p \in Req : p # r => call'[p] = call[p]
          /\ call'[r].op = c.op /\ call'[r].booking = c.booking
          /\ call'[r].code = c.code /\ call'[r].wrote = TRUE
          /\ call'[r].reread = TRUE
        BY <1>1, <2>3, MarksCall
    <2>5. CallShape(call'[r], req'[r]) /\ CallHonest(call'[r], req'[r])
        BY <2>1, <2>4 DEF CallShape, CallHonest, CreatePc, ReleasePc, ReschedulePc
    <2>. QED
        BY <2>4, <2>5 DEF CallStep
<1>9. CASE DeleteFreed(r)
    <2>1. req'[r].pc = "idle" /\ c.wrote /\ ~c.reread
        BY <1>1, <1>9, FinishKeeps DEF DeleteFreed, DeleteFree, CallHonest
    <2>2. PICK code \in Code : Answers(r, code) /\ code \in {204, 500}
        BY <1>0, <1>9 DEF DeleteFreed
    <2>. QED
        BY <1>6, <2>1, <2>2
<1>10. CASE RescheduleChecked(r) \/ RescheduleSelected(r)
    <2>1. q.pc \in {"resch_check", "resch_select"} /\ ~c.wrote /\ ~c.reread /\ c.code = 0
        BY <1>1, <1>10
        DEF RescheduleChecked, RescheduleCheck, RescheduleSelected, RescheduleSelect,
            CallHonest, ReschedulePc
    <2>2. CASE UNCHANGED call /\ req'[r].pc \in ReschedulePc
        <3>1. req'[r].slot = q.slot /\ req'[r].booking = q.booking
            BY <1>1, <1>10, <2>2, GoToKeeps, FinishKeeps
            DEF RescheduleChecked, RescheduleCheck, RescheduleSelected,
                RescheduleSelect, Request, Pc, ReschedulePc
        <3>2. CallShape(c, req'[r]) /\ CallHonest(c, req'[r])
            BY <1>1, <2>1, <2>2, <3>1
            DEF CallShape, CallHonest, CreatePc, ReleasePc, ReschedulePc
        <3>. QED
            BY <1>1, <2>2, <3>2, KeepStep
    <2>3. CASE Finish(r) /\ (Answers(r, 404) \/ Answers(r, 409))
        <3>1. req'[r].pc = "idle"
            BY <1>1, <2>3, FinishKeeps
        <3>2. PICK code \in Code : Answers(r, code) /\ code \in {404, 409}
            BY <1>0, <2>3
        <3>. QED
            BY <1>6, <2>1, <3>1, <3>2
    <2>4. \/ UNCHANGED call /\ req'[r].pc \in ReschedulePc
          \/ Finish(r) /\ (Answers(r, 404) \/ Answers(r, 409))
        BY <1>1, <1>10, GoToKeeps
        DEF RescheduleChecked, RescheduleCheck, RescheduleSelected,
            RescheduleSelect, Request, Pc, ReschedulePc, SlotFound, IsFree
    <2>. QED
        BY <2>2, <2>3, <2>4
<1>. QED
    BY <1>2, <1>3, <1>4, <1>5, <1>7, <1>8, <1>9, <1>10 DEF Advances

LEMMA FailKeepsCall ==
    ASSUME CallInv, NEW r \in Req, Fails(r)
    PROVE  CallStep(r)
<1>. DEFINE c == call[r]
            q == req[r]
<1>1. /\ call \in [Req -> Call] /\ c \in Call
      /\ req \in [Req -> Request] /\ q \in Request
      /\ CallShape(c, q) /\ CallHonest(c, q)
    BY DEF CallInv, AnyClientInv, TypeOK
<1>2. \/ req'[r].pc = "idle"
      \/ /\ q.pc \in {"check", "insert"} /\ req'[r].pc = "unlock"
         /\ req'[r].slot = q.slot
      \/ c.reread /\ req' = req
    BY <1>1, GoToKeeps, FinishKeeps DEF Fails, Fail, vars, Pc, CreatePc
<1>4. /\ call' \in [Req -> Call]
      /\ \A p \in Req : p # r => call'[p] = call[p]
      /\ call'[r].op = c.op /\ call'[r].slot = c.slot /\ call'[r].booking = c.booking
      /\ call'[r].wrote = c.wrote /\ ~call'[r].reread
      /\ call'[r].code = 500 \/ call'[r].code = c.code
    BY <1>1, FailsCall
<1>5. CallShape(call'[r], req'[r])
    BY <1>1, <1>2, <1>4 DEF CallShape, CreatePc, ReleasePc, ReschedulePc
<1>6. CallHonest(call'[r], req'[r])
    BY <1>1, <1>2, <1>4 DEF CallHonest, ReschedulePc
<1>. QED
    BY <1>4, <1>5, <1>6 DEF CallStep

\* A step belongs to one call, or to none and changes none.
LEMMA OneCallMoves ==
    ASSUME CallInv, [AnswersNext]_answerVars
    PROVE  \/ call' = call /\ req' = req
           \/ \E r \in Req :
                 /\ (ArrivesAt(r) /\ Arrived(r)) \/ Advances(r) \/ Fails(r)
                 /\ CallStep(r)
                 /\ \A q \in Req : q # r => call'[q] = call[q] /\ req'[q] = req[q]
<1>1. ASSUME NEW r \in Req, ArrivesAt(r) \/ Advances(r) \/ Fails(r)
      PROVE  /\ (ArrivesAt(r) /\ Arrived(r)) \/ Advances(r) \/ Fails(r)
             /\ CallStep(r)
             /\ \A q \in Req : q # r => call'[q] = call[q] /\ req'[q] = req[q]
    <2>1. /\ CallStep(r)
          /\ (ArrivesAt(r) /\ Arrived(r)) \/ Advances(r) \/ Fails(r)
        BY <1>1, ArrivalKeepsCall, AdvanceKeepsCall, FailKeepsCall DEF Arrived
    <2>2. Arrive(r) \/ Proceed(r) \/ Fail(r) \/ UNCHANGED vars
        BY <1>1, ArrivalIsStep, AdvanceIsStep DEF Fails
    <2>3. TypeOK
        BY DEF CallInv, AnyClientInv
    <2>4. ASSUME NEW q \in Req, q # r
          PROVE  req'[q] = req[q]
        BY <2>2, <2>3, <2>4, OthersWait DEF vars
    <2>. QED
        BY <2>1, <2>4 DEF CallStep
<1>2. ASSUME NEW s \in SlotId, KeyExpires(s)
      PROVE  call' = call /\ req' = req
    BY <1>2 DEF KeyExpires, LockExpire
<1>3. ASSUME NEW S \in SUBSET SlotId \ {{}}, SlotsGenerated(S), UNCHANGED <<call, history>>
      PROVE  call' = call /\ req' = req
    BY <1>3 DEF SlotsGenerated
<1>4. CASE UNCHANGED answerVars
    BY <1>4 DEF answerVars, vars
<1>. QED
    BY <1>1, <1>2, <1>3, <1>4 DEF AnswersNext

LEMMA CallInvInit == AnswersInit => CallInv
<1>. SUFFICES ASSUME AnswersInit
              PROVE  CallInv
    OBVIOUS
<1>1. AnyClientInv
    BY AnyClientInit DEF AnswersInit
<1>2. NoCall \in Call /\ NoCall.code = 0 /\ ~NoCall.reread
    BY DEF NoCall, NewCall, Call, Code
<1>3. ASSUME NEW r \in Req
      PROVE  CallShape(call[r], req[r]) /\ CallHonest(call[r], req[r])
    BY <1>2 DEF AnswersInit, Init, Idle, CallShape, CallHonest, CreatePc, ReleasePc,
                ReschedulePc
<1>. QED
    BY <1>1, <1>2, <1>3 DEF CallInv, AnswersInit

LEMMA CallInvNext == CallInv /\ [AnswersNext]_answerVars => CallInv'
<1>. SUFFICES ASSUME CallInv, [AnswersNext]_answerVars
              PROVE  CallInv'
    OBVIOUS
<1>1. AnyClientInv'
    BY AnswersStep, AnyClientNext DEF CallInv
<1>2. CASE call' = call /\ req' = req
    BY <1>1, <1>2 DEF CallInv
<1>3. ASSUME NEW r \in Req, CallStep(r),
             \A q \in Req : q # r => call'[q] = call[q] /\ req'[q] = req[q]
      PROVE  CallInv'
    <2>1. ASSUME NEW q \in Req
          PROVE  CallShape(call'[q], req'[q]) /\ CallHonest(call'[q], req'[q])
        BY <1>3 DEF CallStep, CallInv
    <2>. QED
        BY <1>1, <1>3, <2>1 DEF CallStep, CallInv
<1>. QED
    BY <1>2, <1>3, OneCallMoves

HistoryTypeOK ==
    /\ keyed \in [Key -> SUBSET BookingId]
    /\ cut \subseteq BookingId
    /\ writer \in [BookingId -> Req \cup {NoReq}]

LEMMA HistoryTypeNext ==
    CallInv /\ HistoryTypeOK /\ [AnswersNext]_answerVars => HistoryTypeOK'
<1>. SUFFICES ASSUME CallInv, HistoryTypeOK, [AnswersNext]_answerVars
              PROVE  HistoryTypeOK'
    OBVIOUS
<1>. USE DEF HistoryTypeOK
<1>0. \A r \in Req : req[r].pc \in ReleasePc \cup ReschedulePc => req[r].booking \in BookingId
    BY DEF CallInv, AnyClientInv, RequestShape
<1>1. ASSUME NEW r \in Req, ArrivesAt(r)
      PROVE  UNCHANGED history \/ \E b \in BookingId : Writes(r, b)
    BY <1>1 DEF ArrivesAt, CreateArrives, CancelArrives, DeleteArrives, ConfirmArrives,
                AttendanceArrives, RescheduleArrives, RefusedAtOnce
<1>2. ASSUME NEW r \in Req, NEW b \in BookingId, CreateInserted(r, b)
      PROVE  HistoryTypeOK'
    BY <1>2 DEF CreateInserted
<1>3. ASSUME NEW r \in Req, Advances(r), ~ \E b \in BookingId : CreateInserted(r, b)
      PROVE  UNCHANGED history \/ \E b \in BookingId : Writes(r, b)
    <2>1. CASE CancelStatusSent(r) \/ RescheduleWritten(r)
        <3>1. req[r].booking \in BookingId
            BY <1>0, <2>1
            DEF CancelStatusSent, CancelStatus, RescheduleWritten, RescheduleWrite,
                ReleasePc, ReschedulePc
        <3>. QED
            BY <2>1, <3>1 DEF CancelStatusSent, RescheduleWritten
    <2>. QED
        BY <1>3, <2>1 DEF Advances, CreateChecked, CreateUnlocked, Reread, CancelFreed,
                          DeleteRowSent, DeleteFreed, RescheduleChecked,
                          RescheduleSelected
<1>4. ASSUME NEW r \in Req, Fails(r)
      PROVE  HistoryTypeOK'
    BY <1>0, <1>4 DEF Fails, ReleasePc
<1>5. CASE UNCHANGED history
    BY <1>5 DEF history
<1>6. ASSUME NEW r \in Req, NEW b \in BookingId, Writes(r, b)
      PROVE  HistoryTypeOK'
    BY <1>6 DEF Writes
<1>. QED
    BY <1>1, <1>2, <1>3, <1>4, <1>5, <1>6 DEF AnswersNext, KeyExpires, answerVars, history

\* Calls and their history keep their types for any clients: in particular the
\* row a client is shown is a row, whatever was deleted while it was read again.
THEOREM AnswersTypeCorrect == AnswersSpec => []AnswersTypeOK
<1>1. AnswersInit => CallInv /\ HistoryTypeOK
    BY CallInvInit DEF AnswersInit, HistoryTypeOK
<1>2. CallInv /\ HistoryTypeOK /\ [AnswersNext]_answerVars => (CallInv /\ HistoryTypeOK)'
    BY CallInvNext, HistoryTypeNext
<1>3. CallInv /\ HistoryTypeOK => AnswersTypeOK
    BY DEF CallInv, AnyClientInv, HistoryTypeOK, AnswersTypeOK
<1>. QED
    BY <1>1, <1>2, <1>3, PTL DEF AnswersSpec

-----------------------------------------------------------------------------
(* Deletes that race, for any clients.                                     *)

\* The request r has deleted its booking: it is going to free the slot, or has
\* been answered 204.
Deleted(r) == req[r].pc = "delete_free" \/ call[r].code = 204

\* Its booking is gone, and nobody else has deleted it.
DeletedAlone ==
    /\ \A r \in Req : Deleted(r) =>
           call[r].booking \in minted /\ ~Exists(call[r].booking)
    /\ \A r1, r2 \in Req :
           Deleted(r1) /\ Deleted(r2) /\ call[r1].booking = call[r2].booking => r1 = r2

\* How a request gets there.
LEMMA DeletedMoves ==
    ASSUME CallInv, [AnswersNext]_answerVars, NEW r \in Req, Deleted(r)'
    PROVE  /\ call'[r].booking = call[r].booking
           /\ \/ Deleted(r)
              \/ /\ call[r].booking \in BookingId /\ Exists(call[r].booking)
                 /\ bookings'[call[r].booking] = NoRow
<1>. DEFINE c == call[r]
            q == req[r]
<1>1. /\ call \in [Req -> Call] /\ req \in [Req -> Request]
      /\ bookings \in [BookingId -> BookingRow \cup {NoRow}]
      /\ CallShape(c, q) /\ CallHonest(c, q)
    BY DEF CallInv, AnyClientInv, TypeOK
<1>2. CASE call'[r] = call[r] /\ req'[r] = req[r]
    BY <1>2 DEF Deleted
<1>3. CASE Arrived(r)
    BY <1>3 DEF Arrived, Deleted
<1>4. CASE DeleteRowSent(r)
    <2>. DEFINE b == q.booking
    <2>1. q.pc = "delete" /\ b \in BookingId /\ c.booking = b
        BY <1>1, <1>4
        DEF DeleteRowSent, DeleteRow, CallShape, ReleasePc, CallInv, AnyClientInv,
            RequestShape
    <2>2. CASE Exists(b) /\ b \notin attendance
        <3>1. /\ call' = [call EXCEPT ![r].wrote = TRUE]
              /\ bookings' = [bookings EXCEPT ![b] = NoRow]
            BY <1>4, <2>2 DEF DeleteRowSent, DeleteRow
        <3>2. call'[r].booking = c.booking
            BY <1>1, <3>1 DEF Call
        <3>. QED
            BY <1>1, <2>1, <2>2, <3>1, <3>2
    <2>3. CASE ~(Exists(b) /\ b \notin attendance)
        <3>1. Finish(r) /\ (Answers(r, 404) \/ Answers(r, 500))
            BY <1>4, <2>3 DEF DeleteRowSent, DeleteRow
        <3>2. req'[r].pc = "idle"
            BY <1>1, <3>1, FinishKeeps
        <3>3. call'[r].code \in {404, 500}
            BY <1>1, <3>1 DEF Answers, Call
        <3>. QED
            BY <3>2, <3>3 DEF Deleted
    <2>. QED
        BY <2>2, <2>3
<1>5. CASE DeleteFreed(r)
    <2>1. Deleted(r)
        BY <1>5 DEF DeleteFreed, DeleteFree, Deleted
    <2>2. call'[r].booking = c.booking
        BY <1>1, <1>5 DEF DeleteFreed, Answers, Call
    <2>. QED
        BY <2>1, <2>2
<1>6. CASE \/ CreateChecked(r) \/ CreateUnlocked(r) \/ CancelStatusSent(r)
           \/ CancelFreed(r) \/ RescheduleChecked(r) \/ RescheduleSelected(r)
           \/ RescheduleWritten(r)
    <2>3. ASSUME CreateChecked(r) \/ RescheduleChecked(r)
          PROVE  req'[r].pc # "delete_free"
        BY <1>1, <2>3
        DEF CreateChecked, CreateCheck, RescheduleChecked, RescheduleCheck, GoTo,
            Finish, Idle, Request
    <2>4. ASSUME CreateUnlocked(r) \/ CancelFreed(r) \/ RescheduleWritten(r)
          PROVE  req'[r].pc # "delete_free"
        BY <1>1, <2>4, FinishKeeps
        DEF CreateUnlocked, CreateUnlock, CancelFreed, CancelFree, RescheduleWritten,
            RescheduleWrite
    <2>5. ASSUME CancelStatusSent(r) \/ RescheduleSelected(r)
          PROVE  req'[r].pc # "delete_free"
        BY <1>1, <2>5
        DEF CancelStatusSent, CancelStatus, RescheduleSelected, RescheduleSelect, GoTo,
            Finish, Idle, Request
    <2>1. req'[r].pc # "delete_free"
        BY <1>6, <2>3, <2>4, <2>5
    <2>2. \/ call' = call
          \/ call'[r].code = c.code /\ call'[r].booking = c.booking
          \/ call'[r].code \in {404, 409}
        BY <1>1, <1>6
        DEF CreateChecked, CreateUnlocked, CancelStatusSent, CancelFreed,
            RescheduleChecked, RescheduleSelected, RescheduleWritten, Answers, Call
    <2>. QED
        BY <2>1, <2>2 DEF Deleted
<1>7. CASE Reread(r)
    <2>1. c.reread /\ req' = req /\ call'[r].code \in {200, 201, 404}
        BY <1>1, <1>7, RereadCloses DEF Reread, CallHonest, vars
    <2>. QED
        BY <1>1, <2>1 DEF CallHonest, Deleted
<1>8. ASSUME NEW b \in BookingId, CreateInserted(r, b)
      PROVE  FALSE
    <2>1. req'[r].pc = "unlock" /\ c.code = 0 /\ call'[r].code = c.code
        BY <1>1, <1>8
        DEF CreateInserted, CreateInsert, CallHonest, Call, Request
    <2>. QED
        BY <2>1 DEF Deleted
<1>9. CASE Fails(r)
    <2>1. req'[r].pc # "delete_free"
        BY <1>1, <1>9, GoToKeeps, FinishKeeps
        DEF Fails, Fail, vars, Pc, CreatePc, CallHonest
    <2>2. call'[r].booking = c.booking /\ call'[r].code \in {500, c.code}
        BY <1>1, <1>9, FailsCall
    <2>. QED
        BY <2>1, <2>2 DEF Deleted
<1>. QED
    BY <1>2, <1>3, <1>4, <1>5, <1>6, <1>7, <1>8, <1>9, OneCallMoves DEF Advances

LEMMA DeletedAloneNext ==
    CallInv /\ DeletedAlone /\ [AnswersNext]_answerVars => DeletedAlone'
<1>. SUFFICES ASSUME CallInv, DeletedAlone, [AnswersNext]_answerVars
              PROVE  DeletedAlone'
    OBVIOUS
<1>1. /\ BaseInv /\ RowsMinted /\ minted \subseteq BookingId /\ [Next]_vars
      /\ minted \subseteq minted'
    BY AnswersStep, MintedGrows DEF CallInv, AnyClientInv, BaseInv, TypeOK
<1>2. ASSUME NEW b \in minted, ~Exists(b)
      PROVE  ~Exists(b)'
    <2>1. b \in BookingId
        BY <1>1
    <2>2. ASSUME NEW r \in Req, CreateInsert(r, b)
          PROVE  FALSE
        BY <2>2 DEF CreateInsert
    <2>3. ASSUME NEW r \in Req, ConfirmBooking(r, b)
          PROVE  FALSE
        BY <1>2, <2>3 DEF ConfirmBooking
    <2>. QED
        BY <1>1, <1>2, <2>1, <2>2, <2>3, BookingRowMoves DEF Exists
<1>3. ASSUME NEW r \in Req, Deleted(r)'
      PROVE  call'[r].booking \in minted' /\ bookings'[call'[r].booking] = NoRow
    <2>. DEFINE b == call[r].booking
    <2>1. call'[r].booking = b
        BY <1>3, DeletedMoves
    <2>2. CASE Deleted(r)
        <3>1. b \in minted /\ ~Exists(b)
            BY <2>2 DEF DeletedAlone
        <3>. QED
            BY <1>1, <1>2, <2>1, <3>1 DEF Exists
    <2>3. CASE b \in BookingId /\ Exists(b) /\ bookings'[b] = NoRow
        BY <1>1, <2>1, <2>3 DEF RowsMinted, Exists
    <2>. QED
        BY <1>3, <2>2, <2>3, DeletedMoves
<1>4. ASSUME NEW r1 \in Req, NEW r2 \in Req, Deleted(r1)', Deleted(r2)',
             call'[r1].booking = call'[r2].booking
      PROVE  r1 = r2
    <2>1. call[r1].booking = call[r2].booking
        BY <1>4, DeletedMoves
    <2>2. CASE Deleted(r1) /\ Deleted(r2)
        BY <2>1, <2>2 DEF DeletedAlone
    <2>3. CASE ~(Deleted(r1) <=> Deleted(r2))
        BY <1>4, <2>1, <2>3, DeletedMoves DEF DeletedAlone
    <2>4. CASE ~Deleted(r1) /\ ~Deleted(r2)
        BY <1>4, <2>4, OneCallMoves DEF Deleted
    <2>. QED
        BY <2>2, <2>3, <2>4
<1>. QED
    BY <1>3, <1>4 DEF DeletedAlone, Exists

\* For any clients and any failures: a conflict has changed nothing, a success
\* has, and of the deletes of a booking, however they interleave with each other
\* and with creates, one at most is told it did it.
THEOREM CodesAreHonest == AnswersSpec => []CodeHonest
<1>1. AnswersInit => CallInv /\ DeletedAlone
    <2>1. ASSUME AnswersInit, NEW r \in Req
          PROVE  ~Deleted(r)
        BY <2>1 DEF AnswersInit, Init, Idle, NoCall, NewCall, Deleted
    <2>. QED
        BY <2>1, CallInvInit DEF DeletedAlone
<1>2. CallInv /\ DeletedAlone /\ [AnswersNext]_answerVars => (CallInv /\ DeletedAlone)'
    BY CallInvNext, DeletedAloneNext
<1>3. CallInv /\ DeletedAlone => CodeHonest
    BY DEF CallInv, CallHonest, DeletedAlone, Deleted, CodeHonest
<1>. QED
    BY <1>1, <1>2, <1>3, PTL DEF AnswersSpec

-----------------------------------------------------------------------------
(* What an answer is worth, for any clients.                               *)

\* The request r has written its booking and is not answered yet: what the last
\* read may find.
WriteSafe(r) ==
    LET c == call[r]
        b == c.booking
    IN
    c.wrote /\ c.code = 0 =>
        /\ b \in minted
        /\ Exists(b) =>
              /\ Lasting(c.op, bookings[b])
              /\ writer[b] = r => AsAsked(c.op, c.slot, bookings[b])

\* What its client has been told is true.
ToldTrue(r) ==
    LET c == call[r] IN
    /\ c.code = 404 /\ c.wrote => c.booking \in minted /\ ~Exists(c.booking)
    /\ c.code \in {200, 201} /\ c.op # "attend" =>
          /\ c.got # NoRow
          /\ Lasting(c.op, c.got)
          /\ c.own => AsAsked(c.op, c.slot, c.got)

AnswersTrue == \A r \in Req : WriteSafe(r) /\ ToldTrue(r)

AnswersInv == CallInv /\ HistoryTypeOK /\ AnswersTrue

\* A step that changes the row of a booking b is one that writes it for a
\* request q, leaves b to q in the history and moves the call of q.
WritesRow(q, b) ==
    /\ \/ ConfirmBooking(q, b)
       \/ req[q].booking = b /\ (CancelStatusSent(q) \/ RescheduleWritten(q))
    /\ writer'[b] = q
    /\ call'[q] # call[q]

LEMMA WhoWrites ==
    ASSUME CallInv, HistoryTypeOK, [AnswersNext]_answerVars, NEW b \in minted
    PROVE  \/ bookings'[b] = bookings[b] /\ writer'[b] = writer[b]
           \/ \E q \in Req : WritesRow(q, b)
           \/ bookings'[b] = NoRow
<1>1. /\ bookings \in [BookingId -> BookingRow \cup {NoRow}] /\ b \in BookingId
      /\ call \in [Req -> Call] /\ writer \in [BookingId -> Req \cup {NoReq}]
      /\ \A r \in Req : CallHonest(call[r], req[r])
      /\ TypeOK
    BY DEF CallInv, AnyClientInv, TypeOK, HistoryTypeOK
<1>2. CASE UNCHANGED <<bookings, writer>>
    BY <1>2
<1>3. ASSUME NEW r \in Req, ArrivesAt(r)
      PROVE  \/ UNCHANGED <<bookings, writer>>
             \/ \E x \in BookingId : ConfirmArrives(r, x)
    BY <1>3
    DEF ArrivesAt, CreateArrives, CancelArrives, DeleteArrives, AttendanceArrives,
        RescheduleArrives, RefusedAtOnce, vars, history, CreateLock, CancelGet, DeleteGet,
        CreateAttendance, RescheduleGet
<1>4. ASSUME NEW r \in Req, NEW x \in BookingId, ConfirmArrives(r, x)
      PROVE  (bookings'[b] = bookings[b] /\ writer'[b] = writer[b]) \/ WritesRow(r, b)
    <2>1. CASE RefusedAtOnce(r, "confirm", NoKey, NoSlot, x, 404)
        BY <2>1 DEF RefusedAtOnce, vars, history
    <2>. DEFINE d == NewCall("confirm", NoKey, NoSlot, x, 0, TRUE, TRUE)
    <2>2. CASE /\ ConfirmBooking(r, x) /\ ~InFlight(r) /\ Writes(r, x)
               /\ call' = [call EXCEPT ![r] = d]
        <3>1. d.reread = TRUE
            BY DEF NewCall
        <3>. HIDE DEF d
        <3>2. call'[r] # call[r]
            BY <1>1, <2>2, <3>1 DEF InFlight
        <3>3. bookings'[b] = bookings[b] \/ x = b
            BY <1>1, <2>2, StatusKeepsRow DEF ConfirmBooking
        <3>. QED
            BY <1>1, <2>2, <3>2, <3>3 DEF Writes, WritesRow
    <2>. QED
        BY <1>4, <2>1, <2>2 DEF ConfirmArrives
<1>5. ASSUME NEW r \in Req, NEW x \in BookingId, CreateInserted(r, x)
      PROVE  bookings'[b] = bookings[b] /\ writer'[b] = writer[b]
    BY <1>1, <1>5 DEF CreateInserted, CreateInsert
<1>6. ASSUME NEW r \in Req, CancelStatusSent(r) \/ RescheduleWritten(r)
      PROVE  (bookings'[b] = bookings[b] /\ writer'[b] = writer[b]) \/ WritesRow(r, b)
    <2>. DEFINE x == req[r].booking
    <2>1. req[r].pc \in {"cancel", "resch_write"} /\ x \in BookingId /\ ~call[r].wrote
        BY <1>1, <1>6
        DEF CancelStatusSent, CancelStatus, RescheduleWritten, RescheduleWrite, CallHonest,
            ReleasePc, ReschedulePc, CallInv, AnyClientInv, RequestShape
    <2>2. CASE UNCHANGED <<bookings, history>>
        BY <2>2 DEF history
    <2>3. CASE /\ Writes(r, x)
               /\ \/ call' = [call EXCEPT ![r].wrote = TRUE]
                  \/ call' = [call EXCEPT ![r].wrote = TRUE, ![r].reread = TRUE]
        <3>1. call'[r].wrote
            BY <1>1, <2>3 DEF Call
        <3>2. bookings'[b] = bookings[b] \/ x = b
            BY <1>1, <1>6, <2>1, StatusKeepsRow
            DEF CancelStatusSent, CancelStatus, RescheduleWritten, RescheduleWrite
        <3>. QED
            BY <1>1, <1>6, <2>1, <2>3, <3>1, <3>2 DEF Writes, WritesRow
    <2>. QED
        BY <1>6, <2>2, <2>3
        DEF CancelStatusSent, CancelStatus, RescheduleWritten
<1>7. ASSUME NEW r \in Req, DeleteRowSent(r)
      PROVE  (bookings'[b] = bookings[b] /\ writer'[b] = writer[b]) \/ bookings'[b] = NoRow
    BY <1>1, <1>7 DEF DeleteRowSent, DeleteRow, history
<1>8. ASSUME NEW r \in Req,
             \/ CreateChecked(r) \/ CreateUnlocked(r) \/ Reread(r) \/ CancelFreed(r)
             \/ DeleteFreed(r) \/ RescheduleChecked(r) \/ RescheduleSelected(r)
             \/ Fails(r)
      PROVE  UNCHANGED <<bookings, writer>>
    BY <1>8
    DEF CreateChecked, CreateCheck, CreateUnlocked, CreateUnlock, Reread, CancelFreed,
        CancelFree, DeleteFreed, DeleteFree, RescheduleChecked, RescheduleCheck,
        RescheduleSelected, RescheduleSelect, Fails, Fail, vars, history
<1>9. ASSUME NEW r \in Req, ArrivesAt(r) \/ Advances(r) \/ Fails(r)
      PROVE  \/ bookings'[b] = bookings[b] /\ writer'[b] = writer[b]
             \/ WritesRow(r, b)
             \/ bookings'[b] = NoRow
    BY <1>3, <1>4, <1>5, <1>6, <1>7, <1>8, <1>9 DEF Advances
<1>. QED
    BY <1>2, <1>9
    DEF AnswersNext, KeyExpires, LockExpire, SlotsGenerated, answerVars, vars, history

\* A row that is written keeps what lasts, and a booking that is gone stays gone.
LEMMA RowLasts ==
    ASSUME CallInv, HistoryTypeOK, [AnswersNext]_answerVars, NEW b \in minted, Exists(b)'
    PROVE  /\ Exists(b)
           /\ \A op : Lasting(op, bookings[b]) => Lasting(op, bookings'[b])
           /\ \/ bookings'[b] = bookings[b] /\ writer'[b] = writer[b]
              \/ \E q \in Req : writer'[b] = q /\ call'[q] # call[q]
<1>1. /\ bookings \in [BookingId -> BookingRow \cup {NoRow}] /\ b \in BookingId
      /\ TypeOK
    BY DEF CallInv, AnyClientInv, TypeOK
<1>2. CASE bookings'[b] = bookings[b] /\ writer'[b] = writer[b]
    BY <1>2 DEF Exists
<1>3. ASSUME NEW q \in Req, WritesRow(q, b)
      PROVE  /\ Exists(b)
             /\ \A op : Lasting(op, bookings[b]) => Lasting(op, bookings'[b])
    <2>1. ASSUME NEW status \in {"confirmed", "cancelled"}, Exists(b),
                 UpdateBookingStatus(b, status)
          PROVE  \A op : Lasting(op, bookings[b]) => Lasting(op, bookings'[b])
        BY <1>1, <2>1, StatusKeepsRow DEF Lasting
    <2>2. CASE ConfirmBooking(q, b)
        BY <2>1, <2>2 DEF ConfirmBooking
    <2>3. CASE req[q].booking = b /\ CancelStatusSent(q)
        <3>1. CASE Exists(b) /\ UpdateBookingStatus(b, "cancelled")
            BY <2>1, <3>1
        <3>2. CASE ~Exists(b) /\ UNCHANGED bookings
            BY <3>2 DEF Exists
        <3>. QED
            BY <2>3, <3>1, <3>2 DEF CancelStatusSent, CancelStatus
    <2>4. CASE req[q].booking = b /\ RescheduleWritten(q)
        <3>. DEFINE row == [bookings[b] EXCEPT !.slot = req[q].slot]
        <3>1. /\ Exists(b) /\ bookings[b] \in BookingRow /\ bookings'[b] = row
            BY <1>1, <2>4 DEF RescheduleWritten, RescheduleWrite, Exists
        <3>2. row.status = bookings[b].status /\ row.stamped = bookings[b].stamped
            BY <3>1 DEF BookingRow
        <3>. HIDE DEF row
        <3>. QED
            BY <3>1, <3>2 DEF Lasting
    <2>. QED
        BY <1>3, <2>2, <2>3, <2>4 DEF WritesRow
<1>. QED
    BY <1>2, <1>3, WhoWrites DEF WritesRow, Exists

\* A call that does not move keeps both.
LEMMA StillCallStaysTrue ==
    ASSUME AnswersInv, [AnswersNext]_answerVars, NEW r \in Req, call'[r] = call[r]
    PROVE  WriteSafe(r)' /\ ToldTrue(r)'
<1>. DEFINE c == call[r]
            b == c.booking
<1>1. /\ CallInv /\ HistoryTypeOK /\ WriteSafe(r) /\ ToldTrue(r)
      /\ minted \subseteq minted'
    BY AnswersStep, MintedGrows DEF AnswersInv, AnswersTrue
<1>2. WriteSafe(r)'
    <2>. SUFFICES ASSUME c.wrote, c.code = 0
                  PROVE  /\ b \in minted'
                         /\ Exists(b)' =>
                               /\ Lasting(c.op, bookings'[b])
                               /\ writer'[b] = r => AsAsked(c.op, c.slot, bookings'[b])
        BY DEF WriteSafe
    <2>1. b \in minted
        BY <1>1 DEF WriteSafe
    <2>2. ASSUME Exists(b)'
          PROVE  /\ Lasting(c.op, bookings'[b])
                 /\ writer'[b] = r => AsAsked(c.op, c.slot, bookings'[b])
        BY <1>1, <2>1, <2>2, RowLasts DEF WriteSafe
    <2>. QED
        BY <1>1, <2>1, <2>2
<1>3. ToldTrue(r)'
    <2>1. c.code = 404 /\ c.wrote => b \in minted' /\ ~Exists(b)'
        BY <1>1, RowLasts DEF ToldTrue
    <2>. QED
        BY <1>1, <2>1 DEF ToldTrue
<1>. QED
    BY <1>2, <1>3

\* A call that has just written the row, and has not been answered.
LEMMA OwnWriteIsSafe ==
    ASSUME NEW r \in Req, call'[r].code = 0, call'[r].booking \in minted',
           LET row == bookings'[call'[r].booking] IN
               row # NoRow => /\ Lasting(call'[r].op, row)
                              /\ AsAsked(call'[r].op, call'[r].slot, row)
    PROVE  WriteSafe(r)' /\ ToldTrue(r)'
BY DEF WriteSafe, ToldTrue, Exists

\* A call that was refused before it wrote, or whose outcome its client does
\* not learn, promises nothing.
LEMMA NothingTold ==
    ASSUME NEW r \in Req,
           \/ call'[r].code \in {0, 404, 409, 423} /\ ~call'[r].wrote
           \/ call'[r].code \in {204, 500}
    PROVE  WriteSafe(r)' /\ ToldTrue(r)'
BY DEF WriteSafe, ToldTrue

LEMMA ArrivedStaysTrue ==
    ASSUME AnswersInv, [AnswersNext]_answerVars, NEW r \in Req, Arrived(r)
    PROVE  WriteSafe(r)' /\ ToldTrue(r)'
<1>1. /\ TypeOK /\ RowsMinted /\ minted \subseteq minted'
      /\ call' \in [Req -> Call]
    BY AnswersStep, MintedGrows
    DEF AnswersInv, CallInv, AnyClientInv, Arrived, CallStep
<1>2. CASE call'[r].reread
    <2>1. PICK b \in BookingId : ConfirmBooking(r, b) /\ call'[r].booking = b
        BY <1>2 DEF Arrived
    <2>2. /\ call'[r].op = "confirm" /\ call'[r].code = 0
        BY <1>2 DEF Arrived, CallStep, CallHonest
    <2>3. b \in minted' /\ bookings'[b] # NoRow /\ bookings'[b].status = "confirmed"
        BY <1>1, <2>1, StatusKeepsRow DEF ConfirmBooking, RowsMinted
    <2>. QED
        BY <2>1, <2>2, <2>3, OwnWriteIsSafe DEF Lasting, AsAsked
<1>3. CASE ~call'[r].reread
    BY <1>1, <1>3 DEF Arrived, WriteSafe, ToldTrue, Call, Code
<1>. QED
    BY <1>2, <1>3

LEMMA AdvanceStaysTrue ==
    ASSUME AnswersInv, [AnswersNext]_answerVars, NEW r \in Req, Advances(r)
    PROVE  WriteSafe(r)' /\ ToldTrue(r)'
<1>. DEFINE c == call[r]
            d == call'[r]
            b == req[r].booking
<1>1. /\ CallInv /\ call \in [Req -> Call] /\ c \in Call /\ req \in [Req -> Request]
      /\ WriteSafe(r) /\ ToldTrue(r) /\ CallHonest(c, req[r]) /\ CallShape(c, req[r])
      /\ bookings \in [BookingId -> BookingRow \cup {NoRow}] /\ TypeOK
      /\ RequestShape /\ BusyMinted /\ minted \subseteq minted'
    BY AnswersStep, MintedGrows
    DEF AnswersInv, AnswersTrue, CallInv, AnyClientInv, TypeOK
<1>2. CASE d = c
    BY <1>2, StillCallStaysTrue
<1>3. CASE Reread(r)
    <2>. DEFINE x == c.booking
    <2>1. /\ c.reread /\ c.wrote /\ c.code = 0 /\ x \in minted /\ x \in BookingId
          /\ UNCHANGED <<bookings, minted>>
        BY <1>1, <1>3 DEF Reread, CallHonest, WriteSafe, vars
    <2>2. CASE Exists(x)
        <3>1. PICK code \in {200, 201} : Closes(r, code, bookings[x])
            BY <1>3, <2>2 DEF Reread
        <3>2. code \in Code /\ bookings[x] \in BookingRow \cup {NoRow}
            BY <1>1, <2>1 DEF Code
        <3>3. /\ d.op = c.op /\ d.slot = c.slot /\ d.code = code /\ d.got = bookings[x]
              /\ d.own = (writer[x] = r)
            BY <1>1, <3>1, <3>2, ClosesCall
        <3>4. /\ Lasting(c.op, bookings[x])
              /\ writer[x] = r => AsAsked(c.op, c.slot, bookings[x])
            BY <1>1, <2>1, <2>2 DEF WriteSafe
        <3>5. d.own => AsAsked(d.op, d.slot, d.got)
            <4>1. d.own => writer[x] = r
                BY <3>3
            <4>. QED
                BY <4>1, <3>3, <3>4
        <3>6. WriteSafe(r)'
            BY <3>1, <3>3 DEF WriteSafe
        <3>7. /\ d.code \in {200, 201} /\ d.got # NoRow
              /\ Lasting(d.op, d.got)
            BY <2>2, <3>1, <3>3, <3>4 DEF Exists
        <3>. QED
            BY <3>5, <3>6, <3>7 DEF ToldTrue
    <2>3. CASE ~Exists(x)
        <3>1. Closes(r, 404, NoRow) /\ 404 \in Code
            BY <1>3, <2>3 DEF Reread, Code
        <3>2. d.code = 404 /\ d.booking = x
            BY <1>1, <3>1, ClosesCall
        <3>. QED
            BY <2>1, <2>3, <3>2 DEF WriteSafe, ToldTrue, Exists
    <2>. QED
        BY <2>2, <2>3
<1>4. ASSUME NEW x \in BookingId, CreateInserted(r, x)
      PROVE  WriteSafe(r)' /\ ToldTrue(r)'
    <2>1. /\ c.op = "create" /\ c.code = 0 /\ c.slot = req[r].slot /\ req[r].slot \in SlotId
        BY <1>1, <1>4
        DEF CreateInserted, CreateInsert, CallShape, CallHonest, CreatePc, RequestShape
    <2>2. d.op = c.op /\ d.slot = c.slot /\ d.code = c.code /\ d.booking = x
        BY <1>1, <1>4 DEF CreateInserted, Call
    <2>3. bookings'[x] = NewBooking(req[r].slot) /\ x \in minted'
        BY <1>1, <1>4 DEF CreateInserted, CreateInsert
    <2>4. /\ NewBooking(req[r].slot).slot = req[r].slot
          /\ NewBooking(req[r].slot).status = "pending"
        BY DEF NewBooking
    <2>. QED
        BY <2>1, <2>2, <2>3, <2>4, OwnWriteIsSafe DEF Lasting, AsAsked
<1>5. CASE CancelStatusSent(r)
    <2>1. /\ c.op = "cancel" /\ c.booking = b /\ c.code = 0 /\ ~c.wrote
          /\ b \in BookingId /\ b \in minted
        BY <1>1, <1>5, BookingsAssumption
        DEF CancelStatusSent, CancelStatus, CallShape, CallHonest, ReleasePc, RequestShape,
            BusyMinted
    <2>2. CASE Exists(b) /\ call' = [call EXCEPT ![r].wrote = TRUE]
        <3>1. d.op = c.op /\ d.slot = c.slot /\ d.code = c.code /\ d.booking = b
            BY <1>1, <2>1, <2>2 DEF Call
        <3>2. bookings'[b].status = "cancelled" /\ bookings'[b].stamped
            BY <1>1, <1>5, <2>1, <2>2, StatusKeepsRow DEF CancelStatusSent, CancelStatus
        <3>. QED
            BY <1>1, <2>1, <3>1, <3>2, OwnWriteIsSafe DEF Lasting, AsAsked
    <2>3. CASE Answers(r, 404)
        BY <1>1, <2>1, <2>3, AnswersCall, NothingTold DEF Code
    <2>. QED
        BY <1>5, <2>2, <2>3 DEF CancelStatusSent
<1>6. CASE CancelFreed(r)
    <2>1. /\ d.op = c.op /\ d.slot = c.slot /\ d.code = c.code /\ d.booking = c.booking
          /\ d.wrote = c.wrote
        BY <1>1, <1>6 DEF CancelFreed, Call
    <2>2. c.code = 0 /\ c.wrote /\ UNCHANGED <<bookings, minted, writer>>
        BY <1>1, <1>6 DEF CancelFreed, CancelFree, CallHonest, history
    <2>. QED
        BY <1>1, <2>1, <2>2 DEF WriteSafe, ToldTrue, Exists
<1>7. CASE DeleteRowSent(r)
    <2>1. /\ c.booking = b /\ c.code = 0 /\ ~c.wrote /\ b \in BookingId /\ b \in minted
        BY <1>1, <1>7, BookingsAssumption
        DEF DeleteRowSent, DeleteRow, CallShape, CallHonest, ReleasePc, RequestShape,
            BusyMinted
    <2>2. CASE Exists(b) /\ b \notin attendance
        <3>1. /\ call' = [call EXCEPT ![r].wrote = TRUE] /\ bookings'[b] = NoRow
            BY <1>1, <1>7, <2>1, <2>2 DEF DeleteRowSent, DeleteRow
        <3>2. d.code = c.code /\ d.booking = b
            BY <1>1, <2>1, <3>1 DEF Call
        <3>. QED
            BY <1>1, <2>1, <3>1, <3>2, OwnWriteIsSafe
    <2>3. ASSUME NEW code \in {404, 500}, Answers(r, code)
          PROVE  WriteSafe(r)' /\ ToldTrue(r)'
        <3>1. code \in Code
            BY <2>3 DEF Code
        <3>2. d.code = code /\ d.wrote = c.wrote
            BY <1>1, <2>3, <3>1, AnswersCall
        <3>. QED
            BY <2>1, <2>3, <3>2, NothingTold
    <2>. QED
        BY <1>7, <2>2, <2>3 DEF DeleteRowSent
<1>8. CASE DeleteFreed(r)
    <2>1. PICK code \in {204, 500} : Answers(r, code)
        BY <1>8 DEF DeleteFreed
    <2>2. code \in Code
        BY <2>1 DEF Code
    <2>. QED
        BY <1>1, <2>1, <2>2, AnswersCall, NothingTold
<1>9. CASE RescheduleWritten(r)
    <2>1. /\ c.op = "reschedule" /\ c.booking = b /\ c.code = 0 /\ c.slot = req[r].slot
          /\ b \in BookingId /\ b \in minted
        BY <1>1, <1>9, BookingsAssumption
        DEF RescheduleWritten, RescheduleWrite, CallShape, CallHonest, ReschedulePc,
            RequestShape, BusyMinted
    <2>2. d.op = c.op /\ d.slot = c.slot /\ d.code = c.code /\ d.booking = b
        BY <1>1, <1>9, <2>1 DEF RescheduleWritten, Call
    <2>3. bookings'[b] # NoRow => bookings'[b].slot = req[r].slot
        <3>1. CASE Exists(b)
            <4>1. bookings'[b] = [bookings[b] EXCEPT !.slot = req[r].slot]
                BY <1>1, <1>9, <2>1, <3>1 DEF RescheduleWritten, RescheduleWrite
            <4>. QED
                BY <1>1, <2>1, <3>1, <4>1 DEF BookingRow, Exists
        <3>2. CASE ~Exists(b)
            BY <1>9, <3>2 DEF RescheduleWritten, RescheduleWrite, Exists
        <3>. QED
            BY <3>1, <3>2
    <2>. QED
        BY <1>1, <2>1, <2>2, <2>3, OwnWriteIsSafe DEF Lasting, AsAsked
<1>10. CASE CreateChecked(r) \/ RescheduleChecked(r) \/ RescheduleSelected(r)
    <2>1. ~c.wrote
        BY <1>1, <1>10
        DEF CreateChecked, CreateCheck, RescheduleChecked, RescheduleCheck,
            RescheduleSelected, RescheduleSelect, CallHonest, ReschedulePc
    <2>2. d = c \/ \E code \in {404, 409} : Answers(r, code)
        BY <1>10 DEF CreateChecked, RescheduleChecked, RescheduleSelected
    <2>3. ASSUME NEW code \in {404, 409}, Answers(r, code)
          PROVE  WriteSafe(r)' /\ ToldTrue(r)'
        <3>1. code \in Code
            BY <2>3 DEF Code
        <3>2. d.code = code /\ d.wrote = c.wrote
            BY <1>1, <2>3, <3>1, AnswersCall
        <3>. QED
            BY <2>1, <2>3, <3>2, NothingTold
    <2>. QED
        BY <1>2, <2>2, <2>3
<1>11. CASE CreateUnlocked(r)
    BY <1>2, <1>11 DEF CreateUnlocked
<1>. QED
    BY <1>3, <1>4, <1>5, <1>6, <1>7, <1>8, <1>9, <1>10, <1>11 DEF Advances

LEMMA FailStaysTrue ==
    ASSUME AnswersInv, [AnswersNext]_answerVars, NEW r \in Req, Fails(r)
    PROVE  WriteSafe(r)' /\ ToldTrue(r)'
<1>. DEFINE c == call[r]
            d == call'[r]
<1>1. /\ call \in [Req -> Call] /\ ToldTrue(r)
      /\ UNCHANGED <<bookings, minted>>
    BY DEF AnswersInv, AnswersTrue, CallInv, Fails, Fail, vars
<1>2. /\ d.op = c.op /\ d.slot = c.slot /\ d.booking = c.booking /\ d.wrote = c.wrote
      /\ d.got = c.got /\ d.own = c.own /\ d.code # 0
      /\ d.code = 500 \/ d.code = c.code
    BY <1>1, FailsCall
<1>. QED
    BY <1>1, <1>2 DEF WriteSafe, ToldTrue, Exists

LEMMA AnswersInvNext == AnswersInv /\ [AnswersNext]_answerVars => AnswersInv'
<1>. SUFFICES ASSUME AnswersInv, [AnswersNext]_answerVars
              PROVE  AnswersInv'
    OBVIOUS
<1>1. CallInv' /\ HistoryTypeOK'
    BY CallInvNext, HistoryTypeNext DEF AnswersInv
<1>2. ASSUME NEW r \in Req
      PROVE  WriteSafe(r)' /\ ToldTrue(r)'
    <2>1. \/ call'[r] = call[r]
          \/ Arrived(r) \/ Advances(r) \/ Fails(r)
        BY OneCallMoves DEF AnswersInv
    <2>. QED
        BY <2>1, StillCallStaysTrue, ArrivedStaysTrue, AdvanceStaysTrue, FailStaysTrue
<1>. QED
    BY <1>1, <1>2 DEF AnswersInv, AnswersTrue

LEMMA AnswersInvInit == AnswersInit => AnswersInv
<1>. SUFFICES ASSUME AnswersInit
              PROVE  AnswersInv
    OBVIOUS
<1>1. CallInv /\ HistoryTypeOK
    BY CallInvInit DEF AnswersInit, HistoryTypeOK
<1>2. NoCall.code = 0 /\ NoCall.wrote = FALSE
    BY DEF NoCall, NewCall
<1>3. \A r \in Req : call[r] = NoCall
    BY DEF AnswersInit
<1>. QED
    BY <1>1, <1>2, <1>3 DEF AnswersInv, AnswersTrue, WriteSafe, ToldTrue

\* For any clients and any failures: a client that was refused has changed
\* nothing, or has lost a race against a delete and its booking is gone for good.
THEOREM RefusalsLeaveNothing == AnswersSpec => []RefusalLeavesNothing
<1>1. AnswersInv => RefusalLeavesNothing
    BY DEF AnswersInv, AnswersTrue, CallInv, CallHonest, ToldTrue, RefusalLeavesNothing
<1>. QED
    BY AnswersInvInit, AnswersInvNext, <1>1, PTL DEF AnswersSpec

\* For any clients and any failures: between its write and its last read a
\* request may be crossed by others, yet what it shows has what the others
\* cannot take back, and is what was asked for unless one of them wrote it.
THEOREM SuccessesShowWhatWasAsked == AnswersSpec => []SuccessAsAsked
<1>1. AnswersInv => SuccessAsAsked
    BY DEF AnswersInv, AnswersTrue, ToldTrue, SuccessAsAsked
<1>. QED
    BY AnswersInvInit, AnswersInvNext, <1>1, PTL DEF AnswersSpec

-----------------------------------------------------------------------------
(* Slots that are lost.                                                    *)

\* A release that stops half way is recorded, or has freed its slot.
LEMMA ReleaseEnds ==
    ASSUME CallInv, [AnswersNext]_answerVars,
           NEW r \in Req, req[r].pc \in {"cancel_free", "delete_free"}
    PROVE  \/ req'[r] = req[r]
           \/ CancelFree(r) \/ DeleteFree(r)
           \/ req[r].booking \in cut'
<1>1. CallHonest(call[r], req[r])
    BY DEF CallInv
<1>2. CASE ArrivesAt(r)
    BY <1>2
    DEF ArrivesAt, CreateArrives, CancelArrives, DeleteArrives, ConfirmArrives,
        AttendanceArrives, RescheduleArrives, RefusedAtOnce, Opens, InFlight
<1>3. CASE Advances(r)
    BY <1>1, <1>3
    DEF Advances, CreateChecked, CreateCheck, CreateUnlocked, CreateUnlock, Reread,
        CreateInserted, CreateInsert, CancelStatusSent, CancelStatus, CancelFreed,
        DeleteRowSent, DeleteRow, DeleteFreed, RescheduleChecked, RescheduleCheck,
        RescheduleSelected, RescheduleSelect, RescheduleWritten, RescheduleWrite,
        CallHonest
<1>4. CASE Fails(r)
    BY <1>4 DEF Fails
<1>. QED
    BY <1>1, <1>2, <1>3, <1>4, OneCallMoves

\* What was cut off stays on record.
LEMMA CutGrows ==
    ASSUME [AnswersNext]_answerVars
    PROVE  cut \subseteq cut'
<1>1. ASSUME NEW r \in Req, ArrivesAt(r)
      PROVE  cut' = cut
    BY <1>1 DEF ArrivesAt, CreateArrives, CancelArrives, DeleteArrives, ConfirmArrives,
                AttendanceArrives, RescheduleArrives, RefusedAtOnce, Writes, history
<1>2. ASSUME NEW r \in Req, Advances(r)
      PROVE  cut' = cut
    BY <1>2 DEF Advances, CreateChecked, CreateUnlocked, Reread, CreateInserted,
                CancelStatusSent, CancelFreed, DeleteRowSent, DeleteFreed,
                RescheduleChecked, RescheduleSelected, RescheduleWritten, Writes,
                history
<1>3. ASSUME NEW r \in Req, Fails(r)
      PROVE  cut \subseteq cut'
    BY <1>3 DEF Fails
<1>. QED
    BY <1>1, <1>2, <1>3 DEF AnswersNext, KeyExpires, answerVars, history

LEMMA StrandedNext ==
    CarefulStep /\ CallInv /\ StrandedOnlyWhenCut /\ [AnswersNext]_answerVars
        => StrandedOnlyWhenCut'
<1>. SUFFICES ASSUME CarefulStep, CallInv, [AnswersNext]_answerVars, StrandedOnlyWhenCut, NEW s \in SlotId, NEW b \in BookingId,
                     slots'[s] = BookedBy(b)
              PROVE  \/ Live(b)' /\ bookings'[b].slot = s
                     \/ \E r \in Req : /\ req'[r].pc \in {"cancel_free", "delete_free"}
                                       /\ req'[r].booking = b /\ req'[r].seen = s
                     \/ b \in cut'
    BY DEF StrandedOnlyWhenCut, BookedBy
<1>2. CASE /\ slots[s] = BookedBy(b) /\ ~Live(b)
           /\ \A r \in Req : req[r].seen = s => ~CancelFree(r) /\ ~DeleteFree(r)
    <2>1. ASSUME NEW r \in Req, req[r].pc \in {"cancel_free", "delete_free"},
                 req[r].booking = b, req[r].seen = s
          PROVE  req'[r] = req[r] \/ b \in cut'
        BY <1>2, <2>1, ReleaseEnds
    <2>. QED
        BY <1>2, <2>1, CutGrows DEF StrandedOnlyWhenCut
<1>. QED
    BY <1>2, StaysBooked

\* For careful clients a slot stays booked without a live booking only where a
\* request was cut off between the two statements of a release: no order of
\* cancels, deletes, reschedules and creates loses a slot by itself.
THEOREM SlotsAreLostOnlyWhenCut ==
    CarefulService => (AnswersSpec => []StrandedOnlyWhenCut)
<1>. SUFFICES ASSUME CarefulService
              PROVE  AnswersSpec => []StrandedOnlyWhenCut
    OBVIOUS
<1>. DEFINE LostInv == CallInv /\ CarefulInv /\ StrandedOnlyWhenCut
<1>1. AnswersInit => LostInv
    BY CallInvInit, CarefulInit, BookedIsNotFree
    DEF AnswersInit, Init, StrandedOnlyWhenCut
<1>2. LostInv /\ [AnswersNext]_answerVars => LostInv'
    BY AnswersStep, CallInvNext, CarefulNext, StrandedNext DEF CarefulStep
<1>. QED
    BY <1>1, <1>2, PTL DEF AnswersSpec

=============================================================================
