CONSTANTS
    Req = {r1, r2}
    SlotId = {s1}
    BookingId = {b1, b2}
    t1 = t1
    k1 = k1
    s1 = s1
    Teacher <- OneTeacher
    TeacherOf <- SameTeacher
    Ops <- Core
    Careful = TRUE
    Prompt = TRUE
    Faulty = {r1, r2}
    Key <- NoKeys
    SlotOfKey <- NoKeySlots
    NoSlot = NoSlot
    NoBooking = NoBooking
    NoRow = NoRow
    NoKey = NoKey
    NoOp = NoOp
    NoReq = NoReq
SPECIFICATION AnswersFairSpec
INVARIANTS AnswersTypeOK StrandedOnlyWhenCut
PROPERTIES AnswerComes LockReleased SlotGivenBack
CHECK_DEADLOCK FALSE
