CONSTANTS
    Req = {r1}
    SlotId = {s1}
    BookingId = {b1, b2}
    t1 = t1
    k1 = k1
    s1 = s1
    Teacher <- OneTeacher
    TeacherOf <- SameTeacher
    Ops <- CreatesOnly
    Careful = TRUE
    Prompt = TRUE
    Faulty = {r1}
    Key <- OneKey
    SlotOfKey <- KeyForOne
    NoSlot = NoSlot
    NoBooking = NoBooking
    NoRow = NoRow
    NoKey = NoKey
    NoOp = NoOp
    NoReq = NoReq
SPECIFICATION AnswersSpec
INVARIANTS RetryServed
CHECK_DEADLOCK FALSE
