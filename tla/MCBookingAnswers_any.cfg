CONSTANTS
    Req = {r1, r2}
    SlotId = {s1, s2}
    BookingId = {b1}
    t1 = t1
    k1 = k1
    s1 = s1
    Teacher <- OneTeacher
    TeacherOf <- SameTeacher
    Ops <- Everything
    Careful = FALSE
    Prompt = FALSE
    Faulty = {r1, r2}
    Key <- NoKeys
    SlotOfKey <- NoKeySlots
    NoSlot = NoSlot
    NoBooking = NoBooking
    NoRow = NoRow
    NoKey = NoKey
    NoOp = NoOp
    NoReq = NoReq
SPECIFICATION AnswersSpec
SYMMETRY Interchangeable
INVARIANTS AnyClientInv BookingSlotExists AttendanceHasBooking CodeHonest  
CHECK_DEADLOCK FALSE
