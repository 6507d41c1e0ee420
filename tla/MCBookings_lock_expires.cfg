CONSTANTS
    Req = {r1, r2}
    SlotId = {s1}
    BookingId = {b1, b2}
    t1 = t1
    Teacher <- OneTeacher
    TeacherOf <- SameTeacher
    Ops <- CreatesOnly
    Careful = TRUE
    Prompt = FALSE
    Faulty = {}
    NoSlot = NoSlot
    NoBooking = NoBooking
    NoRow = NoRow
SPECIFICATION Spec
INVARIANTS NoDoubleBooking
CHECK_DEADLOCK FALSE
