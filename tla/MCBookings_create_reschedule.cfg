CONSTANTS
    Req = {r1, r2}
    SlotId = {s1, s2}
    BookingId = {b1, b2}
    t1 = t1
    Teacher <- OneTeacher
    TeacherOf <- SameTeacher
    Ops <- CreateReschedule
    Careful = FALSE
    Prompt = TRUE
    Faulty = {}
    NoSlot = NoSlot
    NoBooking = NoBooking
    NoRow = NoRow
SPECIFICATION Spec
INVARIANTS NoDoubleBooking
CHECK_DEADLOCK FALSE
