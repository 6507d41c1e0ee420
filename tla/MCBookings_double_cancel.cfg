CONSTANTS
    Req = {r1}
    SlotId = {s1}
    BookingId = {b1, b2, b3}
    t1 = t1
    Teacher <- OneTeacher
    TeacherOf <- SameTeacher
    Ops <- CreateCancel
    Careful = FALSE
    Prompt = TRUE
    Faulty = {}
    NoSlot = NoSlot
    NoBooking = NoBooking
    NoRow = NoRow
SPECIFICATION Spec
INVARIANTS NoDoubleBooking
CHECK_DEADLOCK FALSE
