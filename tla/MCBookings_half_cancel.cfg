CONSTANTS
    Req = {r1}
    SlotId = {s1}
    BookingId = {b1, b2}
    t1 = t1
    Teacher <- OneTeacher
    TeacherOf <- SameTeacher
    Ops <- CreateCancel
    Careful = TRUE
    Prompt = TRUE
    Faulty = {r1}
    NoSlot = NoSlot
    NoBooking = NoBooking
    NoRow = NoRow
SPECIFICATION Spec
INVARIANTS NoStrandedSlot
CHECK_DEADLOCK FALSE
