CONSTANTS
    Req = {r1, r2, r3}
    SlotId = {s1, s2}
    BookingId = {b1, b2, b3}
    t1 = t1
    Teacher <- OneTeacher
    TeacherOf <- SameTeacher
    Ops <- Everything
    Careful = TRUE
    Prompt = TRUE
    Faulty = {r1, r2, r3}
    NoSlot = NoSlot
    NoBooking = NoBooking
    NoRow = NoRow
SPECIFICATION Spec
SYMMETRY Interchangeable
INVARIANTS NoDoubleBooking LiveHoldsSlot OneSlotEach LockExclusion CarefulInv
PROPERTIES ImplementsLedger
CHECK_DEADLOCK FALSE
