CONSTANTS
    Req = {r1, r2}
    SlotId = {s1, s2}
    BookingId = {b1, b2}
    t1 = t1
    Teacher <- OneTeacher
    TeacherOf <- SameTeacher
    Ops <- InTransactions
    Careful = FALSE
    Prompt = FALSE
    Faulty = {r1, r2}
    NoSlot = NoSlot
    NoBooking = NoBooking
    NoRow = NoRow
SPECIFICATION TxSpec
SYMMETRY Interchangeable
INVARIANTS TxTypeOK ImageCurrent HoldersAtWork
PROPERTIES ImplementsBookings
CHECK_DEADLOCK FALSE
