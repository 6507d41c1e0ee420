----------------------------- MODULE MCBookings -----------------------------
(***************************************************************************)
(* Bookings for TLC: one teacher, and slots, bookings and requests that    *)
(* are interchangeable.                                                    *)
(***************************************************************************)
EXTENDS Bookings, TLC

CONSTANT t1

OneTeacher == {t1}
SameTeacher == [s \in SlotId |-> t1]

Everything == Endpoints
CreateReschedule == {"create", "reschedule"}
CreatesOnly == {"create"}
CreateCancel == {"create", "cancel"}

Interchangeable ==
    Permutations(Req) \cup Permutations(SlotId) \cup Permutations(BookingId)
=============================================================================
