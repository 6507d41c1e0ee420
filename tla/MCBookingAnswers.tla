--------------------------- MODULE MCBookingAnswers ---------------------------
(***************************************************************************)
(* BookingAnswers for TLC: one teacher; requests, slots and bookings are   *)
(* interchangeable where no key ties a slot.                               *)
(***************************************************************************)
EXTENDS BookingAnswers, TLC

CONSTANTS t1, k1, s1

OneTeacher == {t1}
SameTeacher == [s \in SlotId |-> t1]
NoKeys == {}
NoKeySlots == [k \in {} |-> s1]
OneKey == {k1}
KeyForOne == [k \in {k1} |-> s1]

Everything == Endpoints
Core == {"create", "cancel", "confirm", "delete"}
CreatesOnly == {"create"}

Interchangeable ==
    Permutations(Req) \cup Permutations(SlotId) \cup Permutations(BookingId)
=============================================================================
