--------------------------- MODULE MCTransactions ---------------------------
(***************************************************************************)
(* Transactions for TLC: two requests, two slots and two bookings, enough  *)
(* for two reschedules that go opposite ways.  Cancel is left out to keep  *)
(* the run short: its UPDATE of the booking meets the locks that those of  *)
(* confirm and delete meet, its UPDATE of the slot those of delete.        *)
(***************************************************************************)
EXTENDS Transactions, TLC

CONSTANT t1

OneTeacher == {t1}
SameTeacher == [s \in SlotId |-> t1]
InTransactions == Endpoints \ {"cancel"}

Interchangeable ==
    Permutations(Req) \cup Permutations(SlotId) \cup Permutations(BookingId)
=============================================================================
