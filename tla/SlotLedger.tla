----------------------------- MODULE SlotLedger -----------------------------
(***************************************************************************)
(* What the booking endpoints promise a client, with every request taking  *)
(* effect at one instant: a timetable slot is held by at most one booking, *)
(* a booking holds at most one slot, and a booking that let go of its slot *)
(* never holds one again.  Bookings.tla is checked, and for one class of   *)
(* clients proved, against this module.                                    *)
(***************************************************************************)
CONSTANTS
    SlotId,      \* ids of timetable slots
    BookingId,   \* ids of bookings (uuid_generate_v4, so never reused)
    NoSlot       \* "holds nothing"

VARIABLES
    held,        \* the slot each booking holds, or NoSlot
    minted       \* the bookings that were ever made

ledgerVars == <<held, minted>>

Unheld(s) == \A b \in BookingId : held[b] # s

Init ==
    /\ held = [b \in BookingId |-> NoSlot]
    /\ minted = {}

\* POST /bookings
Book(b, s) ==
    /\ b \notin minted
    /\ Unheld(s)
    /\ held' = [held EXCEPT ![b] = s]
    /\ minted' = minted \cup {b}

\* PUT /bookings/{id}/cancel and DELETE /bookings/{id}
Release(b) ==
    /\ held[b] # NoSlot
    /\ held' = [held EXCEPT ![b] = NoSlot]
    /\ UNCHANGED minted

\* POST /bookings/reschedule
Move(b, s) ==
    /\ held[b] # NoSlot
    /\ Unheld(s)
    /\ held' = [held EXCEPT ![b] = s]
    /\ UNCHANGED minted

Next ==
    \E b \in BookingId :
        \/ Release(b)
        \/ \E s \in SlotId : Book(b, s) \/ Move(b, s)

Spec == Init /\ [][Next]_ledgerVars
=============================================================================
