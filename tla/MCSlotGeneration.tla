-------------------------- MODULE MCSlotGeneration --------------------------
(***************************************************************************)
(* SlotGeneration for TLC: days of four ticks, date 5 is a Friday.         *)
(***************************************************************************)
EXTENDS SlotGeneration, TLC

FourTicks == 4

\* A Friday and a Saturday in one-tick slots; a longer slot, days spelt in numbers and
\* one text that is no day; end before start; durations and switches that refuse.
WeekEnd ==
    [days |-> {"friday", "saturday", "7"}, start |-> 1, end |-> 3, dur |-> 1,
     first |-> 5, last |-> 6, enabled |-> TRUE]
Numbers == [WeekEnd EXCEPT !.days = {"6", "0", "weekend"}, !.start = 0, !.dur = 2, !.last = 8]
Long == [WeekEnd EXCEPT !.days = {"6"}, !.dur = 2]
Backwards == [WeekEnd EXCEPT !.start = 3, !.end = 1]
ZeroDuration == [WeekEnd EXCEPT !.dur = 0]
Disabled == [WeekEnd EXCEPT !.enabled = FALSE]

ManyRows == {WeekEnd, Numbers, Long, Backwards, ZeroDuration, Disabled}
OneRow == {WeekEnd}

At(date, tod, off) == [date |-> date, tod |-> tod, off |-> off]
From(m1, m2) == [from |-> m1, to |-> m2, form |-> "rfc3339"]

\* Within and across the template's dates, the former in a zone of its own; out
\* of order; and in bare dates, as in the API description.
OneZone ==
    {From(At(6, 2, 1), At(7, 1, 1)), From(At(1, 0, 0), At(9, 3, 0)),
     From(At(6, 1, 0), At(6, 0, 0)),
     [from |-> At(5, 0, 0), to |-> At(7, 0, 0), form |-> "date"]}

\* The end of the window is given in a zone that is ahead of its start's.
TwoZones == {From(At(6, 2, 0), At(7, 0, 1))}
=============================================================================
