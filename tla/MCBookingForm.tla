---------------------------- MODULE MCBookingForm ----------------------------
(* Small instances of BookingForm, for TLC. *)
EXTENDS BookingForm

Booked(k, c, f, t) == [kind |-> k, car |-> c, from |-> f, to |-> t]

\* A long reservation with a blackout inside it, and a blackout of the other car.
MCRepair == Booked("blackout", 1, 2, 3)
MCGiven  == {{Booked("reservation", 1, 1, 4), MCRepair, Booked("blackout", 2, 2, 3)}}
MCOthers == {Booked("reservation", 2, 3, 4)}

\* Two windows back to back: the end of the first is no free slot.
MCBackToBack == {{MCRepair, Booked("blackout", 1, 3, 4)}}

\* The first window has begun when the page opens, as it has where local time is
\* ahead of UTC.
MCDayWindow   == [from |-> 2, to |-> 3]
MCFirstWindow == [from |-> 0, to |-> 2]
MCHabit       == [car |-> 2, from |-> 3, to |-> 4]
=============================================================================
