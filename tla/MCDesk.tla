------------------------------- MODULE MCDesk -------------------------------
(* Small instances of Desk, for TLC. *)
EXTENDS TLC, Desk

CONSTANTS ana, boris, golf, polo, lada

\* Three bookings: a short one, one of two days that leaves a day between them
\* free, and one more when the car is back.
MCBooking ==
  1 :> [car |-> golf, owner |-> ana, start |-> 0, end |-> 1] @@
  2 :> [car |-> golf, owner |-> ana, start |-> 4, end |-> 6] @@
  3 :> [car |-> polo, owner |-> ana, start |-> 6, end |-> 7]

MCVisitor ==
  {[user |-> ana, role |-> "employee"]} \cup
  [user : {boris}, role : {"fleet_admin", "fleet_approver", "fleet_reception"}]

\* A trip behind an old one, with a request still to be made; two trips to hand
\* over behind one that is out; and, for those with one rail at most, two requests.
MCGiven ==
  [visitor \in MCVisitor |->
    {<<"none", "returned", "approved">>, <<"checked_out", "approved", "approved">>} \cup
    IF visitor.role = "fleet_admin" THEN {} ELSE {<<"pending", "pending", "none">>}]

MCCars == golf :> TRUE @@ polo :> TRUE @@ lada :> FALSE

MCRailSize == [role \in Role |-> 1]
=============================================================================
