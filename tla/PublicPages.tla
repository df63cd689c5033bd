---------------------------- MODULE PublicPages ----------------------------
(***************************************************************************)
(* What FleetFlow shows of its bookings to anybody, before a login: the    *)
(* counts of GET /public/overview (app.py).  The endpoint reads them in    *)
(* four statements; here they are read between two handlers, so that what  *)
(* is wrong with them is wrong at rest.                                    *)
(***************************************************************************)
EXTENDS Integers, Reservations

RowsShownAs(statuses) ==
  {r \in ReservationIds : PresentationStatus(reservations[r]) \in statuses}

PublicOverview ==
  LET activeCars  == Cardinality({c \in Car : cars[c] = "active"})
      activeTrips == Cardinality(RowsShownAs({"checked_out"}))
      unavailable == Cardinality({reservations[r].car : r \in RowsShownAs({"approved", "checked_out"})})
      free        == activeCars - unavailable
  IN  [active_cars       |-> activeCars,
       pending_requests  |-> Cardinality(RowsShownAs({"pending"})),
       approved_handoffs |-> unavailable - activeTrips,
       active_trips      |-> activeTrips,
       available_cars    |-> IF free > 0 THEN free ELSE 0]

\* The hero bar shows counts.  approved_handoffs is a difference of two: the
\* cars with an approved reservation less the trips that are out; it is a count
\* as long as a car is out on one trip at a time.
HandoffsAreACount == PublicOverview.approved_handoffs \in Nat
=============================================================================
