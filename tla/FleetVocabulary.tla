-------------------------- MODULE FleetVocabulary --------------------------
(***************************************************************************)
(* The words every FleetFlow module shares: the four roles and what each   *)
(* may do (security.py), the lifecycle of a reservation as it is stored    *)
(* and as the API presents it, and when two time windows collide           *)
(* (routers/reservations.py).                                              *)
(*                                                                         *)
(* Times are natural numbers.  The code stores ISO-8601 strings normalised *)
(* to UTC by _to_utc_iso, whose string order is their time order.          *)
(***************************************************************************)
EXTENDS Naturals

Role == {"employee", "fleet_approver", "fleet_reception", "fleet_admin"}

\* require_admin, require_approver, require_reception and require_employee.
AdminRoles     == {"fleet_admin"}
DecisionRoles  == {"fleet_admin", "fleet_approver"}
ReceptionRoles == {"fleet_admin", "fleet_reception"}
EmployeeRoles  == {"employee"}

\* The values of reservations.status.  "Checked out" and "returned" are not
\* among them: they are the timestamps checked_out_at and returned_at.
StoredStatus == {"pending", "approved", "rejected", "cancelled"}

\* What the API calls the status of a reservation.
PresentationStatus(row) ==
  CASE row.status # "approved"                -> row.status
    [] row.status = "approved" /\ row.returned -> "returned"
    [] row.status = "approved" /\ ~row.returned /\ row.checkedOut -> "checked_out"
    [] OTHER                                  -> "approved"

\* The rows _reservation_conflict_rows counts: those that hold their slot.
Holds(row) ==
  \/ row.status = "pending"
  \/ row.status = "approved" /\ ~row.returned

\* start_time < ? AND end_time > ?: half-open windows that share a moment.
Overlap(w1, w2) == w1.start < w2.end /\ w1.end > w2.start
=============================================================================
