--------------------------- MODULE MCReservations ---------------------------
(* Small instances of Reservations and of what is shown of it, for TLC. *)
EXTENDS PublicPages, TLC

CONSTANTS ivan, maria, approver, reception, admin

\* The five accounts of the workflow tests, or as many of them as the cfg has.
AccountRole ==
  ivan :> "employee" @@ maria :> "employee" @@ approver :> "fleet_approver"
    @@ reception :> "fleet_reception" @@ admin :> "fleet_admin"
MCInitialRole == [u \in User |-> AccountRole[u]]
=============================================================================
