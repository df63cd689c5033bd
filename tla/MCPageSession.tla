---------------------------- MODULE MCPageSession ----------------------------
(* Small instances of PageSession, for TLC. *)
EXTENDS PageSession

CONSTANTS ann, per, eve    \* an admin, an approver, an employee

MCFirstRole == [u \in {ann, per, eve} |->
                  CASE u = ann -> "fleet_admin" [] u = per -> "fleet_approver"
                    [] OTHER -> "employee"]

\* Every part is watched with others of another kind.
MCWatched == {{"cars", "blackouts", "telemetry"}, {"users", "audit"},
              {"reservations", "pulse", "preferences"}, {"notifications", "intelligence"},
              {"netfleet", "suggested", "overview"}, {"readiness", "pickup", "handoff"}}
MCUsers   == {{"users"}}
MCDesk    == {{"reservations"}}
=============================================================================
