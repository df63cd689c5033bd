---------------------------- MODULE MCUserAdmin ----------------------------
(* Small instances of UserAdmin for TLC. *)
EXTENDS UserAdmin, TLC

CONSTANTS ana, boris, ivan

\* Ana is an admin, Boris an admin too unless he is absent, Ivan an employee.
TwoAdmins ==
  [u \in User |-> [role |-> IF u = ivan THEN "employee" ELSE "fleet_admin", active |-> TRUE]]
OneAdmin ==
  [u \in User |-> IF u = ana THEN [role |-> "fleet_admin", active |-> TRUE]
                  ELSE IF u = boris THEN Absent
                  ELSE [role |-> "employee", active |-> TRUE]]

EveryBatch == SUBSET User \ {{}}
=============================================================================
