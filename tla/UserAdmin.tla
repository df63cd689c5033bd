----------------------------- MODULE UserAdmin -----------------------------
(***************************************************************************)
(* Administration of accounts: the users and user_audit_log tables and     *)
(* every endpoint of routers/users.py that writes them.                    *)
(*                                                                         *)
(* import_employees, change_user_role, update_user_contact,                *)
(* reset_user_password and handoff_admin are one transaction each, hence   *)
(* one step (BEGIN IMMEDIATE on SQLite).  create_user, deactivate_user and *)
(* activate_user run their statements in autocommit mode: the change of    *)
(* the row, its audit row and, for a deactivation, the count of admins     *)
(* that allows it are steps of their own (variable requests).              *)
(*                                                                         *)
(* As everywhere, the role of the actor was read before the handler runs:  *)
(* admins holds everybody some request in flight may still take for one.   *)
(* Passwords, names and contact data are left out.                         *)
(***************************************************************************)
EXTENDS Sequences, FiniteSets, FleetVocabulary

CONSTANTS
  User,         \* users.id, of existing accounts and of those to come
  InitialUser,  \* the users table at the start
  Absent,       \* no row
  Request,      \* requests of the three autocommit endpoints in flight at once
  ImportBatch,  \* the tables of employees an admin may paste
  CanCrash,     \* whether the process may die between two statements
  MaxChanges    \* bound on the number of changes

Account == [role : Role, active : BOOLEAN]

ASSUME InitialUserAssumption == InitialUser \in [User -> Account \cup {Absent}]
ASSUME UserAssumption        == IsFiniteSet(User)
ASSUME AbsentAssumption      == Absent \notin Account
ASSUME ImportAssumption      == ImportBatch \subseteq SUBSET User
ASSUME ChangesAssumption     == MaxChanges \in Nat /\ CanCrash \in BOOLEAN

VARIABLES
  users,      \* users: role and active flag
  admins,     \* the admins of the AuthContexts in flight
  userAudit,  \* user_audit_log, the rows of each target in id order
  requests,   \* what the autocommit endpoints have yet to do
  changes     \* how many changes were made (bounded)

vars == <<users, admins, userAudit, requests, changes>>

UserAction ==
  {"created", "activated", "deactivated", "role_changed", "handoff_admin", "contact_updated",
   "password_reset", "employee_import_created", "employee_import_updated"}
AuditRow == [actor : User, action : UserAction]
Idle == [stage |-> "idle", user |-> Absent]
Pending == [stage : {"deactivating", "logging"}, actor : User, user : User, action : UserAction]

TypeOK ==
  /\ users \in [User -> Account \cup {Absent}]
  /\ admins \subseteq User
  /\ userAudit \in [User -> Seq(AuditRow)]
  /\ requests \in [Request -> {Idle} \cup Pending]
  /\ changes \in Nat

IsActiveAdmin(row) == row # Absent /\ row.role = "fleet_admin" /\ row.active
ActiveAdmins(table) == {u \in User : IsActiveAdmin(table[u])}

\* Mutant: inactive admins count.
MutantAdminCount == Cardinality({u \in User : users[u] # Absent /\ users[u].role = "fleet_admin"})

\* SELECT COUNT(*) FROM users WHERE role = 'fleet_admin' AND active = 1.
ActiveAdminCount == Cardinality(ActiveAdmins(users))

Exists(u) == users[u] # Absent
-----------------------------------------------------------------------------
Init ==
  /\ users = InitialUser
  /\ admins = ActiveAdmins(users)
  /\ userAudit = [u \in User |-> <<>>]
  /\ requests = [rq \in Request |-> Idle]
  /\ changes = 0

\* One change of the table by an actor that passed require_admin.
Change(actor, table) ==
  /\ actor \in admins
  /\ changes < MaxChanges
  /\ changes' = changes + 1
  /\ users' = table
  /\ admins' = admins \cup ActiveAdmins(table)

\* Mutant: actor_id and action in the wrong order.
MutantLogSwapped(targets, actor, action) ==
  userAudit' = [u \in User |->
    IF u \in targets THEN Append(userAudit[u], [actor |-> action, action |-> actor]) ELSE userAudit[u]]

Log(targets, actor, action) ==
  userAudit' = [u \in User |->
    IF u \in targets THEN Append(userAudit[u], [actor |-> actor, action |-> action]) ELSE userAudit[u]]

\* The first statement is through, the audit row is still to come.
LogLater(rq, actor, u, action) ==
  /\ requests' = [requests EXCEPT
        ![rq] = [stage |-> "logging", actor |-> actor, user |-> u, action |-> action]]
  /\ UNCHANGED userAudit

(* The endpoints that are not transactions *)

CreateUser(rq, actor, u, role) ==
  /\ requests[rq].stage = "idle"
  /\ ~Exists(u)
  /\ Change(actor, [users EXCEPT ![u] = [role |-> role, active |-> TRUE]])
  /\ LogLater(rq, actor, u, "created")

ActivateUser(rq, actor, u) ==
  /\ requests[rq].stage = "idle"
  /\ Exists(u) /\ ~users[u].active
  /\ Change(actor, [users EXCEPT ![u].active = TRUE])
  /\ LogLater(rq, actor, u, "activated")

\* The first connection of deactivate_user: may this admin go?
CheckDeactivation(rq, actor, u) ==
  /\ requests[rq].stage = "idle"
  /\ actor \in admins
  /\ changes < MaxChanges
  /\ u = actor \/ IsActiveAdmin(users[u]) => ActiveAdminCount > 1
  /\ requests' = [requests EXCEPT
        ![rq] = [stage |-> "deactivating", actor |-> actor, user |-> u, action |-> "deactivated"]]
  /\ UNCHANGED <<users, admins, userAudit, changes>>

\* The second one: UPDATE ... WHERE id = ? AND active = 1, else a 404.
DeactivateUser(rq) ==
  LET u == requests[rq].user
  IN  /\ requests[rq].stage = "deactivating"
      /\ IF Exists(u) /\ users[u].active
           THEN /\ Change(requests[rq].actor, [users EXCEPT ![u].active = FALSE])
                /\ LogLater(rq, requests[rq].actor, u, "deactivated")
           ELSE /\ requests' = [requests EXCEPT ![rq] = Idle]
                /\ UNCHANGED <<users, admins, userAudit, changes>>

\* The last statement of all three.
LogAction(rq) ==
  /\ requests[rq].stage = "logging"
  /\ Log({requests[rq].user}, requests[rq].actor, requests[rq].action)
  /\ requests' = [requests EXCEPT ![rq] = Idle]
  /\ UNCHANGED <<users, admins, changes>>

\* The process dies and is started again: what was committed stays.
Crash ==
  /\ CanCrash
  /\ requests' = [rq \in Request |-> Idle]
  /\ admins' = ActiveAdmins(users)
  /\ UNCHANGED <<users, userAudit, changes>>

(* The endpoints that are *)

\* POST /users/{id}/role.
ChangeUserRole(actor, u, role) ==
  /\ Exists(u)
  /\ users[u].role # role
  /\ IsActiveAdmin(users[u]) => ActiveAdminCount > 1
  /\ Change(actor, [users EXCEPT ![u].role = role])
  /\ Log({u}, actor, "role_changed")
  /\ UNCHANGED requests

\* Mutant: only the branch that inserts a row logs it.
MutantImportLogsNew(actor, batch) ==
  /\ Change(actor, [u \in User |->
        IF u \in batch THEN [role |-> "employee", active |-> TRUE] ELSE users[u]])
  /\ Log({u \in batch : ~Exists(u)}, actor, "employee_import_created")
  /\ UNCHANGED requests

\* POST /users/import-employees: whoever is in the pasted table, by display name
\* or user name, becomes an active employee, admins included.
ImportEmployees(actor, batch) ==
  /\ Change(actor, [u \in User |->
        IF u \in batch THEN [role |-> "employee", active |-> TRUE] ELSE users[u]])
  /\ userAudit' = [u \in User |->
        IF u \in batch
          THEN Append(userAudit[u], [actor |-> actor,
                 action |-> IF Exists(u) THEN "employee_import_updated" ELSE "employee_import_created"])
          ELSE userAudit[u]]
  /\ UNCHANGED requests

\* POST /users/{id}/handoff-admin.  The rows of both are read back for the answer.
HandoffAdmin(actor, u, demoteSelf) ==
  /\ u # actor
  /\ Exists(u) /\ users[u].active
  /\ Exists(actor)
  /\ Change(actor, [v \in User |->
        CASE v = u                   -> [users[v] EXCEPT !.role = "fleet_admin"]
          [] v = actor /\ demoteSelf -> [users[v] EXCEPT !.role = "employee"]
          [] OTHER                   -> users[v]])
  /\ Log({u}, actor, "handoff_admin")
  /\ UNCHANGED requests

\* PUT /users/{id}/contact of any account, POST /users/{id}/reset-password of an
\* active one: nothing modelled here changes but the trail.
Administer(actor, u, action) ==
  /\ Exists(u)
  /\ action = "password_reset" => users[u].active
  /\ Change(actor, users)
  /\ Log({u}, actor, action)
  /\ UNCHANGED requests

Next ==
  \/ \E actor \in admins, u \in User :
       \/ \E rq \in Request :
            \/ \E role \in Role : CreateUser(rq, actor, u, role)
            \/ ActivateUser(rq, actor, u)
            \/ CheckDeactivation(rq, actor, u)
       \/ \E role \in Role : ChangeUserRole(actor, u, role)
       \/ \E demoteSelf \in BOOLEAN : HandoffAdmin(actor, u, demoteSelf)
       \/ \E action \in {"contact_updated", "password_reset"} : Administer(actor, u, action)
  \/ \E rq \in Request : DeactivateUser(rq) \/ LogAction(rq)
  \/ \E actor \in admins, batch \in ImportBatch : ImportEmployees(actor, batch)
  \/ Crash

Spec == Init /\ [][Next]_vars
-----------------------------------------------------------------------------
(* Properties *)

Imported(u) ==
  /\ userAudit'[u] # userAudit[u]
  /\ userAudit'[u][Len(userAudit'[u])].action = "employee_import_updated"

\* The last active admin is never lost to a change of role or to a handoff: only
\* a deactivation or an import can do that.
RolesKeepAnAdmin ==
  [][ActiveAdmins(users) # {} /\ ActiveAdmins(users') = {} =>
       \E u \in ActiveAdmins(users) : Imported(u) \/ ~users'[u].active]_vars

\* Whoever's role or active flag changes is named by a new audit row, as its
\* target or as the actor who handed over, or a request is about to write it.
ChangesAreTraced ==
  [][\A u \in User : users'[u] # users[u] =>
       \/ userAudit'[u] # userAudit[u]
       \/ \E rq \in Request : requests'[rq].stage = "logging" /\ requests'[rq].user = u
       \/ \E v \in User :
            /\ userAudit'[v] # userAudit[v]
            /\ userAudit'[v][Len(userAudit'[v])] = [actor |-> u, action |-> "handoff_admin"]]_vars

\* There is an active admin at all times.
AlwaysAnAdmin == ActiveAdmins(users) # {}

\* The rows that tell whether an account is switched on.
Switches(log) ==
  SelectSeq(log, LAMBDA row : row.action \in
    {"created", "activated", "deactivated", "employee_import_created", "employee_import_updated"})

\* When no request is under way for an account, the newest row of its trail that
\* switches it on or off tells whether it is on.
TrailTellsActive ==
  \A u \in User :
    LET log == Switches(userAudit[u])
    IN  Exists(u) /\ log # <<>> /\ (\A rq \in Request : requests[rq].user # u)
          => users[u].active = (log[Len(log)].action # "deactivated")

\* When no request is under way, an account that is off after having been on has
\* a row that says so.
DeactivationLeavesTrace ==
  \A u \in User :
    InitialUser[u] # Absent /\ InitialUser[u].active /\ ~users[u].active
    /\ (\A rq \in Request : requests[rq].user # u)
      => \E i \in DOMAIN userAudit[u] : userAudit[u][i].action = "deactivated"
=============================================================================
