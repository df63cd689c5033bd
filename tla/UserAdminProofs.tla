-------------------------- MODULE UserAdminProofs --------------------------
(***************************************************************************)
(* What holds of UserAdmin for every finite set of accounts, every set of  *)
(* requests and every set of import tables.                                *)
(***************************************************************************)
EXTENDS UserAdmin, FiniteSetTheorems, SequenceTheorems, TLAPS

Table == [User -> Account \cup {Absent}]
Trail == [User -> Seq(AuditRow)]

LEMMA ActiveAdminsType == ASSUME NEW table PROVE ActiveAdmins(table) \subseteq User
  BY DEF ActiveAdmins

\* A change that maps accounts to accounts keeps what it writes well formed.
LEMMA ChangeTyped ==
  ASSUME TypeOK, NEW actor, NEW table \in Table, Change(actor, table)
  PROVE  users' \in Table /\ admins' \subseteq User /\ changes' \in Nat
  BY ActiveAdminsType DEF TypeOK, Change

LEMMA AppendRow ==
  ASSUME NEW log \in Seq(AuditRow), NEW actor \in User, NEW action \in UserAction
  PROVE  Append(log, [actor |-> actor, action |-> action]) \in Seq(AuditRow)
<1> DEFINE row == [actor |-> actor, action |-> action]
<1>1. row \in AuditRow
  BY DEF AuditRow
<1> HIDE DEF row
<1>2. Append(log, row) \in Seq(AuditRow)
  BY <1>1, AppendProperties
<1> QED
  BY <1>2 DEF row

LEMMA LogTyped ==
  ASSUME TypeOK, NEW targets, NEW actor \in User, NEW action \in UserAction, Log(targets, actor, action)
  PROVE  userAudit' \in Trail
<1>1. ASSUME NEW u \in User
      PROVE  Append(userAudit[u], [actor |-> actor, action |-> action]) \in Seq(AuditRow)
  BY AppendRow DEF TypeOK
<1> QED
  BY <1>1 DEF Log, TypeOK, Trail

LEMMA LogLaterTyped ==
  ASSUME TypeOK, NEW rq \in Request, NEW actor \in User, NEW u \in User, NEW action \in UserAction,
         LogLater(rq, actor, u, action)
  PROVE  requests' \in [Request -> {Idle} \cup Pending] /\ userAudit' \in Trail
<1> DEFINE next == [stage |-> "logging", actor |-> actor, user |-> u, action |-> action]
<1>1. next \in Pending
  BY DEF Pending
<1>2. requests' = [requests EXCEPT ![rq] = next] /\ userAudit' = userAudit
  BY DEF LogLater
<1> HIDE DEF next
<1> QED
  BY <1>1, <1>2 DEF TypeOK, Trail

LEMMA StepTyped == TypeOK /\ [Next]_vars => TypeOK'
<1> SUFFICES ASSUME TypeOK, [Next]_vars PROVE TypeOK'
  OBVIOUS
<1>0. /\ users \in Table /\ userAudit \in Trail
      /\ \A actor \in admins : actor \in User
  BY DEF TypeOK, Table, Trail
<1>1. ASSUME NEW actor \in admins, NEW u \in User, NEW rq \in Request, NEW role \in Role,
             CreateUser(rq, actor, u, role)
      PROVE  TypeOK'
  <2>0. actor \in User
    BY <1>0
  <2>1. [users EXCEPT ![u] = [role |-> role, active |-> TRUE]] \in Table
    BY <1>0 DEF Table, Account
  <2>2. users' \in Table /\ admins' \subseteq User /\ changes' \in Nat
    BY <1>1, <2>1, ChangeTyped DEF CreateUser
  <2>3. requests' \in [Request -> {Idle} \cup Pending] /\ userAudit' \in Trail
    BY <2>0, <1>1, LogLaterTyped DEF UserAction, CreateUser
  <2> QED
    BY <2>2, <2>3 DEF TypeOK, Table, Trail
<1>2. ASSUME NEW actor \in admins, NEW u \in User, NEW rq \in Request, ActivateUser(rq, actor, u)
      PROVE  TypeOK'
  <2>0. actor \in User
    BY <1>0
  <2>1. [users EXCEPT ![u].active = TRUE] \in Table
    BY <1>0, <1>2 DEF Table, Account, ActivateUser, Exists
  <2>2. users' \in Table /\ admins' \subseteq User /\ changes' \in Nat
    BY <1>2, <2>1, ChangeTyped DEF ActivateUser
  <2>3. requests' \in [Request -> {Idle} \cup Pending] /\ userAudit' \in Trail
    BY <2>0, <1>2, LogLaterTyped DEF UserAction, ActivateUser
  <2> QED
    BY <2>2, <2>3 DEF TypeOK, Table, Trail
<1>3. ASSUME NEW actor \in admins, NEW u \in User, NEW rq \in Request, CheckDeactivation(rq, actor, u)
      PROVE  TypeOK'
  <2>0. actor \in User
    BY <1>0
  <2> DEFINE next == [stage |-> "deactivating", actor |-> actor, user |-> u, action |-> "deactivated"]
  <2>1. next \in Pending
    BY <2>0 DEF Pending, UserAction
  <2>2. requests' = [requests EXCEPT ![rq] = next]
    BY <1>3 DEF CheckDeactivation
  <2> HIDE DEF next
  <2>3. requests' \in [Request -> {Idle} \cup Pending]
    BY <2>1, <2>2 DEF TypeOK
  <2> QED
    BY <1>3, <2>3 DEF CheckDeactivation, TypeOK
<1>4. ASSUME NEW rq \in Request, DeactivateUser(rq)
      PROVE  TypeOK'
  <2> DEFINE u == requests[rq].user
             actor == requests[rq].actor
  <2>1. u \in User /\ actor \in User
    BY <1>4 DEF DeactivateUser, TypeOK, Idle, Pending
  <2>2. CASE Exists(u) /\ users[u].active
    <3>1. [users EXCEPT ![u].active = FALSE] \in Table
      BY <1>0, <2>1, <2>2 DEF Table, Account, Exists
    <3>2. Change(actor, [users EXCEPT ![u].active = FALSE]) /\ LogLater(rq, actor, u, "deactivated")
      BY <1>4, <2>2 DEF DeactivateUser
    <3> HIDE DEF u, actor
    <3>3. users' \in Table /\ admins' \subseteq User /\ changes' \in Nat
      BY <3>1, <3>2, ChangeTyped
    <3>4. requests' \in [Request -> {Idle} \cup Pending] /\ userAudit' \in Trail
      BY <2>1, <3>2, LogLaterTyped DEF UserAction
    <3> QED
      BY <3>3, <3>4 DEF TypeOK, Table, Trail
  <2>3. CASE ~(Exists(u) /\ users[u].active)
    <3>1. requests' = [requests EXCEPT ![rq] = Idle] /\ UNCHANGED <<users, admins, userAudit, changes>>
      BY <1>4, <2>3 DEF DeactivateUser
    <3> QED
      BY <3>1 DEF TypeOK
  <2> QED
    BY <2>2, <2>3
<1>5. ASSUME NEW rq \in Request, LogAction(rq)
      PROVE  TypeOK'
  <2>1. requests[rq] \in Pending
    BY <1>5 DEF LogAction, TypeOK, Idle
  <2>2. requests[rq].actor \in User /\ requests[rq].action \in UserAction
    BY <2>1 DEF Pending
  <2>3. userAudit' \in Trail
    BY <1>5, <2>2, LogTyped DEF LogAction
  <2>4. requests' \in [Request -> {Idle} \cup Pending]
    BY <1>5 DEF LogAction, TypeOK
  <2> QED
    BY <1>5, <2>3, <2>4 DEF LogAction, TypeOK, Trail
<1>6. ASSUME Crash PROVE TypeOK'
  BY <1>6, ActiveAdminsType DEF Crash, TypeOK
<1>7. ASSUME NEW actor \in admins, NEW u \in User, NEW role \in Role, ChangeUserRole(actor, u, role)
      PROVE  TypeOK'
  <2>0. actor \in User
    BY <1>0
  <2>1. [users EXCEPT ![u].role = role] \in Table
    BY <1>0, <1>7 DEF Table, Account, ChangeUserRole, Exists
  <2>2. users' \in Table /\ admins' \subseteq User /\ changes' \in Nat
    BY <1>7, <2>1, ChangeTyped DEF ChangeUserRole
  <2>3. userAudit' \in Trail
    BY <2>0, <1>7, LogTyped DEF UserAction, ChangeUserRole
  <2> QED
    BY <1>7, <2>2, <2>3 DEF ChangeUserRole, TypeOK, Table, Trail
<1>8. ASSUME NEW actor \in admins, NEW batch \in ImportBatch, ImportEmployees(actor, batch)
      PROVE  TypeOK'
  <2>0. actor \in User
    BY <1>0
  <2>1. [u \in User |-> IF u \in batch THEN [role |-> "employee", active |-> TRUE] ELSE users[u]] \in Table
    BY <1>0 DEF Table, Account, Role
  <2>2. users' \in Table /\ admins' \subseteq User /\ changes' \in Nat
    BY <1>8, <2>1, ChangeTyped DEF ImportEmployees
  <2>3. userAudit' \in Trail
    <3> DEFINE said(u) == IF Exists(u) THEN "employee_import_updated" ELSE "employee_import_created"
    <3>0. \A u \in User : said(u) \in UserAction
      BY DEF UserAction
    <3> HIDE DEF said
    <3>1. \A u \in User : Append(userAudit[u], [actor |-> actor, action |-> said(u)]) \in Seq(AuditRow)
      BY <1>0, <2>0, <3>0, AppendRow DEF Trail
    <3>2. userAudit' = [u \in User |->
            IF u \in batch THEN Append(userAudit[u], [actor |-> actor, action |-> said(u)])
                           ELSE userAudit[u]]
      BY <1>8 DEF ImportEmployees, said
    <3> QED
      BY <1>0, <3>1, <3>2 DEF Trail
  <2> QED
    BY <1>8, <2>2, <2>3 DEF ImportEmployees, TypeOK, Table, Trail
<1>9. ASSUME NEW actor \in admins, NEW u \in User, NEW demoteSelf \in BOOLEAN,
             HandoffAdmin(actor, u, demoteSelf)
      PROVE  TypeOK'
  <2>0. actor \in User
    BY <1>0
  <2> DEFINE next == [v \in User |->
        CASE v = u                   -> [users[v] EXCEPT !.role = "fleet_admin"]
          [] v = actor /\ demoteSelf -> [users[v] EXCEPT !.role = "employee"]
          [] OTHER                   -> users[v]]
  <2>1. next \in Table
    <3>1. users[u] \in Account /\ users[actor] \in Account
      BY <1>0, <1>9, <2>0 DEF HandoffAdmin, Exists, Table
    <3> QED
      BY <1>0, <3>1 DEF Table, Account, Role
  <2>2. Change(actor, next) /\ Log({u}, actor, "handoff_admin") /\ UNCHANGED requests
    BY <1>9 DEF HandoffAdmin
  <2> HIDE DEF next
  <2>3. users' \in Table /\ admins' \subseteq User /\ changes' \in Nat
    BY <2>1, <2>2, ChangeTyped
  <2>4. userAudit' \in Trail
    BY <2>0, <2>2, LogTyped DEF UserAction
  <2> QED
    BY <2>2, <2>3, <2>4 DEF TypeOK, Table, Trail
<1>10. ASSUME NEW actor \in admins, NEW u \in User, NEW action \in {"contact_updated", "password_reset"},
              Administer(actor, u, action)
       PROVE  TypeOK'
  <2>0. actor \in User
    BY <1>0
  <2>1. users' \in Table /\ admins' \subseteq User /\ changes' \in Nat
    BY <1>0, <1>10, ChangeTyped DEF Administer
  <2>2. userAudit' \in Trail
    BY <2>0, <1>10, LogTyped DEF UserAction, Administer
  <2> QED
    BY <1>10, <2>1, <2>2 DEF Administer, TypeOK, Table, Trail
<1>11. CASE UNCHANGED vars
  BY <1>11 DEF vars, TypeOK
<1> QED
  BY <1>1, <1>2, <1>3, <1>4, <1>5, <1>6, <1>7, <1>8, <1>9, <1>10, <1>11 DEF Next

\* Type correctness of UserAdmin: every endpoint leaves accounts, trail and pending
\* requests well formed.
THEOREM TypeCorrect == Spec => []TypeOK
<1>1. Init => TypeOK
  BY InitialUserAssumption, ActiveAdminsType DEF Init, TypeOK
<1> QED
  BY <1>1, StepTyped, PTL DEF Spec

-----------------------------------------------------------------------------
(* The last active admin *)

\* More than one active admin: whoever of them is taken out, one remains.
LEMMA AnotherAdmin ==
  ASSUME ActiveAdminCount > 1, NEW u
  PROVE  \E v \in ActiveAdmins(users) : v # u
<1>1. IsFiniteSet(ActiveAdmins(users))
  BY UserAssumption, FS_Subset, ActiveAdminsType
<1> SUFFICES ASSUME ActiveAdmins(users) \subseteq {u} PROVE FALSE
  OBVIOUS
<1>2. Cardinality({u}) = 1 /\ IsFiniteSet({u})
  BY FS_Singleton
<1>3. Cardinality(ActiveAdmins(users)) <= 1
  BY <1>2, FS_Subset
<1>4. Cardinality(ActiveAdmins(users)) \in Nat
  BY <1>1, FS_CardinalityType
<1> QED
  BY <1>3, <1>4 DEF ActiveAdminCount

\* An admin whose row does not change stays one.
LEMMA StillAdmin ==
  ASSUME NEW v \in ActiveAdmins(users), users'[v] = users[v]
  PROVE  ActiveAdmins(users') # {}
  BY DEF ActiveAdmins, IsActiveAdmin

LastAdminStep ==
  ActiveAdmins(users) # {} /\ ActiveAdmins(users') = {} =>
    \E u \in ActiveAdmins(users) : Imported(u) \/ ~users'[u].active

LEMMA StepKeepsAnAdmin == TypeOK /\ [Next]_vars => LastAdminStep
<1> SUFFICES ASSUME TypeOK, [Next]_vars, ActiveAdmins(users) # {}, ActiveAdmins(users') = {}
             PROVE  \E u \in ActiveAdmins(users) : Imported(u) \/ ~users'[u].active
  BY DEF LastAdminStep
<1>0. \A actor \in admins : actor \in User
  BY DEF TypeOK
<1>00. PICK a \in ActiveAdmins(users) : TRUE
  OBVIOUS
<1>a. a \in User /\ IsActiveAdmin(users[a]) /\ users'[a] # users[a]
  BY <1>00, StillAdmin DEF ActiveAdmins
<1>1. ASSUME NEW actor \in admins, NEW u \in User, NEW rq \in Request, NEW role \in Role,
             CreateUser(rq, actor, u, role)
      PROVE  FALSE
  BY <1>1, <1>a DEF CreateUser, Change, Exists, IsActiveAdmin, TypeOK
<1>2. ASSUME NEW actor \in admins, NEW u \in User, NEW rq \in Request, ActivateUser(rq, actor, u)
      PROVE  FALSE
  BY <1>2, <1>a DEF ActivateUser, Change, IsActiveAdmin, TypeOK
<1>3. ASSUME NEW actor \in admins, NEW u \in User, NEW rq \in Request, CheckDeactivation(rq, actor, u)
      PROVE  FALSE
  BY <1>3, <1>a DEF CheckDeactivation
<1>4. ASSUME NEW rq \in Request, DeactivateUser(rq)
      PROVE  ~users'[a].active
  <2> DEFINE u == requests[rq].user
  <2>1. users' = users \/ users' = [users EXCEPT ![u].active = FALSE]
    BY <1>4 DEF DeactivateUser, Change
  <2> HIDE DEF u
  <2> QED
    BY <1>a, <2>1 DEF TypeOK, Account, IsActiveAdmin
<1>5. ASSUME NEW rq \in Request, LogAction(rq)
      PROVE  FALSE
  BY <1>5, <1>a DEF LogAction
<1>6. ASSUME Crash PROVE FALSE
  BY <1>6, <1>a DEF Crash
<1>7. ASSUME NEW actor \in admins, NEW u \in User, NEW role \in Role, ChangeUserRole(actor, u, role)
      PROVE  FALSE
  <2>1. users' = [users EXCEPT ![u].role = role]
    BY <1>7 DEF ChangeUserRole, Change
  <2>2. u = a
    BY <1>a, <2>1 DEF TypeOK
  <2>3. ActiveAdminCount > 1
    BY <1>7, <1>a, <2>2 DEF ChangeUserRole
  <2>4. PICK v \in ActiveAdmins(users) : v # u
    BY <2>3, AnotherAdmin
  <2>5. users'[v] = users[v]
    BY <2>1, <2>4 DEF TypeOK, ActiveAdmins
  <2> QED
    BY <2>4, <2>5, StillAdmin
<1>8. ASSUME NEW actor \in admins, NEW batch \in ImportBatch, ImportEmployees(actor, batch)
      PROVE  Imported(a)
  <2> DEFINE row == [actor |-> actor, action |-> "employee_import_updated"]
  <2>1. a \in batch
    BY <1>8, <1>a DEF ImportEmployees, Change
  <2>2. Exists(a)
    BY <1>a DEF IsActiveAdmin, Exists
  <2>3. userAudit'[a] = Append(userAudit[a], row)
    BY <1>8, <1>a, <2>1, <2>2 DEF ImportEmployees
  <2>4. row.action = "employee_import_updated"
    OBVIOUS
  <2> HIDE DEF row
  <2>5. userAudit[a] \in Seq(AuditRow)
    BY <1>a DEF TypeOK
  <2>6. /\ Len(Append(userAudit[a], row)) = Len(userAudit[a]) + 1
        /\ Append(userAudit[a], row)[Len(userAudit[a]) + 1] = row
        /\ Append(userAudit[a], row) # userAudit[a]
    BY <2>5
  <2> QED
    BY <2>3, <2>4, <2>6 DEF Imported
<1>9. ASSUME NEW actor \in admins, NEW u \in User, NEW demoteSelf \in BOOLEAN,
             HandoffAdmin(actor, u, demoteSelf)
      PROVE  FALSE
  <2>1. users'[u] = [users[u] EXCEPT !.role = "fleet_admin"]
    BY <1>9 DEF HandoffAdmin, Change
  <2>2. users[u] \in Account /\ users[u].active
    BY <1>9 DEF HandoffAdmin, Exists, TypeOK
  <2>3. users'[u] \in Account /\ users'[u].role = "fleet_admin" /\ users'[u].active
    BY <2>1, <2>2 DEF Account, Role
  <2> QED
    BY <2>3, AbsentAssumption DEF ActiveAdmins, IsActiveAdmin
<1>10. ASSUME NEW actor \in admins, NEW u \in User, NEW action \in {"contact_updated", "password_reset"},
              Administer(actor, u, action)
       PROVE  FALSE
  BY <1>10, <1>a DEF Administer, Change
<1>11. CASE UNCHANGED vars
  BY <1>11, <1>a DEF vars
<1> QED
  BY <1>00, <1>1, <1>2, <1>3, <1>4, <1>5, <1>6, <1>7, <1>8, <1>9, <1>10, <1>11 DEF Next

\* Changes of role and handoffs never lose the last active admin: the count of
\* change_user_role is right although it is taken of all accounts and compared
\* with one, and a handoff promotes before it demotes.
THEOREM RolesKeepTheLastAdmin == Spec => RolesKeepAnAdmin
<1>1. TypeOK /\ [Next]_vars => [LastAdminStep]_vars
  BY StepKeepsAnAdmin
<1>2. RolesKeepAnAdmin <=> [][LastAdminStep]_vars
  BY DEF RolesKeepAnAdmin, LastAdminStep
<1> QED
  BY <1>1, <1>2, TypeCorrect, PTL DEF Spec

-----------------------------------------------------------------------------
(* The trail *)

LEMMA AppendGrows ==
  ASSUME NEW S, NEW log \in Seq(S), NEW row
  PROVE  /\ Append(log, row) # log
         /\ Append(log, row)[Len(Append(log, row))] = row
  OBVIOUS

Traced(u) ==
  \/ userAudit'[u] # userAudit[u]
  \/ \E rq \in Request : requests'[rq].stage = "logging" /\ requests'[rq].user = u
  \/ \E v \in User :
       /\ userAudit'[v] # userAudit[v]
       /\ userAudit'[v][Len(userAudit'[v])] = [actor |-> u, action |-> "handoff_admin"]

\* A row that is to be logged is on its way.
LEMMA LogLaterTraces ==
  ASSUME TypeOK, NEW rq \in Request, NEW actor, NEW u, NEW action, LogLater(rq, actor, u, action)
  PROVE  Traced(u)
<1> DEFINE next == [stage |-> "logging", actor |-> actor, user |-> u, action |-> action]
<1>1. requests' = [requests EXCEPT ![rq] = next]
  BY DEF LogLater
<1>2. requests'[rq] = next
  BY <1>1 DEF TypeOK
<1> QED
  BY <1>2 DEF Traced

\* A row that is logged is there.
LEMMA LogTraces ==
  ASSUME TypeOK, NEW u \in User, NEW actor, NEW action, Log({u}, actor, action)
  PROVE  /\ userAudit'[u] # userAudit[u]
         /\ userAudit'[u][Len(userAudit'[u])] = [actor |-> actor, action |-> action]
<1> DEFINE row == [actor |-> actor, action |-> action]
<1>1. userAudit'[u] = Append(userAudit[u], row)
  BY DEF Log
<1>2. userAudit[u] \in Seq(AuditRow)
  BY DEF TypeOK
<1> HIDE DEF row
<1>3. userAudit'[u] # userAudit[u] /\ userAudit'[u][Len(userAudit'[u])] = row
  BY <1>1, <1>2, AppendGrows
<1> QED
  BY <1>3 DEF row

TracedStep == \A u \in User : users'[u] # users[u] => Traced(u)

LEMMA StepTraces == TypeOK /\ [Next]_vars => TracedStep
<1> SUFFICES ASSUME TypeOK, [Next]_vars, NEW a \in User, users'[a] # users[a]
             PROVE  Traced(a)
  BY DEF TracedStep
<1>1. ASSUME NEW actor \in admins, NEW u \in User, NEW rq \in Request, NEW role \in Role,
             CreateUser(rq, actor, u, role)
      PROVE  Traced(a)
  <2>1. u = a
    BY <1>1 DEF CreateUser, Change, TypeOK
  <2> QED
    BY <1>1, <2>1, LogLaterTraces DEF CreateUser
<1>2. ASSUME NEW actor \in admins, NEW u \in User, NEW rq \in Request, ActivateUser(rq, actor, u)
      PROVE  Traced(a)
  <2>1. u = a
    BY <1>2 DEF ActivateUser, Change, TypeOK
  <2> QED
    BY <1>2, <2>1, LogLaterTraces DEF ActivateUser
<1>3. ASSUME NEW actor \in admins, NEW u \in User, NEW rq \in Request, CheckDeactivation(rq, actor, u)
      PROVE  FALSE
  BY <1>3 DEF CheckDeactivation
<1>4. ASSUME NEW rq \in Request, DeactivateUser(rq)
      PROVE  Traced(a)
  <2> DEFINE u == requests[rq].user
             actor == requests[rq].actor
  <2>1. users' = [users EXCEPT ![u].active = FALSE] /\ LogLater(rq, actor, u, "deactivated")
    BY <1>4 DEF DeactivateUser, Change
  <2> HIDE DEF u, actor
  <2>2. u = a
    BY <2>1 DEF TypeOK
  <2> QED
    BY <2>1, <2>2, LogLaterTraces
<1>5. ASSUME NEW rq \in Request, LogAction(rq)
      PROVE  FALSE
  BY <1>5 DEF LogAction
<1>6. ASSUME Crash PROVE FALSE
  BY <1>6 DEF Crash
<1>7. ASSUME NEW actor \in admins, NEW u \in User, NEW role \in Role, ChangeUserRole(actor, u, role)
      PROVE  Traced(a)
  <2>1. u = a
    BY <1>7 DEF ChangeUserRole, Change, TypeOK
  <2> QED
    BY <1>7, <2>1, LogTraces DEF ChangeUserRole, Traced
<1>8. ASSUME NEW actor \in admins, NEW batch \in ImportBatch, ImportEmployees(actor, batch)
      PROVE  Traced(a)
  <2> DEFINE row == [actor |-> actor, action |->
                       IF Exists(a) THEN "employee_import_updated" ELSE "employee_import_created"]
  <2>1. a \in batch
    BY <1>8 DEF ImportEmployees, Change
  <2>2. userAudit'[a] = Append(userAudit[a], row)
    BY <1>8, <2>1 DEF ImportEmployees
  <2>3. userAudit[a] \in Seq(AuditRow)
    BY DEF TypeOK
  <2> HIDE DEF row
  <2>4. userAudit'[a] # userAudit[a]
    BY <2>2, <2>3, AppendGrows
  <2> QED
    BY <2>4 DEF Traced
<1>9. ASSUME NEW actor \in admins, NEW u \in User, NEW demoteSelf \in BOOLEAN,
             HandoffAdmin(actor, u, demoteSelf)
      PROVE  Traced(a)
  <2>1. a = u \/ a = actor
    BY <1>9 DEF HandoffAdmin, Change
  <2>2. /\ userAudit'[u] # userAudit[u]
        /\ userAudit'[u][Len(userAudit'[u])] = [actor |-> actor, action |-> "handoff_admin"]
    BY <1>9, LogTraces DEF HandoffAdmin
  <2> QED
    BY <2>1, <2>2 DEF Traced
<1>10. ASSUME NEW actor \in admins, NEW u \in User, NEW action \in {"contact_updated", "password_reset"},
              Administer(actor, u, action)
       PROVE  FALSE
  BY <1>10 DEF Administer, Change
<1>11. CASE UNCHANGED vars
  BY <1>11 DEF vars
<1> QED
  BY <1>1, <1>2, <1>3, <1>4, <1>5, <1>6, <1>7, <1>8, <1>9, <1>10, <1>11 DEF Next

\* No endpoint changes a role or an active flag without an audit row that names the
\* account, written with the change or next by the same request.
THEOREM NothingChangesUntraced == Spec => ChangesAreTraced
<1>1. TypeOK /\ [Next]_vars => [TracedStep]_vars
  BY StepTraces
<1>2. ChangesAreTraced <=> [][TracedStep]_vars
  BY DEF ChangesAreTraced, TracedStep, Traced
<1> QED
  BY <1>1, <1>2, TypeCorrect, PTL DEF Spec
=============================================================================
