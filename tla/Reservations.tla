---------------------------- MODULE Reservations ----------------------------
(***************************************************************************)
(* The booking core of FleetFlow: the reservations, audit_log,             *)
(* notifications, cars and car_blackouts tables and every endpoint that    *)
(* writes them (routers/reservations.py, routers/cars.py).                 *)
(*                                                                         *)
(* This is the system on SQLite: transaction() issues BEGIN IMMEDIATE, so  *)
(* the body of a transaction runs with the write lock held and is one step *)
(* here.  What is NOT one step in the code is not one step here either:    *)
(*   - a request reads its AuthContext on a connection of its own before   *)
(*     the handler runs, so a handler acts on a role that may have changed *)
(*     since (variable contexts);                                          *)
(*   - the two blackout writers check for an overlap and write in separate *)
(*     autocommit statements (variable blackoutWrite).                     *)
(* A failing transaction rolls back and changes nothing: a stutter.        *)
(*                                                                         *)
(* auditLog[r] and notifications[r] are the rows of those tables that name *)
(* reservation r, in id order.  One entry of notifications[r] is one call  *)
(* of create_notification(s): a kind and the users who got a row, the same *)
(* ids the handler passes to dispatch_outbound_notifications once the      *)
(* transaction has committed.                                              *)
(***************************************************************************)
EXTENDS Sequences, FiniteSets, FleetVocabulary

CONSTANTS
  User,            \* users.id
  InitialRole,     \* the role of every user at the start
  Car,             \* cars.id, existing or not yet created
  BlackoutWriter,  \* blackout requests that may be in flight at once
  Null,            \* SQL NULL, and an idle blackout writer
  MaxReservations, MaxBlackouts, MaxTime, MaxUserChanges    \* bounds

ASSUME RolesAssumption == InitialRole \in [User -> Role]
ASSUME NullAssumption  == Null \notin User
ASSUME BoundAssumption == {MaxReservations, MaxBlackouts, MaxTime, MaxUserChanges} \subseteq Nat

VARIABLES
  users,          \* users: role and active flag
  contexts,       \* the AuthContexts some request in flight may still hold
  userChanges,    \* how often the users table changed (bounded)
  cars,           \* cars: "missing", "active" or "inactive"
  reservations,   \* reservations, the index is the AUTOINCREMENT id
  auditLog, notifications,
  blackouts,      \* car_blackouts, the index is the id
  blackoutWrite   \* the write each blackout request has yet to make

userVars     == <<users, contexts, userChanges>>
bookingVars  == <<reservations, auditLog, notifications>>
blackoutVars == <<blackouts, blackoutWrite>>
vars == <<userVars, cars, bookingVars, blackoutVars>>

Time    == 0 .. MaxTime
Context == [user : User, role : Role]
Reservation ==
  [status : StoredStatus, car : Car, owner : User, start : Time, end : Time,
   checkedOut : BOOLEAN, returned : BOOLEAN, decidedBy : User \cup {Null}]
AuditAction == {"created", "approved", "rejected", "checked_out", "returned", "cancelled"}
AuditEntry  == [actor : User, action : AuditAction]
Kind == {"reservation_requested", "reservation_decision", "reception_handoff",
         "trip_started", "trip_returned", "reservation_cancelled"}
Fanout   == [kind : Kind, to : SUBSET User]
Blackout == [car : Car, start : Time, end : Time, active : BOOLEAN]
\* id = 0 for the INSERT of create_blackout, else the row update_blackout edits.
BlackoutWrite == [id : Nat, car : Car, start : Time, end : Time]

TypeOK ==
  /\ users \in [User -> [role : Role, active : BOOLEAN]]
  /\ contexts \subseteq Context
  /\ userChanges \in Nat
  /\ cars \in [Car -> {"missing", "active", "inactive"}]
  /\ reservations \in Seq(Reservation)
  /\ auditLog \in Seq(Seq(AuditEntry))
  /\ notifications \in Seq(Seq(Fanout))
  /\ Len(auditLog) = Len(reservations)
  /\ Len(notifications) = Len(reservations)
  /\ blackouts \in Seq(Blackout)
  /\ blackoutWrite \in [BlackoutWriter -> BlackoutWrite \cup {Null}]
  /\ \A w \in BlackoutWriter :
        blackoutWrite[w] # Null => blackoutWrite[w].id \in 0 .. Len(blackouts)
-----------------------------------------------------------------------------
(* Queries *)

ActiveWith(roles) == {u \in User : users[u].active /\ users[u].role \in roles}

ReservationIds == 1 .. Len(reservations)
BlackoutIds    == 1 .. Len(blackouts)

\* Mutant: the conflict query counts approved rows only.
MutantConflictsWithApproved(car, w) ==
  {r \in ReservationIds : /\ reservations[r].car = car
                          /\ PresentationStatus(reservations[r]) \in {"approved", "checked_out"}
                          /\ Overlap(reservations[r], w)}

ReservationConflicts(car, w) ==
  {r \in ReservationIds : /\ reservations[r].car = car
                          /\ Holds(reservations[r])
                          /\ Overlap(reservations[r], w)}

\* Mutant: a blackout conflicts only if it begins inside the window.
MutantBlackoutsBeginningInside(car, w) ==
  {b \in BlackoutIds : /\ blackouts[b].car = car
                       /\ blackouts[b].active
                       /\ w.start <= blackouts[b].start /\ blackouts[b].start < w.end}

BlackoutConflicts(car, w) ==
  {b \in BlackoutIds : /\ blackouts[b].car = car
                       /\ blackouts[b].active
                       /\ Overlap(blackouts[b], w)}

\* Contexts get_auth_context hands out while the users table is t: one per
\* active user, with the role the table has now, whatever the token says.
AuthContexts(t) == {c \in Context : t[c.user].active /\ t[c.user].role = c.role}

\* create_notifications inserts nothing for an empty list of targets.
Notify(kind, to) == IF to = {} THEN <<>> ELSE <<[kind |-> kind, to |-> to]>>

\* What one committed transition of reservation r leaves in the three tables.
Transition(r, row, actor, action, fanout) ==
  /\ reservations' = [reservations EXCEPT ![r] = row]
  /\ auditLog' = [auditLog EXCEPT ![r] = Append(@, [actor |-> actor, action |-> action])]
  /\ notifications' = [notifications EXCEPT ![r] = @ \o fanout]
  /\ UNCHANGED <<userVars, cars, blackoutVars>>
-----------------------------------------------------------------------------
Init ==
  /\ users = [u \in User |-> [role |-> InitialRole[u], active |-> TRUE]]
  /\ contexts = AuthContexts(users)
  /\ userChanges = 0
  /\ cars = [c \in Car |-> "missing"]
  /\ reservations = <<>>
  /\ auditLog = <<>>
  /\ notifications = <<>>
  /\ blackouts = <<>>
  /\ blackoutWrite = [w \in BlackoutWriter |-> Null]

(* routers/reservations.py *)

\* POST /reservations and the second half of POST /reservations/quick-book,
\* whose suggestion was read on an earlier connection and is a payload like
\* any other by the time the transaction starts.  0 stands for the present: the
\* code reads the clock before it waits for the write lock and never again, so a
\* window only has to have been ahead of its request, not of its INSERT.
CreateReservation(ctx, car, w) ==
  /\ ctx.role \in EmployeeRoles
  /\ Len(reservations) < MaxReservations
  /\ 0 < w.start
  /\ w.start < w.end
  /\ cars[car] = "active"
  /\ ReservationConflicts(car, w) = {}
  /\ BlackoutConflicts(car, w) = {}
  /\ reservations' = Append(reservations,
        [status |-> "pending", car |-> car, owner |-> ctx.user,
         start |-> w.start, end |-> w.end,
         checkedOut |-> FALSE, returned |-> FALSE, decidedBy |-> Null])
  /\ auditLog' = Append(auditLog, <<[actor |-> ctx.user, action |-> "created"]>>)
  /\ notifications' = Append(notifications,
        Notify("reservation_requested", ActiveWith(DecisionRoles) \ {ctx.user}))
  /\ UNCHANGED <<userVars, cars, blackoutVars>>

\* The requester hears of the decision, the reception of an approval.
DecisionFanout(row, verdict, actor) ==
  Notify("reservation_decision", {row.owner}) \o
  (IF verdict = "approved"
     THEN Notify("reception_handoff", ActiveWith(ReceptionRoles) \ {actor, row.owner})
     ELSE <<>>)

\* Mutant: the two parameters of the UPDATE in the wrong order.
MutantDecidedSwapped(row, verdict, decider) ==
  [row EXCEPT !.status = decider, !.decidedBy = verdict]

Decided(row, verdict, decider) == [row EXCEPT !.status = verdict, !.decidedBy = decider]

\* Mutant: the UPDATE has lost its AND status = 'pending'.
MutantDecideAnyStatus(ctx, ids, verdict) ==
  LET decided == ids \cap ReservationIds
  IN  /\ reservations' = [r \in ReservationIds |->
            IF r \in decided
              THEN Decided(reservations[r], verdict, ctx.user)
              ELSE reservations[r]]
      /\ UNCHANGED <<userVars, cars, auditLog, notifications, blackoutVars>>

\* Mutant: the audit rows are written for the whole batch, skipped ids included.
MutantDecisionLogsSkipped(ctx, ids, verdict) ==
  LET decided == {r \in ids \cap ReservationIds : reservations[r].status = "pending"}
  IN  /\ reservations' = [r \in ReservationIds |->
            IF r \in decided
              THEN Decided(reservations[r], verdict, ctx.user)
              ELSE reservations[r]]
      /\ auditLog' = [r \in ReservationIds |->
            IF r \in ids
              THEN Append(auditLog[r], [actor |-> ctx.user, action |-> verdict])
              ELSE auditLog[r]]
      /\ UNCHANGED <<userVars, cars, notifications, blackoutVars>>

\* UPDATE ... WHERE id = ? AND status = 'pending', for every id of a batch.
DecidePending(ctx, ids, verdict) ==
  LET decided == {r \in ids \cap ReservationIds : reservations[r].status = "pending"}
  IN  /\ reservations' = [r \in ReservationIds |->
            IF r \in decided
              THEN Decided(reservations[r], verdict, ctx.user)
              ELSE reservations[r]]
      /\ auditLog' = [r \in ReservationIds |->
            IF r \in decided
              THEN Append(auditLog[r], [actor |-> ctx.user, action |-> verdict])
              ELSE auditLog[r]]
      /\ notifications' = [r \in ReservationIds |->
            IF r \in decided
              THEN notifications[r] \o DecisionFanout(reservations[r], verdict, ctx.user)
              ELSE notifications[r]]
      /\ UNCHANGED <<userVars, cars, blackoutVars>>

\* POST /reservations/{id}/approve and /reject.  The slot, the car and the
\* blackouts are not looked at again.
Decide(ctx, r, verdict) ==
  /\ ctx.role \in DecisionRoles
  /\ reservations[r].status = "pending"
  /\ DecidePending(ctx, {r}, verdict)

\* POST /reservations/bulk-approve and /bulk-reject: missing ids and rows
\* already decided are skipped, the rest commit together.
BulkDecide(ctx, ids, verdict) ==
  /\ ctx.role \in DecisionRoles
  /\ DecidePending(ctx, ids, verdict)

\* Mutant: the requester of the trip is forgotten.
MutantReceptionOnly(row, actor) == ActiveWith(ReceptionRoles) \ {actor}

\* Everyone at the reception but the actor, and the requester unless they act.
TripTargets(row, actor) == (ActiveWith(ReceptionRoles) \cup {row.owner}) \ {actor}

\* Mutant: checked_out_at is not looked at.
MutantStartTripAgain(ctx, r) ==
  LET row == reservations[r]
  IN  /\ ctx.role \in ReceptionRoles
      /\ row.status = "approved"
      /\ ~row.returned
      /\ Transition(r, [row EXCEPT !.checkedOut = TRUE], ctx.user, "checked_out",
                    Notify("trip_started", TripTargets(row, ctx.user)))

StartTrip(ctx, r) ==
  LET row == reservations[r]
  IN  /\ ctx.role \in ReceptionRoles
      /\ row.status = "approved"
      /\ ~row.returned
      /\ ~row.checkedOut
      /\ Transition(r, [row EXCEPT !.checkedOut = TRUE], ctx.user, "checked_out",
                    Notify("trip_started", TripTargets(row, ctx.user)))

\* Mutant: returned_at is not looked at.
MutantReturnTripAgain(ctx, r) ==
  LET row == reservations[r]
  IN  /\ ctx.role \in ReceptionRoles
      /\ row.status = "approved"
      /\ row.checkedOut
      /\ Transition(r, [row EXCEPT !.returned = TRUE], ctx.user, "returned",
                    Notify("trip_returned", TripTargets(row, ctx.user)))

ReturnTrip(ctx, r) ==
  LET row == reservations[r]
  IN  /\ ctx.role \in ReceptionRoles
      /\ row.status = "approved"
      /\ row.checkedOut
      /\ ~row.returned
      /\ Transition(r, [row EXCEPT !.returned = TRUE], ctx.user, "returned",
                    Notify("trip_returned", TripTargets(row, ctx.user)))

\* Mutant: a cancellation does not look at the status at all.
MutantCancelAnything(ctx, r) ==
  /\ ctx.role \in AdminRoles \/ reservations[r].owner = ctx.user
  /\ Transition(r, [reservations[r] EXCEPT !.status = "cancelled"], ctx.user, "cancelled", <<>>)

\* Guarded by the stored status alone: checked_out_at and returned_at are not
\* read.
Cancel(ctx, r) ==
  LET row == reservations[r]
      targets == IF ctx.role \in AdminRoles THEN {row.owner} ELSE ActiveWith(DecisionRoles)
  IN  /\ row.status \in {"pending", "approved"}
      /\ ctx.role \in AdminRoles \/ row.owner = ctx.user
      /\ Transition(r, [row EXCEPT !.status = "cancelled"], ctx.user, "cancelled",
                    Notify("reservation_cancelled", targets \ {ctx.user}))
-----------------------------------------------------------------------------
(* routers/cars.py *)

SetCar(ctx, car, from, to) ==
  /\ ctx.role \in AdminRoles
  /\ cars[car] = from
  /\ cars' = [cars EXCEPT ![car] = to]
  /\ UNCHANGED <<userVars, bookingVars, blackoutVars>>

CreateCar(ctx, car)     == SetCar(ctx, car, "missing", "active")
DeactivateCar(ctx, car) == SetCar(ctx, car, "active", "inactive")
ActivateCar(ctx, car)   == SetCar(ctx, car, "inactive", "active")

\* POST /cars/{id}/blackouts up to its last read.  Only other blackouts are
\* looked at, never the reservations of the car.
CheckNewBlackout(writer, ctx, car, w) ==
  /\ ctx.role \in AdminRoles
  /\ blackoutWrite[writer] = Null
  /\ w.start < w.end
  /\ cars[car] # "missing"
  /\ BlackoutConflicts(car, w) = {}
  /\ blackoutWrite' = [blackoutWrite EXCEPT ![writer] =
        [id |-> 0, car |-> car, start |-> w.start, end |-> w.end]]
  /\ UNCHANGED <<userVars, cars, bookingVars, blackouts>>

\* PUT /cars/{id}/blackouts/{blackout_id} up to its last read.
CheckBlackoutEdit(writer, ctx, b, w) ==
  /\ ctx.role \in AdminRoles
  /\ blackoutWrite[writer] = Null
  /\ w.start < w.end
  /\ blackouts[b].active
  /\ BlackoutConflicts(blackouts[b].car, w) \subseteq {b}
  /\ blackoutWrite' = [blackoutWrite EXCEPT ![writer] =
        [id |-> b, car |-> blackouts[b].car, start |-> w.start, end |-> w.end]]
  /\ UNCHANGED <<userVars, cars, bookingVars, blackouts>>

\* INSERT INTO car_blackouts.
InsertBlackout(writer) ==
  LET w == blackoutWrite[writer]
  IN  /\ w # Null
      /\ w.id = 0
      /\ Len(blackouts) < MaxBlackouts
      /\ blackouts' = Append(blackouts,
            [car |-> w.car, start |-> w.start, end |-> w.end, active |-> TRUE])
      /\ blackoutWrite' = [blackoutWrite EXCEPT ![writer] = Null]
      /\ UNCHANGED <<userVars, cars, bookingVars>>

\* UPDATE car_blackouts SET ... WHERE id = ?, whether or not still active.
UpdateBlackout(writer) ==
  LET w == blackoutWrite[writer]
  IN  /\ w # Null
      /\ w.id # 0
      /\ blackouts' = [blackouts EXCEPT ![w.id].start = w.start, ![w.id].end = w.end]
      /\ blackoutWrite' = [blackoutWrite EXCEPT ![writer] = Null]
      /\ UNCHANGED <<userVars, cars, bookingVars>>

DeactivateBlackout(ctx, b) ==
  /\ ctx.role \in AdminRoles
  /\ blackouts[b].active
  /\ blackouts' = [blackouts EXCEPT ![b].active = FALSE]
  /\ UNCHANGED <<userVars, cars, bookingVars, blackoutWrite>>
-----------------------------------------------------------------------------
(* The surroundings *)

\* routers/users.py as far as it is seen from here: a role changes or an
\* account is switched on or off.  Requests that already read their context
\* keep it; new ones read the new row.
UserTableChange(u) ==
  \E row \in [role : Role, active : BOOLEAN] :
    /\ userChanges < MaxUserChanges
    /\ row # users[u]
    /\ users' = [users EXCEPT ![u] = row]
    /\ contexts' = contexts \cup AuthContexts(users')
    /\ userChanges' = userChanges + 1
    /\ UNCHANGED <<cars, bookingVars, blackoutVars>>

Window == [start : Time, end : Time]

ReservationHandler(ctx) ==
  \/ \E car \in Car, w \in Window : CreateReservation(ctx, car, w)
  \/ \E ids \in SUBSET (1 .. MaxReservations), verdict \in {"approved", "rejected"} :
        BulkDecide(ctx, ids, verdict)
  \/ \E r \in ReservationIds :
        \/ \E verdict \in {"approved", "rejected"} : Decide(ctx, r, verdict)
        \/ StartTrip(ctx, r)
        \/ ReturnTrip(ctx, r)
        \/ Cancel(ctx, r)

CarHandler(ctx) ==
  \/ \E car \in Car : CreateCar(ctx, car) \/ DeactivateCar(ctx, car) \/ ActivateCar(ctx, car)
  \/ \E writer \in BlackoutWriter, w \in Window :
        \/ \E car \in Car : CheckNewBlackout(writer, ctx, car, w)
        \/ \E b \in BlackoutIds : CheckBlackoutEdit(writer, ctx, b, w)
  \/ \E b \in BlackoutIds : DeactivateBlackout(ctx, b)

Next ==
  \/ \E ctx \in contexts : ReservationHandler(ctx) \/ CarHandler(ctx)
  \/ \E writer \in BlackoutWriter : InsertBlackout(writer) \/ UpdateBlackout(writer)
  \/ \E u \in User : UserTableChange(u)

Spec == Init /\ [][Next]_vars
-----------------------------------------------------------------------------
(* Safety *)

\* Two reservations that hold a slot of the same car never share a moment of
\* it: the overlap query of _create_reservation together with the fact that no
\* later transition makes a row hold its slot again.
NoDoubleBooking ==
  \A r1, r2 \in ReservationIds :
    /\ r1 # r2
    /\ reservations[r1].car = reservations[r2].car
    /\ Holds(reservations[r1])
    /\ Holds(reservations[r2])
    => ~Overlap(reservations[r1], reservations[r2])

StatusAfter(action) == IF action = "created" THEN "pending" ELSE action

\* The status the API shows is the one the newest audit row of the reservation
\* tells: no handler moves a reservation without logging it, logs a move it
\* does not make, or derives from the timestamps a status nobody recorded.
AuditMatchesStatus ==
  \A r \in ReservationIds :
    /\ auditLog[r] # <<>>
    /\ PresentationStatus(reservations[r]) = StatusAfter(auditLog[r][Len(auditLog[r])].action)

\* What may follow what in the audit trail of one reservation.  It has no
\* cycle, so no transition happens twice.
LifecycleStep ==
  {<<"created", "approved">>, <<"created", "rejected">>, <<"created", "cancelled">>,
   <<"approved", "checked_out">>, <<"approved", "cancelled">>,
   <<"checked_out", "returned">>, <<"checked_out", "cancelled">>,
   <<"returned", "cancelled">>}

\* The audit trail of a reservation is a path of that graph from "created",
\* whatever mix of single and bulk decisions, handovers and cancellations raced
\* for it: one decision, one pickup, one return, nothing after a rejection or a
\* cancellation.
AuditIsALifecycle ==
  \A r \in ReservationIds :
    LET log == auditLog[r]
    IN  /\ log # <<>>
        /\ log[1] = [actor |-> reservations[r].owner, action |-> "created"]
        /\ \A i \in 1 .. Len(log) - 1 : <<log[i].action, log[i + 1].action>> \in LifecycleStep

KindOf(action) ==
  CASE action \in {"approved", "rejected"} -> "reservation_decision"
    [] action = "checked_out"              -> "trip_started"
    [] action = "returned"                 -> "trip_returned"
    [] action = "cancelled"                -> "reservation_cancelled"

\* Whatever somebody else does to a reservation, its requester is told of it;
\* of a decision the requester is told even when it was their own.
RequesterInformed ==
  \A r \in ReservationIds : \A i \in 2 .. Len(auditLog[r]) :
    LET entry == auditLog[r][i]
        owner == reservations[r].owner
    IN  entry.actor # owner \/ entry.action \in {"approved", "rejected"} =>
          \E n \in 1 .. Len(notifications[r]) :
             /\ notifications[r][n].kind = KindOf(entry.action)
             /\ owner \in notifications[r][n].to

\* Nobody gets the same kind of notification twice for one reservation.
NoDuplicateNotification ==
  \A r \in ReservationIds : \A m, n \in 1 .. Len(notifications[r]) :
    /\ m # n
    /\ notifications[r][m].kind = notifications[r][n].kind
    => notifications[r][m].to \cap notifications[r][n].to = {}

\* A rejected or cancelled reservation never changes again, and who decided a
\* reservation is never rewritten: the conditional UPDATE of a late decision
\* and the status checks of every other transition leave it alone.
SettledIsFinal ==
  [][\A r \in ReservationIds :
       /\ reservations[r].status \in {"rejected", "cancelled"} => reservations'[r] = reservations[r]
       /\ reservations[r].decidedBy # Null => reservations'[r].decidedBy = reservations[r].decidedBy]_vars

\* The calendar of CarCalendar is what the two tables amount to: slots are
\* taken only when free and open, and then only given back.
CalendarEntry(id, row) == [id |-> id, car |-> row.car, start |-> row.start, end |-> row.end]
Calendar == INSTANCE CarCalendar WITH
  held   <- {CalendarEntry(r, reservations[r]) : r \in {k \in ReservationIds : Holds(reservations[k])}},
  closed <- {CalendarEntry(b, blackouts[b]) : b \in {k \in BlackoutIds : blackouts[k].active}}
CalendarSpec == Calendar!Spec
-----------------------------------------------------------------------------
(* What the documents say and the code does not do *)

\* Only pending or approved reservations, in the words the API itself uses for
\* their status, can be cancelled: not a car that is out or already back.
CancelOnlyBeforePickup ==
  [][\A r \in ReservationIds :
       reservations'[r].status = "cancelled" /\ reservations[r].status # "cancelled"
         => PresentationStatus(reservations[r]) \in {"pending", "approved"}]_vars

\* An edit never moves a blackout onto an approved reservation.
BlackoutEditSparesApproved ==
  [][\A b \in BlackoutIds :
       /\ blackouts'[b].active
       /\ <<blackouts'[b].start, blackouts'[b].end>> # <<blackouts[b].start, blackouts[b].end>>
       => \A r \in ReservationConflicts(blackouts[b].car, blackouts'[b]) :
             reservations[r].status # "approved"]_vars

\* Active blackouts of one car never overlap, as the 409 of both writers says.
BlackoutsDisjoint ==
  \A b \in BlackoutIds :
    blackouts[b].active => BlackoutConflicts(blackouts[b].car, blackouts[b]) = {b}

\* A role change or deactivation is in force at once: whoever decides a
\* reservation is, at that moment, an active user with a role that decides.
DecisionAuthorityIsLive ==
  [][\A r \in ReservationIds :
       reservations'[r].decidedBy # reservations[r].decidedBy
         => reservations'[r].decidedBy \in ActiveWith(DecisionRoles)]_vars
=============================================================================
