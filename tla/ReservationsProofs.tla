------------------------- MODULE ReservationsProofs -------------------------
(***************************************************************************)
(* Proofs about Reservations for every set of users and cars, every number *)
(* of concurrent blackout writers and every value of the bounds.           *)
(***************************************************************************)
EXTENDS Reservations, SequenceTheorems, TLAPS

-----------------------------------------------------------------------------
(* Helpers *)

\* AuthContexts only ever yields well-formed contexts.
LEMMA AuthContextsType ==
  ASSUME NEW t PROVE AuthContexts(t) \subseteq Context
  BY DEF AuthContexts

\* One call of create_notification(s) appends at most one well-formed fan-out.
LEMMA NotifyType ==
  ASSUME NEW kind \in Kind, NEW to \in SUBSET User
  PROVE  Notify(kind, to) \in Seq(Fanout)
<1> DEFINE fanout == [kind |-> kind, to |-> to]
<1>1. fanout \in Fanout  BY DEF Fanout
<1>2. <<fanout>> \in Seq(Fanout)
  <2> HIDE DEF fanout
  <2> QED BY <1>1
<1>3. <<>> \in Seq(Fanout)  OBVIOUS
<1>4. QED BY <1>2, <1>3 DEF Notify

LEMMA ActiveWithType == ASSUME NEW roles PROVE ActiveWith(roles) \in SUBSET User
  BY DEF ActiveWith

LEMMA DecisionFanoutType ==
  ASSUME NEW row \in Reservation, NEW verdict, NEW actor
  PROVE  DecisionFanout(row, verdict, actor) \in Seq(Fanout)
<1>1. row.owner \in User  BY DEF Reservation
<1>2. Notify("reservation_decision", {row.owner}) \in Seq(Fanout)
  BY <1>1, NotifyType DEF Kind
<1>3. Notify("reception_handoff", ActiveWith(ReceptionRoles) \ {actor, row.owner}) \in Seq(Fanout)
  BY NotifyType, ActiveWithType DEF Kind
<1>4. QED BY <1>2, <1>3, ConcatProperties DEF DecisionFanout

\* A transition of one reservation leaves three well-formed tables.
LEMMA TransitionType ==
  ASSUME TypeOK, NEW r \in ReservationIds, NEW row \in Reservation, NEW actor \in User,
         NEW action \in AuditAction, NEW fanout \in Seq(Fanout),
         Transition(r, row, actor, action, fanout)
  PROVE  TypeOK'
<1> DEFINE entry == [actor |-> actor, action |-> action]
<1>1. r \in 1 .. Len(reservations) /\ r \in 1 .. Len(auditLog) /\ r \in 1 .. Len(notifications)
  BY DEF TypeOK, ReservationIds
<1>2. auditLog[r] \in Seq(AuditEntry) /\ notifications[r] \in Seq(Fanout)
  BY <1>1, ElementOfSeq DEF TypeOK
<1>3. Append(auditLog[r], entry) \in Seq(AuditEntry)
  BY <1>2, AppendProperties DEF AuditEntry
<1>4. notifications[r] \o fanout \in Seq(Fanout)
  BY <1>2, ConcatProperties
<1>5. reservations' \in Seq(Reservation) /\ Len(reservations') = Len(reservations)
  BY <1>1, ExceptSeq DEF TypeOK, Transition
<1>6. auditLog' \in Seq(Seq(AuditEntry)) /\ Len(auditLog') = Len(auditLog)
  BY <1>1, <1>3, ExceptSeq DEF TypeOK, Transition
<1>7. notifications' \in Seq(Seq(Fanout)) /\ Len(notifications') = Len(notifications)
  BY <1>1, <1>4, ExceptSeq DEF TypeOK, Transition
<1>8. QED
  BY <1>5, <1>6, <1>7 DEF TypeOK, Transition, userVars, blackoutVars

LEMMA InitType == Init => TypeOK
<1> SUFFICES ASSUME Init PROVE TypeOK  OBVIOUS
<1>1. users \in [User -> [role : Role, active : BOOLEAN]]
  BY RolesAssumption DEF Init
<1>2. contexts \subseteq Context  BY AuthContextsType DEF Init
<1>3. QED BY <1>1, <1>2, BoundAssumption DEF Init, TypeOK, Time

LEMMA CreateReservationType ==
  ASSUME TypeOK, NEW ctx \in Context, NEW car \in Car, NEW w \in Window,
         CreateReservation(ctx, car, w)
  PROVE  TypeOK'
<1> DEFINE row == [status |-> "pending", car |-> car, owner |-> ctx.user,
                   start |-> w.start, end |-> w.end,
                   checkedOut |-> FALSE, returned |-> FALSE, decidedBy |-> Null]
           entry  == [actor |-> ctx.user, action |-> "created"]
           fanout == Notify("reservation_requested", ActiveWith(DecisionRoles) \ {ctx.user})
<1>1. ctx.user \in User /\ w.start \in Time /\ w.end \in Time
  BY DEF Context, Window
<1>2. row \in Reservation  BY <1>1 DEF Reservation, StoredStatus
<1>3. entry \in AuditEntry  BY <1>1 DEF AuditEntry, AuditAction
<1>4. <<entry>> \in Seq(AuditEntry)
  <2> HIDE DEF entry
  <2> QED BY <1>3
<1>5. fanout \in Seq(Fanout)  BY NotifyType, ActiveWithType DEF Kind
<1>6. /\ reservations' = Append(reservations, row)
      /\ auditLog' = Append(auditLog, <<entry>>)
      /\ notifications' = Append(notifications, fanout)
      /\ UNCHANGED <<userVars, cars, blackoutVars>>
  BY DEF CreateReservation
<1> HIDE DEF row, entry, fanout
<1>7. reservations' \in Seq(Reservation) /\ Len(reservations') = Len(reservations) + 1
  BY <1>2, <1>6, AppendProperties DEF TypeOK
<1>8. auditLog' \in Seq(Seq(AuditEntry)) /\ Len(auditLog') = Len(auditLog) + 1
  BY <1>4, <1>6, AppendProperties DEF TypeOK
<1>9. notifications' \in Seq(Seq(Fanout)) /\ Len(notifications') = Len(notifications) + 1
  BY <1>5, <1>6, AppendProperties DEF TypeOK
<1>10. QED
  BY <1>6, <1>7, <1>8, <1>9 DEF TypeOK, userVars, blackoutVars

LEMMA DecidePendingType ==
  ASSUME TypeOK, NEW ctx \in Context, NEW ids, NEW verdict \in {"approved", "rejected"},
         DecidePending(ctx, ids, verdict)
  PROVE  TypeOK'
<1> DEFINE n == Len(reservations)
           decided == {r \in ids \cap ReservationIds : reservations[r].status = "pending"}
           entry == [actor |-> ctx.user, action |-> verdict]
           decide(r) == Decided(reservations[r], verdict, ctx.user)
           fanout(r) == DecisionFanout(reservations[r], verdict, ctx.user)
<1>1. n \in Nat /\ ReservationIds = 1 .. n  BY DEF TypeOK, ReservationIds
<1>2. ctx.user \in User  BY DEF Context
<1>3. entry \in AuditEntry  BY <1>2 DEF AuditEntry, AuditAction
<1>4. ASSUME NEW r \in 1 .. n
      PROVE  /\ reservations[r] \in Reservation
             /\ auditLog[r] \in Seq(AuditEntry)
             /\ notifications[r] \in Seq(Fanout)
  BY ElementOfSeq DEF TypeOK
<1>5. ASSUME NEW r \in 1 .. n
      PROVE  /\ decide(r) \in Reservation
             /\ Append(auditLog[r], entry) \in Seq(AuditEntry)
             /\ notifications[r] \o fanout(r) \in Seq(Fanout)
  <2>1. decide(r) \in Reservation
    BY <1>2, <1>4 DEF Decided, Reservation, StoredStatus
  <2>2. Append(auditLog[r], entry) \in Seq(AuditEntry)
    BY <1>3, <1>4, AppendProperties
  <2>3. notifications[r] \o fanout(r) \in Seq(Fanout)
    BY <1>4, DecisionFanoutType, ConcatProperties
  <2>4. QED BY <2>1, <2>2, <2>3
<1>6. /\ reservations' = [r \in 1 .. n |-> IF r \in decided THEN decide(r) ELSE reservations[r]]
      /\ auditLog' = [r \in 1 .. n |-> IF r \in decided THEN Append(auditLog[r], entry)
                                                         ELSE auditLog[r]]
      /\ notifications' = [r \in 1 .. n |-> IF r \in decided THEN notifications[r] \o fanout(r)
                                                              ELSE notifications[r]]
      /\ UNCHANGED <<userVars, cars, blackoutVars>>
  BY <1>1 DEF DecidePending
<1> HIDE DEF n, decided, entry, decide, fanout
<1>7. reservations' \in [1 .. n -> Reservation]  BY <1>4, <1>5, <1>6
<1>8. auditLog' \in [1 .. n -> Seq(AuditEntry)]  BY <1>4, <1>5, <1>6
<1>9. notifications' \in [1 .. n -> Seq(Fanout)]  BY <1>4, <1>5, <1>6
<1>10. /\ reservations' \in Seq(Reservation) /\ Len(reservations') = n
       /\ auditLog' \in Seq(Seq(AuditEntry)) /\ Len(auditLog') = n
       /\ notifications' \in Seq(Seq(Fanout)) /\ Len(notifications') = n
  BY <1>1, <1>7, <1>8, <1>9
<1>11. QED BY <1>6, <1>10 DEF TypeOK, userVars, blackoutVars

\* A step that only moves car_blackouts and the writes in flight on it.
LEMMA BlackoutStepType ==
  ASSUME TypeOK,
         blackouts' \in Seq(Blackout),
         Len(blackouts') \in Len(blackouts) .. Len(blackouts) + 1,
         NEW writer \in BlackoutWriter,
         NEW w \in BlackoutWrite \cup {Null},
         w # Null => w.id \in 0 .. Len(blackouts),
         blackoutWrite' = [blackoutWrite EXCEPT ![writer] = w] \/ UNCHANGED blackoutWrite,
         UNCHANGED <<userVars, cars, bookingVars>>
  PROVE  TypeOK'
<1>1. Len(blackouts) \in Nat /\ Len(blackouts') \in Nat  BY DEF TypeOK
<1>2. blackoutWrite' \in [BlackoutWriter -> BlackoutWrite \cup {Null}]  BY DEF TypeOK
<1>3. ASSUME NEW v \in BlackoutWriter, blackoutWrite'[v] # Null
      PROVE  blackoutWrite'[v].id \in 0 .. Len(blackouts')
  <2>1. blackoutWrite'[v] = blackoutWrite[v] \/ blackoutWrite'[v] = w  BY DEF TypeOK
  <2>2. blackoutWrite'[v].id \in 0 .. Len(blackouts)  BY <1>3, <2>1 DEF TypeOK
  <2>3. QED BY <1>1, <2>2
<1>4. QED BY <1>2, <1>3 DEF TypeOK, userVars, bookingVars

LEMMA CarHandlerType ==
  ASSUME TypeOK, NEW ctx \in Context, CarHandler(ctx)
  PROVE  TypeOK'
<1>1. ASSUME NEW car \in Car, CreateCar(ctx, car) \/ DeactivateCar(ctx, car) \/ ActivateCar(ctx, car)
      PROVE  TypeOK'
  BY <1>1 DEF CreateCar, DeactivateCar, ActivateCar, SetCar, TypeOK, userVars, bookingVars, blackoutVars
<1>2. ASSUME NEW writer \in BlackoutWriter, NEW w \in Window, NEW car \in Car,
             CheckNewBlackout(writer, ctx, car, w)
      PROVE  TypeOK'
  <2> DEFINE write == [id |-> 0, car |-> car, start |-> w.start, end |-> w.end]
  <2>1. write \in BlackoutWrite  BY DEF BlackoutWrite, Window
  <2>2. blackouts' \in Seq(Blackout) /\ Len(blackouts') \in Len(blackouts) .. Len(blackouts) + 1
    BY <1>2 DEF CheckNewBlackout, TypeOK
  <2>3. write.id \in 0 .. Len(blackouts)  BY DEF TypeOK
  <2>4. QED BY <1>2, <2>1, <2>2, <2>3, BlackoutStepType DEF CheckNewBlackout
<1>3. ASSUME NEW writer \in BlackoutWriter, NEW w \in Window, NEW b \in BlackoutIds,
             CheckBlackoutEdit(writer, ctx, b, w)
      PROVE  TypeOK'
  <2> DEFINE write == [id |-> b, car |-> blackouts[b].car, start |-> w.start, end |-> w.end]
  <2>1. b \in 1 .. Len(blackouts) /\ Len(blackouts) \in Nat  BY DEF BlackoutIds, TypeOK
  <2>2. blackouts[b] \in Blackout  BY <2>1, ElementOfSeq DEF TypeOK
  <2>3. write \in BlackoutWrite  BY <2>1, <2>2 DEF BlackoutWrite, Window, Blackout
  <2>4. blackouts' \in Seq(Blackout) /\ Len(blackouts') \in Len(blackouts) .. Len(blackouts) + 1
    BY <1>3 DEF CheckBlackoutEdit, TypeOK
  <2>5. write.id \in 0 .. Len(blackouts)  BY <2>1
  <2>6. QED BY <1>3, <2>3, <2>4, <2>5, BlackoutStepType DEF CheckBlackoutEdit
<1>4. ASSUME NEW b \in BlackoutIds, DeactivateBlackout(ctx, b)
      PROVE  TypeOK'
  <2>1. b \in 1 .. Len(blackouts) /\ Len(blackouts) \in Nat  BY DEF BlackoutIds, TypeOK
  <2>2. [blackouts[b] EXCEPT !.active = FALSE] \in Blackout
    <3>1. blackouts[b] \in Blackout  BY <2>1, ElementOfSeq DEF TypeOK
    <3>2. QED BY <3>1 DEF Blackout
  <2>3. blackouts' = [blackouts EXCEPT ![b] = [blackouts[b] EXCEPT !.active = FALSE]]
    BY <1>4 DEF DeactivateBlackout
  <2>4. blackouts' \in Seq(Blackout) /\ Len(blackouts') = Len(blackouts)
    BY <2>1, <2>2, <2>3, ExceptSeq DEF TypeOK
  <2>5. QED BY <1>4, <2>4 DEF DeactivateBlackout, TypeOK, userVars, bookingVars
<1>5. QED BY <1>1, <1>2, <1>3, <1>4 DEF CarHandler

LEMMA BlackoutWriteType ==
  ASSUME TypeOK, NEW writer \in BlackoutWriter, InsertBlackout(writer) \/ UpdateBlackout(writer)
  PROVE  TypeOK'
<1> DEFINE w == blackoutWrite[writer]
<1>1. w # Null /\ w \in BlackoutWrite /\ w.id \in 0 .. Len(blackouts)
  BY DEF InsertBlackout, UpdateBlackout, TypeOK
<1>2. CASE InsertBlackout(writer)
  <2> DEFINE row == [car |-> w.car, start |-> w.start, end |-> w.end, active |-> TRUE]
  <2>1. row \in Blackout  BY <1>1 DEF BlackoutWrite, Blackout
  <2>2. blackouts' = Append(blackouts, row)  BY <1>2 DEF InsertBlackout
  <2> HIDE DEF row
  <2>3. blackouts' \in Seq(Blackout) /\ Len(blackouts') = Len(blackouts) + 1
    BY <2>1, <2>2, AppendProperties DEF TypeOK
  <2>4. Len(blackouts') \in Len(blackouts) .. Len(blackouts) + 1  BY <2>3 DEF TypeOK
  <2>5. QED BY <1>2, <2>3, <2>4, BlackoutStepType DEF InsertBlackout
<1>3. CASE UpdateBlackout(writer)
  <2> DEFINE row == [blackouts[w.id] EXCEPT !.start = w.start, !.end = w.end]
  <2>1. w.id \in 1 .. Len(blackouts)  BY <1>1, <1>3 DEF UpdateBlackout, TypeOK
  <2>2. blackouts[w.id] \in Blackout  BY <2>1, ElementOfSeq DEF TypeOK
  <2>3. row \in Blackout  BY <1>1, <2>2 DEF BlackoutWrite, Blackout
  <2>4. blackouts' = [blackouts EXCEPT ![w.id] = row]  BY <1>3, <2>1 DEF UpdateBlackout
  <2> HIDE DEF row
  <2>5. blackouts' \in Seq(Blackout) /\ Len(blackouts') = Len(blackouts)
    BY <2>1, <2>3, <2>4, ExceptSeq DEF TypeOK
  <2>6. Len(blackouts') \in Len(blackouts) .. Len(blackouts) + 1  BY <2>5 DEF TypeOK
  <2>7. QED BY <1>3, <2>5, <2>6, BlackoutStepType DEF UpdateBlackout
<1>4. QED BY <1>2, <1>3

LEMMA ReservationHandlerType ==
  ASSUME TypeOK, NEW ctx \in Context, ReservationHandler(ctx)
  PROVE  TypeOK'
<1>1. ASSUME NEW car \in Car, NEW w \in Window, CreateReservation(ctx, car, w)
      PROVE  TypeOK'
  BY <1>1, CreateReservationType
<1>2. ASSUME NEW ids, NEW verdict \in {"approved", "rejected"}, BulkDecide(ctx, ids, verdict)
      PROVE  TypeOK'
  BY <1>2, DecidePendingType DEF BulkDecide
<1>3. ASSUME NEW r \in ReservationIds, NEW verdict \in {"approved", "rejected"},
             Decide(ctx, r, verdict)
      PROVE  TypeOK'
  BY <1>3, DecidePendingType DEF Decide
<1>4. ASSUME NEW r \in ReservationIds, StartTrip(ctx, r) \/ ReturnTrip(ctx, r) \/ Cancel(ctx, r)
      PROVE  TypeOK'
  <2> DEFINE row == reservations[r]
  <2>1. row \in Reservation  BY ElementOfSeq DEF TypeOK, ReservationIds
  <2>2. ctx.user \in User /\ row.owner \in User  BY <2>1 DEF Context, Reservation
  <2>3. CASE StartTrip(ctx, r)
    <3>1. [row EXCEPT !.checkedOut = TRUE] \in Reservation  BY <2>1 DEF Reservation
    <3>2. Notify("trip_started", TripTargets(row, ctx.user)) \in Seq(Fanout)
      BY <2>2, NotifyType, ActiveWithType DEF Kind, TripTargets
    <3>3. QED BY <2>2, <2>3, <3>1, <3>2, TransitionType DEF StartTrip, AuditAction
  <2>4. CASE ReturnTrip(ctx, r)
    <3>1. [row EXCEPT !.returned = TRUE] \in Reservation  BY <2>1 DEF Reservation
    <3>2. Notify("trip_returned", TripTargets(row, ctx.user)) \in Seq(Fanout)
      BY <2>2, NotifyType, ActiveWithType DEF Kind, TripTargets
    <3>3. QED BY <2>2, <2>4, <3>1, <3>2, TransitionType DEF ReturnTrip, AuditAction
  <2>5. CASE Cancel(ctx, r)
    <3> DEFINE targets == IF ctx.role \in AdminRoles THEN {row.owner} ELSE ActiveWith(DecisionRoles)
    <3>1. [row EXCEPT !.status = "cancelled"] \in Reservation
      BY <2>1 DEF Reservation, StoredStatus
    <3>2. Notify("reservation_cancelled", targets \ {ctx.user}) \in Seq(Fanout)
      BY <2>2, NotifyType, ActiveWithType DEF Kind
    <3>3. QED BY <2>2, <2>5, <3>1, <3>2, TransitionType DEF Cancel, AuditAction
  <2>6. QED BY <1>4, <2>3, <2>4, <2>5
<1>5. QED BY <1>1, <1>2, <1>3, <1>4 DEF ReservationHandler

LEMMA TypeStep == TypeOK /\ [Next]_vars => TypeOK'
<1> SUFFICES ASSUME TypeOK, [Next]_vars PROVE TypeOK'  OBVIOUS
<1>1. CASE UNCHANGED vars
  BY <1>1 DEF vars, userVars, bookingVars, blackoutVars, TypeOK
<1>2. ASSUME NEW ctx \in contexts, ReservationHandler(ctx) \/ CarHandler(ctx)
      PROVE  TypeOK'
  BY <1>2, ReservationHandlerType, CarHandlerType DEF TypeOK
<1>3. ASSUME NEW writer \in BlackoutWriter, InsertBlackout(writer) \/ UpdateBlackout(writer)
      PROVE  TypeOK'
  BY <1>3, BlackoutWriteType
<1>4. ASSUME NEW u \in User, UserTableChange(u)
      PROVE  TypeOK'
  <2>1. users' \in [User -> [role : Role, active : BOOLEAN]]
    BY <1>4 DEF UserTableChange, TypeOK
  <2>2. contexts' \subseteq Context /\ userChanges' \in Nat
    BY <1>4, AuthContextsType DEF UserTableChange, TypeOK
  <2>3. QED BY <1>4, <2>1, <2>2 DEF UserTableChange, TypeOK, bookingVars, blackoutVars
<1>5. QED BY <1>1, <1>2, <1>3, <1>4 DEF Next

\* Every step of every handler, whatever it races with, keeps the tables, the
\* contexts and the writes in flight well formed; in particular the audit and
\* notification rows stay in step with the reservations.
THEOREM TypeCorrect == Spec => []TypeOK
BY InitType, TypeStep, PTL DEF Spec
-----------------------------------------------------------------------------
(* How each step treats the rows of reservations *)

\* A row may only move on: it stays the same booking, and it never holds its
\* slot again once it has let it go.
RowMovesOn(old, new) ==
  /\ new.car = old.car /\ new.owner = old.owner
  /\ new.start = old.start /\ new.end = old.end
  /\ Holds(new) => Holds(old)
  /\ old.status \in {"rejected", "cancelled"} => new = old
  /\ old.decidedBy # Null => new.decidedBy = old.decidedBy

RowsMoveOn ==
  /\ Len(reservations') = Len(reservations)
  /\ \A r \in ReservationIds : RowMovesOn(reservations[r], reservations'[r])

\* A decision has been taken exactly when the row is past "pending" by way of
\* one: a pending row carries no decider, a decided one does.
DeciderRecorded ==
  \A r \in ReservationIds :
    /\ reservations[r].status = "pending" => reservations[r].decidedBy = Null
    /\ reservations[r].status \in {"approved", "rejected"} => reservations[r].decidedBy # Null

LEMMA RowType == ASSUME TypeOK, NEW r \in ReservationIds PROVE reservations[r] \in Reservation
  BY ElementOfSeq DEF TypeOK, ReservationIds

LEMMA TransitionRows ==
  ASSUME TypeOK, NEW r \in ReservationIds, NEW row, NEW actor, NEW action, NEW fanout,
         Transition(r, row, actor, action, fanout)
  PROVE  /\ Len(reservations') = Len(reservations)
         /\ reservations'[r] = row
         /\ \A s \in ReservationIds \ {r} : reservations'[s] = reservations[s]
  BY DEF Transition, TypeOK, ReservationIds

\* A decision touches pending rows only, and those only by deciding them.
LEMMA DecidePendingRows ==
  ASSUME TypeOK, NEW ctx \in Context, NEW ids, NEW verdict \in {"approved", "rejected"},
         DecidePending(ctx, ids, verdict)
  PROVE  /\ Len(reservations') = Len(reservations)
         /\ \A r \in ReservationIds :
              \/ reservations'[r] = reservations[r]
              \/ /\ reservations[r].status = "pending"
                 /\ reservations'[r] = Decided(reservations[r], verdict, ctx.user)
<1> DEFINE n == Len(reservations)
           decided == {r \in ids \cap ReservationIds : reservations[r].status = "pending"}
           decide(r) == Decided(reservations[r], verdict, ctx.user)
<1>1. n \in Nat /\ ReservationIds = 1 .. n  BY DEF TypeOK, ReservationIds
<1>2. reservations' = [r \in 1 .. n |-> IF r \in decided THEN decide(r) ELSE reservations[r]]
  BY <1>1 DEF DecidePending
<1>3. \A r \in decided : reservations[r].status = "pending"  OBVIOUS
<1> HIDE DEF decided, n
<1>4. Len(reservations') = n
  <2> HIDE DEF decide
  <2> QED BY <1>1, <1>2
<1>5. QED BY <1>1, <1>2, <1>3, <1>4 DEF n

LEMMA HandlerRows ==
  ASSUME TypeOK, DeciderRecorded, NEW ctx \in Context, ReservationHandler(ctx),
         ~ \E car \in Car, w \in Window : CreateReservation(ctx, car, w)
  PROVE  RowsMoveOn /\ DeciderRecorded'
<1>1. ctx.user \in User /\ ctx.user # Null  BY NullAssumption DEF Context
<1>2. ASSUME NEW ids, NEW verdict \in {"approved", "rejected"}, DecidePending(ctx, ids, verdict)
      PROVE  RowsMoveOn /\ DeciderRecorded'
  <2>1. ReservationIds' = ReservationIds  BY <1>2, DecidePendingRows DEF ReservationIds
  <2>2. \A r \in ReservationIds :
          \/ reservations'[r] = reservations[r]
          \/ /\ reservations[r].status = "pending"
             /\ reservations'[r] = Decided(reservations[r], verdict, ctx.user)
    BY <1>2, DecidePendingRows
  <2>3. ASSUME NEW r \in ReservationIds
        PROVE  /\ RowMovesOn(reservations[r], reservations'[r])
               /\ reservations'[r].status = "pending" => reservations'[r].decidedBy = Null
               /\ reservations'[r].status \in {"approved", "rejected"} => reservations'[r].decidedBy # Null
    <3>1. CASE reservations'[r] = reservations[r]
      BY <3>1 DEF RowMovesOn, DeciderRecorded
    <3>2. CASE /\ reservations[r].status = "pending"
               /\ reservations'[r] = Decided(reservations[r], verdict, ctx.user)
      BY <1>1, <3>2, RowType DEF Decided, RowMovesOn, DeciderRecorded, Holds, Reservation
    <3>3. QED BY <2>2, <3>1, <3>2
  <2>4. Len(reservations') = Len(reservations)  BY <1>2, DecidePendingRows
  <2>5. QED BY <2>1, <2>3, <2>4 DEF RowsMoveOn, DeciderRecorded
<1>3. ASSUME NEW r \in ReservationIds, StartTrip(ctx, r) \/ ReturnTrip(ctx, r) \/ Cancel(ctx, r)
      PROVE  RowsMoveOn /\ DeciderRecorded'
  <2> DEFINE old == reservations[r]
  <2>1. old \in Reservation  BY RowType
  <2>2. PICK new, action, fanout :
          /\ Transition(r, new, ctx.user, action, fanout)
          /\ old.status \in {"pending", "approved"}
          /\ \/ old.status = "approved" /\ new = [old EXCEPT !.checkedOut = TRUE]
             \/ old.status = "approved" /\ new = [old EXCEPT !.returned = TRUE]
             \/ new = [old EXCEPT !.status = "cancelled"]
    BY <1>3 DEF StartTrip, ReturnTrip, Cancel
  <2>3. RowMovesOn(old, new)
    BY <2>1, <2>2 DEF RowMovesOn, Holds, Reservation
  <2>4. /\ new.status = "pending" => new.decidedBy = Null
        /\ new.status \in {"approved", "rejected"} => new.decidedBy # Null
    BY <2>1, <2>2 DEF DeciderRecorded, Reservation
  <2>5. /\ Len(reservations') = Len(reservations)
        /\ reservations'[r] = new
        /\ \A s \in ReservationIds \ {r} : reservations'[s] = reservations[s]
    BY <2>2, TransitionRows
  <2>6. ReservationIds' = ReservationIds  BY <2>5 DEF ReservationIds
  <2>7. RowsMoveOn
    BY <2>3, <2>5 DEF RowsMoveOn, RowMovesOn
  <2>8. DeciderRecorded'
    BY <2>4, <2>5, <2>6 DEF DeciderRecorded
  <2>9. QED BY <2>7, <2>8
<1>4. QED BY <1>2, <1>3 DEF ReservationHandler, Decide, BulkDecide

\* Every step either books a slot, moves existing rows on, or does not touch
\* the reservations at all.
LEMMA StepKinds ==
  ASSUME TypeOK, DeciderRecorded, [Next]_vars
  PROVE  \/ \E ctx \in Context, car \in Car, w \in Window : CreateReservation(ctx, car, w)
         \/ RowsMoveOn /\ DeciderRecorded'
<1>1. CASE UNCHANGED reservations
  BY <1>1 DEF RowsMoveOn, RowMovesOn, DeciderRecorded, ReservationIds
<1>2. ASSUME NEW ctx \in contexts, ReservationHandler(ctx)
      PROVE  \/ \E car \in Car, w \in Window : CreateReservation(ctx, car, w)
             \/ RowsMoveOn /\ DeciderRecorded'
  BY <1>2, HandlerRows DEF TypeOK
<1>3. ASSUME NEW ctx \in contexts, CarHandler(ctx)
      PROVE  UNCHANGED reservations
  BY <1>3 DEF CarHandler, CreateCar, DeactivateCar, ActivateCar, SetCar, CheckNewBlackout,
              CheckBlackoutEdit, DeactivateBlackout, bookingVars
<1>4. contexts \subseteq Context  BY DEF TypeOK
<1>5. QED
  BY <1>1, <1>2, <1>3, <1>4 DEF Next, InsertBlackout, UpdateBlackout, UserTableChange,
                                vars, bookingVars

LEMMA CreateRows ==
  ASSUME TypeOK, NEW ctx \in Context, NEW car \in Car, NEW w \in Window,
         CreateReservation(ctx, car, w)
  PROVE  LET n == Len(reservations)
         IN  /\ n \in Nat
             /\ Len(reservations') = n + 1
             /\ \A r \in 1 .. n : reservations'[r] = reservations[r]
             /\ reservations'[n + 1] =
                  [status |-> "pending", car |-> car, owner |-> ctx.user,
                   start |-> w.start, end |-> w.end,
                   checkedOut |-> FALSE, returned |-> FALSE, decidedBy |-> Null]
  BY DEF CreateReservation, TypeOK

-----------------------------------------------------------------------------
(* No double booking *)

SlotInv == TypeOK /\ DeciderRecorded /\ NoDoubleBooking

LEMMA SlotInvInductive == SlotInv /\ [Next]_vars => SlotInv'
<1> SUFFICES ASSUME SlotInv, [Next]_vars PROVE DeciderRecorded' /\ NoDoubleBooking'
  BY TypeStep DEF SlotInv
<1> USE DEF SlotInv
<1>1. CASE RowsMoveOn /\ DeciderRecorded'
  <2>1. ReservationIds' = ReservationIds  BY <1>1 DEF RowsMoveOn, ReservationIds
  <2>2. NoDoubleBooking'
    BY <1>1, <2>1 DEF NoDoubleBooking, RowsMoveOn, RowMovesOn, Overlap
  <2>3. QED BY <1>1, <2>2
<1>2. ASSUME NEW ctx \in Context, NEW car \in Car, NEW w \in Window,
             CreateReservation(ctx, car, w)
      PROVE  DeciderRecorded' /\ NoDoubleBooking'
  <2> DEFINE n == Len(reservations)
             new == [status |-> "pending", car |-> car, owner |-> ctx.user,
                     start |-> w.start, end |-> w.end,
                     checkedOut |-> FALSE, returned |-> FALSE, decidedBy |-> Null]
  <2>1. /\ n \in Nat /\ Len(reservations') = n + 1
        /\ \A r \in 1 .. n : reservations'[r] = reservations[r]
        /\ reservations'[n + 1] = new
    BY <1>2, CreateRows
  <2>2. ReservationIds = 1 .. n /\ ReservationIds' = 1 .. n + 1
    BY <2>1 DEF ReservationIds
  <2>3. DeciderRecorded'
    BY <2>1, <2>2 DEF DeciderRecorded
  <2>4. ASSUME NEW r \in 1 .. n, reservations[r].car = car, Holds(reservations[r])
        PROVE  ~Overlap(reservations[r], w)
    BY <1>2, <2>2, <2>4 DEF CreateReservation, ReservationConflicts
  <2>5. ASSUME NEW r \in 1 .. n, reservations[r].car = car, Holds(reservations[r])
        PROVE  ~Overlap(reservations[r], new) /\ ~Overlap(new, reservations[r])
    <3>1. /\ reservations[r].start \in Nat /\ reservations[r].end \in Nat
          /\ w.start \in Nat /\ w.end \in Nat
      BY <2>2, RowType, BoundAssumption DEF Reservation, Window, Time
    <3>2. QED BY <2>4, <2>5, <3>1 DEF Overlap
  <2>6. NoDoubleBooking'
    <3> SUFFICES ASSUME NEW r1 \in 1 .. n + 1, NEW r2 \in 1 .. n + 1, r1 # r2,
                        reservations'[r1].car = reservations'[r2].car,
                        Holds(reservations'[r1]), Holds(reservations'[r2])
                 PROVE  ~Overlap(reservations'[r1], reservations'[r2])
      BY <2>2 DEF NoDoubleBooking
    <3>1. CASE r1 \in 1 .. n /\ r2 \in 1 .. n
      BY <2>1, <2>2, <3>1 DEF NoDoubleBooking
    <3>0. new.car = car  OBVIOUS
    <3> HIDE DEF new, n
    <3>2. CASE r1 \in 1 .. n /\ r2 = n + 1
      BY <2>1, <2>5, <3>0, <3>2
    <3>3. CASE r1 = n + 1 /\ r2 \in 1 .. n
      BY <2>1, <2>5, <3>0, <3>3
    <3>4. QED BY <2>1, <3>1, <3>2, <3>3
  <2>7. QED BY <2>3, <2>6
<1>3. QED BY <1>1, <1>2, StepKinds

\* On SQLite no interleaving of requests ever books the same moment of a car
\* twice, however many users, cars and reservations there are.
THEOREM BookingIsExclusive == Spec => []NoDoubleBooking
<1>1. Init => SlotInv
  BY InitType DEF Init, SlotInv, DeciderRecorded, NoDoubleBooking, ReservationIds
<1>2. SlotInv => NoDoubleBooking  BY DEF SlotInv
<1>3. QED BY <1>1, <1>2, SlotInvInductive, PTL DEF Spec

\* A rejected or cancelled reservation never changes again and a decider is
\* never rewritten.
THEOREM SettledStaysSettled == Spec => SettledIsFinal
<1>1. SlotInv /\ [Next]_vars =>
        [\A r \in ReservationIds :
           /\ reservations[r].status \in {"rejected", "cancelled"} => reservations'[r] = reservations[r]
           /\ reservations[r].decidedBy # Null
                => reservations'[r].decidedBy = reservations[r].decidedBy]_vars
  <2> SUFFICES ASSUME SlotInv, [Next]_vars, NEW r \in ReservationIds
               PROVE  /\ reservations[r].status \in {"rejected", "cancelled"}
                           => reservations'[r] = reservations[r]
                      /\ reservations[r].decidedBy # Null
                           => reservations'[r].decidedBy = reservations[r].decidedBy
    OBVIOUS
  <2>1. CASE RowsMoveOn  BY <2>1 DEF RowsMoveOn, RowMovesOn
  <2>2. ASSUME NEW ctx \in Context, NEW car \in Car, NEW w \in Window,
               CreateReservation(ctx, car, w)
        PROVE  reservations'[r] = reservations[r]
    BY <2>2, CreateRows DEF SlotInv, ReservationIds
  <2>3. QED BY <2>1, <2>2, StepKinds DEF SlotInv
<1>2. Init => SlotInv
  BY InitType DEF Init, SlotInv, DeciderRecorded, NoDoubleBooking, ReservationIds
<1>3. QED BY <1>1, <1>2, SlotInvInductive, PTL DEF Spec, SettledIsFinal
-----------------------------------------------------------------------------
(* The reservations implement the calendar *)

HeldSlots   == {CalendarEntry(r, reservations[r]) : r \in {k \in ReservationIds : Holds(reservations[k])}}
ClosedSlots == {CalendarEntry(b, blackouts[b]) : b \in {k \in BlackoutIds : blackouts[k].active}}

\* No handler writes both tables.
LEMMA OneTableAtATime ==
  ASSUME TypeOK, [Next]_vars
  PROVE  UNCHANGED reservations \/ UNCHANGED blackouts
<1>1. CASE UNCHANGED vars  BY <1>1 DEF vars, bookingVars
<1>2. ASSUME NEW ctx \in contexts, ReservationHandler(ctx)
      PROVE  UNCHANGED blackouts
  BY <1>2 DEF ReservationHandler, CreateReservation, BulkDecide, Decide, DecidePending,
              StartTrip, ReturnTrip, Cancel, Transition, blackoutVars
<1>3. ASSUME NEW ctx \in contexts, CarHandler(ctx)
      PROVE  UNCHANGED reservations
  BY <1>3 DEF CarHandler, CreateCar, DeactivateCar, ActivateCar, SetCar, CheckNewBlackout,
              CheckBlackoutEdit, DeactivateBlackout, bookingVars
<1>4. QED
  BY <1>1, <1>2, <1>3 DEF Next, InsertBlackout, UpdateBlackout, UserTableChange, bookingVars

\* Rows that only move on give slots back and take none.
LEMMA RowsGiveBack ==
  ASSUME TypeOK, RowsMoveOn
  PROVE  HeldSlots' \subseteq HeldSlots
<1>1. ReservationIds' = ReservationIds  BY DEF RowsMoveOn, ReservationIds
<1>2. ASSUME NEW r \in ReservationIds, Holds(reservations'[r])
      PROVE  CalendarEntry(r, reservations'[r]) \in HeldSlots
  <2>1. Holds(reservations[r]) /\ CalendarEntry(r, reservations'[r]) = CalendarEntry(r, reservations[r])
    BY <1>2 DEF RowsMoveOn, RowMovesOn, CalendarEntry
  <2>2. QED BY <2>1 DEF HeldSlots
<1>3. QED BY <1>1, <1>2 DEF HeldSlots

\* A booking takes one free slot outside every maintenance window.
LEMMA CreateTakes ==
  ASSUME TypeOK, NEW ctx \in Context, NEW car \in Car, NEW w \in Window,
         CreateReservation(ctx, car, w)
  PROVE  LET slot == [id |-> Len(reservations) + 1, car |-> car, start |-> w.start, end |-> w.end]
         IN  /\ HeldSlots' = HeldSlots \cup {slot}
             /\ \A h \in HeldSlots : h.id # slot.id
             /\ Calendar!Clear(slot, HeldSlots)
             /\ Calendar!Clear(slot, ClosedSlots)
             /\ UNCHANGED ClosedSlots
<1> DEFINE n == Len(reservations)
           slot == [id |-> n + 1, car |-> car, start |-> w.start, end |-> w.end]
           new == [status |-> "pending", car |-> car, owner |-> ctx.user,
                   start |-> w.start, end |-> w.end,
                   checkedOut |-> FALSE, returned |-> FALSE, decidedBy |-> Null]
<1>1. /\ n \in Nat /\ Len(reservations') = n + 1
      /\ \A r \in 1 .. n : reservations'[r] = reservations[r]
      /\ reservations'[n + 1] = new
  BY CreateRows
<1>2. ReservationIds = 1 .. n /\ ReservationIds' = 1 .. n + 1
  BY <1>1 DEF ReservationIds
<1>3. Holds(new) /\ CalendarEntry(n + 1, new) = slot  BY DEF Holds, CalendarEntry
<1>4. \A h \in HeldSlots : \E r \in 1 .. n :
        Holds(reservations[r]) /\ h = CalendarEntry(r, reservations[r])
  BY <1>2 DEF HeldSlots
<1>5. \A c \in ClosedSlots : \E b \in BlackoutIds :
        blackouts[b].active /\ c = CalendarEntry(b, blackouts[b])
  BY DEF ClosedSlots
<1>6. HeldSlots' = HeldSlots \cup {slot}
  <2>1. 1 .. n + 1 = (1 .. n) \cup {n + 1}  BY <1>1
  <2> HIDE DEF n, new, slot
  <2>2. HeldSlots' \subseteq HeldSlots \cup {slot}  BY <1>1, <1>2, <1>3, <2>1 DEF HeldSlots
  <2>3. HeldSlots \cup {slot} \subseteq HeldSlots'  BY <1>1, <1>2, <1>3, <2>1 DEF HeldSlots
  <2>4. QED BY <2>2, <2>3
<1>7. \A h \in HeldSlots : h.id # slot.id  BY <1>1, <1>4 DEF CalendarEntry
<1>8. Calendar!Clear(slot, HeldSlots)
  <2>1. SUFFICES ASSUME NEW h \in HeldSlots, h.car = car PROVE ~Overlap(h, slot)
    BY DEF Calendar!Clear, Calendar!Overlap, Overlap
  <2>2. PICK r \in 1 .. n : Holds(reservations[r]) /\ h = CalendarEntry(r, reservations[r])
    BY <1>4
  <2>3. reservations[r].car = car /\ ~Overlap(reservations[r], w)
    BY <1>2, <2>1, <2>2 DEF CreateReservation, ReservationConflicts, CalendarEntry
  <2>4. QED BY <2>2, <2>3 DEF Overlap, CalendarEntry
<1>9. Calendar!Clear(slot, ClosedSlots)
  <2>1. SUFFICES ASSUME NEW c \in ClosedSlots, c.car = car PROVE ~Overlap(c, slot)
    BY DEF Calendar!Clear, Calendar!Overlap, Overlap
  <2>2. PICK b \in BlackoutIds : blackouts[b].active /\ c = CalendarEntry(b, blackouts[b])
    BY <1>5
  <2>3. blackouts[b].car = car /\ ~Overlap(blackouts[b], w)
    BY <2>1, <2>2 DEF CreateReservation, BlackoutConflicts, CalendarEntry
  <2>4. QED BY <2>2, <2>3 DEF Overlap, CalendarEntry
<1>10. UNCHANGED ClosedSlots
  BY DEF CreateReservation, blackoutVars, ClosedSlots, BlackoutIds
<1>11. QED BY <1>6, <1>7, <1>8, <1>9, <1>10

\* Every step of the booking core is a step of the calendar, or none of its
\* business.
LEMMA CalendarStep ==
  ASSUME SlotInv, [Next]_vars
  PROVE  [Calendar!Next]_<<HeldSlots, ClosedSlots>>
<1>1. TypeOK /\ DeciderRecorded  BY DEF SlotInv
<1>2. CASE UNCHANGED reservations
  <2>1. UNCHANGED HeldSlots  BY <1>2 DEF HeldSlots, ReservationIds
  <2>2. QED BY <2>1 DEF Calendar!Next, Calendar!Maintain, HeldSlots
<1>3. ASSUME NEW ctx \in Context, NEW car \in Car, NEW w \in Window,
             CreateReservation(ctx, car, w)
      PROVE  Calendar!Next
  <2> DEFINE slot == [id |-> Len(reservations) + 1, car |-> car, start |-> w.start, end |-> w.end]
  <2>1. /\ HeldSlots' = HeldSlots \cup {slot}
        /\ \A h \in HeldSlots : h.id # slot.id
        /\ Calendar!Clear(slot, HeldSlots)
        /\ Calendar!Clear(slot, ClosedSlots)
        /\ UNCHANGED ClosedSlots
    BY <1>1, <1>3, CreateTakes
  <2> HIDE DEF slot
  <2>2. slot \in HeldSlots' \ HeldSlots  BY <2>1
  <2>3. Calendar!Take(slot)  BY <2>1 DEF Calendar!Take, HeldSlots, ClosedSlots
  <2>4. QED BY <2>2, <2>3 DEF Calendar!Next, HeldSlots
<1>4. CASE RowsMoveOn /\ UNCHANGED blackouts
  <2>1. HeldSlots' \subseteq HeldSlots  BY <1>1, <1>4, RowsGiveBack
  <2>2. UNCHANGED ClosedSlots  BY <1>4 DEF ClosedSlots, BlackoutIds
  <2>3. QED BY <2>1, <2>2 DEF Calendar!Next, Calendar!GiveBack, HeldSlots, ClosedSlots
<1>5. QED BY <1>1, <1>2, <1>3, <1>4, StepKinds, OneTableAtATime

\* The booking core implements the abstract calendar of CarCalendar, for every
\* number of users, cars, reservations and blackout writers.
THEOREM ReservationsImplementCalendar == Spec => CalendarSpec
<1>1. Init => SlotInv
  BY InitType DEF Init, SlotInv, DeciderRecorded, NoDoubleBooking, ReservationIds
<1>2. Init => Calendar!Init
  BY DEF Init, Calendar!Init, ReservationIds, BlackoutIds
<1>3. SlotInv /\ [Next]_vars => [Calendar!Next]_<<HeldSlots, ClosedSlots>>
  BY CalendarStep
<1>4. QED
  BY <1>1, <1>2, <1>3, SlotInvInductive, PTL
     DEF Spec, CalendarSpec, Calendar!Spec, HeldSlots, ClosedSlots
-----------------------------------------------------------------------------
(* The audit trail *)

\* The timestamps of a row are set in order, and only after an approval.
TripFields ==
  \A r \in ReservationIds :
    /\ reservations[r].status = "pending" => ~reservations[r].checkedOut
    /\ reservations[r].returned => reservations[r].checkedOut

AuditInv == TypeOK /\ TripFields /\ AuditMatchesStatus /\ AuditIsALifecycle

\* The audit facts about one reservation, given its row and its trail.
TrailOK(row, log) ==
  /\ row.status = "pending" => ~row.checkedOut
  /\ row.returned => row.checkedOut
  /\ log # <<>>
  /\ log[1] = [actor |-> row.owner, action |-> "created"]
  /\ PresentationStatus(row) = StatusAfter(log[Len(log)].action)
  /\ \A i \in 1 .. Len(log) - 1 : <<log[i].action, log[i + 1].action>> \in LifecycleStep

LEMMA AuditInvByRow ==
  AuditInv <=> TypeOK /\ \A r \in ReservationIds : TrailOK(reservations[r], auditLog[r])
  BY DEF AuditInv, TripFields, AuditMatchesStatus, AuditIsALifecycle, TrailOK

\* The transitions of a row, and the audit action each is logged as.
Moves(old, new, action) ==
  \/ /\ old.status = "pending"
     /\ \E decider : new = Decided(old, action, decider)
     /\ action \in {"approved", "rejected"}
  \/ /\ PresentationStatus(old) = "approved" /\ action = "checked_out"
     /\ new = [old EXCEPT !.checkedOut = TRUE]
  \/ /\ PresentationStatus(old) = "checked_out" /\ action = "returned"
     /\ new = [old EXCEPT !.returned = TRUE]
  \/ /\ old.status \in {"pending", "approved"} /\ action = "cancelled"
     /\ new = [old EXCEPT !.status = "cancelled"]

\* A row that moves while its move is logged keeps a good trail.
LEMMA TrailGrows ==
  ASSUME NEW old \in Reservation, NEW new, NEW action, NEW actor \in User,
         NEW log \in Seq(AuditEntry), TrailOK(old, log), Moves(old, new, action)
  PROVE  TrailOK(new, Append(log, [actor |-> actor, action |-> action]))
<1> DEFINE entry == [actor |-> actor, action |-> action]
           n == Len(log)
           longer == Append(log, entry)
<1>1. n \in Nat \ {0} /\ log[n].action \in AuditAction
  <2>1. n \in Nat \ {0}  BY DEF TrailOK
  <2>2. log[n] \in AuditEntry  BY <2>1, ElementOfSeq
  <2>3. QED BY <2>1, <2>2 DEF AuditEntry
<1>2. action \in AuditAction  BY DEF Moves, AuditAction
<1>3. entry \in AuditEntry  BY <1>2 DEF AuditEntry
<1>4. entry.action = action  OBVIOUS
<1> HIDE DEF entry
<1>5. /\ longer \in Seq(AuditEntry) /\ Len(longer) = n + 1
      /\ \A i \in 1 .. n : longer[i] = log[i]
      /\ longer[n + 1] = entry
  BY <1>3, AppendProperties
<1> HIDE DEF longer, n
<1>6. /\ new.owner = old.owner
      /\ new.status = "pending" => ~new.checkedOut
      /\ new.returned => new.checkedOut
  BY DEF Moves, Decided, TrailOK, Reservation, PresentationStatus, StoredStatus
<1>7. PresentationStatus(new) = StatusAfter(action)
  BY DEF Moves, Decided, TrailOK, Reservation, PresentationStatus, StatusAfter, StoredStatus
<1>8. <<log[n].action, action>> \in LifecycleStep
  <2>1. PresentationStatus(old) = StatusAfter(log[n].action)  BY DEF TrailOK, n
  <2>2. CASE old.status = "pending"
    <3>1. log[n].action = "created"
      BY <1>1, <2>1, <2>2 DEF PresentationStatus, StatusAfter, AuditAction
    <3>2. action \in {"approved", "rejected", "cancelled"}
      BY <2>2 DEF Moves, PresentationStatus
    <3>3. QED BY <3>1, <3>2 DEF LifecycleStep
  <2>3. CASE PresentationStatus(old) = "approved"
    <3>1. log[n].action = "approved"
      BY <1>1, <2>1, <2>3 DEF StatusAfter, AuditAction
    <3>2. old.status = "approved"
      BY <2>3 DEF PresentationStatus, Reservation, StoredStatus
    <3>3. action \in {"checked_out", "cancelled"}
      BY <2>3, <3>2 DEF Moves
    <3>4. QED BY <3>1, <3>3 DEF LifecycleStep
  <2>4. CASE PresentationStatus(old) = "checked_out"
    <3>1. log[n].action = "checked_out"
      BY <1>1, <2>1, <2>4 DEF StatusAfter, AuditAction
    <3>2. old.status = "approved"
      BY <2>4 DEF PresentationStatus, Reservation, StoredStatus
    <3>3. action \in {"returned", "cancelled"}
      BY <2>4, <3>2 DEF Moves
    <3>4. QED BY <3>1, <3>3 DEF LifecycleStep
  <2>5. CASE PresentationStatus(old) = "returned"
    <3>1. log[n].action = "returned"
      BY <1>1, <2>1, <2>5 DEF StatusAfter, AuditAction
    <3>2. old.status = "approved"
      BY <2>5 DEF PresentationStatus, Reservation, StoredStatus
    <3>3. action = "cancelled"
      BY <2>5, <3>2 DEF Moves
    <3>4. QED BY <3>1, <3>3 DEF LifecycleStep
  <2>6. \/ old.status = "pending"
        \/ PresentationStatus(old) \in {"approved", "checked_out", "returned"}
    BY DEF Moves, PresentationStatus
  <2>7. QED BY <2>2, <2>3, <2>4, <2>5, <2>6
<1>9. ASSUME NEW i \in 1 .. n
      PROVE  <<longer[i].action, longer[i + 1].action>> \in LifecycleStep
  <2>1. CASE i = n  BY <1>1, <1>4, <1>5, <1>8, <2>1
  <2>2. CASE i \in 1 .. n - 1
    <3>1. i \in 1 .. n /\ i + 1 \in 1 .. n  BY <1>1, <2>2
    <3>2. <<log[i].action, log[i + 1].action>> \in LifecycleStep
      BY <2>2 DEF TrailOK, n
    <3>3. QED BY <1>5, <3>1, <3>2
  <2>3. QED BY <1>1, <2>1, <2>2
<1>10. longer # <<>> /\ longer[1] = [actor |-> new.owner, action |-> "created"]
  BY <1>1, <1>5, <1>6 DEF TrailOK
<1>11. longer[Len(longer)].action = action  BY <1>4, <1>5
<1>12. Len(longer) - 1 = n  BY <1>1, <1>5
<1>13. TrailOK(new, longer)
  BY <1>6, <1>7, <1>9, <1>10, <1>11, <1>12 DEF TrailOK
<1>14. QED BY <1>13 DEF longer, entry

\* The fan-out of a transition names the requester unless it is their own act.
Informs(fanout, action, actor, owner) ==
  actor # owner \/ action \in {"approved", "rejected"} =>
    \E n \in 1 .. Len(fanout) : fanout[n].kind = KindOf(action) /\ owner \in fanout[n].to

\* The kinds of notification a transition sends: each at most once, and none
\* that belongs to another transition.
KindsOf(action) ==
  IF action \in {"approved", "rejected"} THEN {"reservation_decision", "reception_handoff"}
                                         ELSE {KindOf(action)}

DistinctKinds(fanouts) ==
  \A m, n \in 1 .. Len(fanouts) : m # n => fanouts[m].kind # fanouts[n].kind

OwnKinds(fanout, action) ==
  /\ DistinctKinds(fanout)
  /\ \A n \in 1 .. Len(fanout) : fanout[n].kind \in KindsOf(action)

\* Reservation r moves, and the same transaction logs and announces the move.
LoggedMove(r) ==
  \E ctx \in Context, action \in AuditAction \ {"created"}, fanout \in Seq(Fanout) :
    /\ Moves(reservations[r], reservations'[r], action)
    /\ auditLog'[r] = Append(auditLog[r], [actor |-> ctx.user, action |-> action])
    /\ notifications'[r] = notifications[r] \o fanout
    /\ Informs(fanout, action, ctx.user, reservations[r].owner)
    /\ OwnKinds(fanout, action)

Still(r) ==
  /\ reservations'[r] = reservations[r]
  /\ auditLog'[r] = auditLog[r]
  /\ notifications'[r] = notifications[r]

OnlyLoggedMoves ==
  /\ Len(reservations') = Len(reservations)
  /\ \A r \in ReservationIds : Still(r) \/ LoggedMove(r)

\* A decision sends at most two notifications, of different kinds.
LEMMA DecisionFanoutKinds ==
  ASSUME NEW row, NEW verdict \in {"approved", "rejected"}, NEW actor
  PROVE  OwnKinds(DecisionFanout(row, verdict, actor), verdict)
<1> DEFINE decision == [kind |-> "reservation_decision", to |-> {row.owner}]
           to == ActiveWith(ReceptionRoles) \ {actor, row.owner}
           handoff == [kind |-> "reception_handoff", to |-> to]
           fanout == DecisionFanout(row, verdict, actor)
<1>1. fanout = <<decision>> \o <<>> \/ fanout = <<decision>> \o <<handoff>>
  BY DEF DecisionFanout, Notify
<1>2. decision.kind = "reservation_decision" /\ handoff.kind = "reception_handoff"  OBVIOUS
<1> HIDE DEF decision, handoff, fanout
<1>3. ASSUME NEW S, decision \in S, handoff \in S, NEW second \in Seq(S),
             second = <<>> \/ second = <<handoff>>, fanout = <<decision>> \o second
      PROVE  OwnKinds(fanout, verdict)
  <2>1. <<decision>> \in Seq(S) /\ Len(<<decision>>) = 1 /\ <<decision>>[1] = decision  BY <1>3
  <2>2. Len(second) = 0 \/ (Len(second) = 1 /\ second[1] = handoff)  BY <1>3
  <2>3. Len(fanout) = 1 + Len(second) /\ fanout[1] = decision
    BY <1>3, <2>1, <2>2, ConcatProperties
  <2>4. Len(second) = 1 => fanout[2] = handoff
    BY <1>3, <2>1, <2>2, ConcatProperties
  <2>5. CASE Len(second) = 0
    <3>1. Len(fanout) = 1 /\ fanout[1] = decision  BY <2>3, <2>5
    <3>2. QED BY <1>2, <3>1 DEF OwnKinds, DistinctKinds, KindsOf
  <2>6. CASE Len(second) = 1
    <3>1. Len(fanout) = 2 /\ fanout[1] = decision /\ fanout[2] = handoff  BY <2>3, <2>4, <2>6
    <3>2. QED BY <1>2, <3>1 DEF OwnKinds, DistinctKinds, KindsOf
  <2>7. QED BY <2>2, <2>5, <2>6
<1>4. <<>> \in Seq({decision, handoff}) /\ <<handoff>> \in Seq({decision, handoff})  OBVIOUS
<1>5. OwnKinds(fanout, verdict)  BY <1>1, <1>3, <1>4
<1>6. QED BY <1>5 DEF fanout

LEMMA NotifyKinds ==
  ASSUME NEW action, action \notin {"approved", "rejected"}, NEW to
  PROVE  OwnKinds(Notify(KindOf(action), to), action)
<1> DEFINE told == [kind |-> KindOf(action), to |-> to]
<1>1. Notify(KindOf(action), to) = <<>> \/ Notify(KindOf(action), to) = <<told>>
  BY DEF Notify
<1>2. told.kind = KindOf(action)  OBVIOUS
<1> HIDE DEF told
<1>3. Len(<<told>>) = 1 /\ <<told>>[1] = told  OBVIOUS
<1>4. QED BY <1>1, <1>2, <1>3 DEF OwnKinds, DistinctKinds, KindsOf

LEMMA DecidePendingMoves ==
  ASSUME TypeOK, NEW ctx \in Context, NEW ids, NEW verdict \in {"approved", "rejected"},
         DecidePending(ctx, ids, verdict)
  PROVE  OnlyLoggedMoves
<1> DEFINE decided == {r \in ids \cap ReservationIds : reservations[r].status = "pending"}
<1>1. SUFFICES ASSUME NEW r \in ReservationIds PROVE Still(r) \/ LoggedMove(r)
  BY DecidePendingRows DEF OnlyLoggedMoves
<1>2. /\ reservations'[r] = IF r \in decided THEN Decided(reservations[r], verdict, ctx.user)
                                              ELSE reservations[r]
      /\ auditLog'[r] = IF r \in decided
                          THEN Append(auditLog[r], [actor |-> ctx.user, action |-> verdict])
                          ELSE auditLog[r]
      /\ notifications'[r] = IF r \in decided
                               THEN notifications[r] \o DecisionFanout(reservations[r], verdict, ctx.user)
                               ELSE notifications[r]
  BY DEF DecidePending
<1>3. CASE r \notin decided  BY <1>2, <1>3 DEF Still
<1>4. CASE r \in decided
  <2> DEFINE row == reservations[r]
             fanout == DecisionFanout(row, verdict, ctx.user)
             handoff == IF verdict = "approved"
                          THEN Notify("reception_handoff",
                                      ActiveWith(ReceptionRoles) \ {ctx.user, row.owner})
                          ELSE <<>>
  <2>1. row \in Reservation /\ fanout \in Seq(Fanout)  BY RowType, DecisionFanoutType
  <2>2. Moves(row, reservations'[r], verdict)  BY <1>2, <1>4 DEF Moves
  <2>3. fanout = <<[kind |-> "reservation_decision", to |-> {row.owner}]>> \o handoff
    BY DEF DecisionFanout, Notify
  <2>4. handoff \in Seq(Fanout)
    BY NotifyType, ActiveWithType DEF Kind
  <2>5. 1 \in 1 .. Len(fanout) /\ fanout[1] = [kind |-> "reservation_decision", to |-> {row.owner}]
    <3> DEFINE told == [kind |-> "reservation_decision", to |-> {row.owner}]
    <3>1. told \in Fanout  BY <2>1 DEF Fanout, Kind, Reservation
    <3> HIDE DEF told, handoff, fanout
    <3>2. <<told>> \in Seq(Fanout) /\ Len(<<told>>) = 1 /\ <<told>>[1] = told  BY <3>1
    <3>3. fanout = <<told>> \o handoff  BY <2>3 DEF told
    <3>4. QED BY <2>4, <3>2, <3>3, ConcatProperties DEF told
  <2>6. KindOf(verdict) = "reservation_decision"  BY DEF KindOf
  <2>7. Informs(fanout, verdict, ctx.user, row.owner)
    <3> HIDE DEF fanout
    <3>1. fanout[1].kind = KindOf(verdict) /\ row.owner \in fanout[1].to  BY <2>5, <2>6
    <3>2. QED BY <2>5, <3>1 DEF Informs
  <2>8. /\ auditLog'[r] = Append(auditLog[r], [actor |-> ctx.user, action |-> verdict])
        /\ notifications'[r] = notifications[r] \o fanout
    BY <1>2, <1>4
  <2>9. verdict \in AuditAction \ {"created"}  BY DEF AuditAction
  <2>10. OwnKinds(fanout, verdict)
    BY ActiveWithType, DecisionFanoutKinds
  <2> HIDE DEF fanout
  <2>11. QED BY <2>1, <2>2, <2>7, <2>8, <2>9, <2>10 DEF LoggedMove
<1>5. QED BY <1>3, <1>4

\* A fan-out that contains the requester informs the requester.
LEMMA NotifyInforms ==
  ASSUME NEW action, NEW actor, NEW owner, NEW to,
         action \notin {"approved", "rejected"},
         actor # owner => owner \in to
  PROVE  Informs(Notify(KindOf(action), to), action, actor, owner)
<1>1. CASE to = {}  BY <1>1 DEF Informs
<1>2. CASE to # {}
  <2> DEFINE told == [kind |-> KindOf(action), to |-> to]
  <2>1. Notify(KindOf(action), to) = <<told>>  BY <1>2 DEF Notify
  <2>2. told.kind = KindOf(action) /\ told.to = to  OBVIOUS
  <2> HIDE DEF told
  <2>3. Len(<<told>>) = 1 /\ <<told>>[1] = told  OBVIOUS
  <2>4. QED BY <2>1, <2>2, <2>3 DEF Informs
<1>3. QED BY <1>1, <1>2

LEMMA TripMoves ==
  ASSUME TypeOK, NEW ctx \in Context, NEW r \in ReservationIds,
         StartTrip(ctx, r) \/ ReturnTrip(ctx, r) \/ Cancel(ctx, r)
  PROVE  OnlyLoggedMoves
<1> DEFINE row == reservations[r]
<1>1. row \in Reservation /\ ctx.user \in User  BY RowType DEF Context
<1>2. row.owner \in User  BY <1>1 DEF Reservation
<1>3. ASSUME NEW new, NEW action \in AuditAction \ {"created", "approved", "rejected"},
             NEW to \in SUBSET User, ctx.user # row.owner => row.owner \in to,
             Moves(row, new, action),
             Transition(r, new, ctx.user, action, Notify(KindOf(action), to))
      PROVE  OnlyLoggedMoves
  <2> DEFINE fanout == Notify(KindOf(action), to)
  <2>1. fanout \in Seq(Fanout)  BY NotifyType DEF KindOf, Kind, AuditAction
  <2>2. Informs(fanout, action, ctx.user, row.owner) /\ OwnKinds(fanout, action)
    BY <1>3, NotifyInforms, NotifyKinds
  <2>3. Len(reservations') = Len(reservations) /\ reservations'[r] = new  BY <1>3, TransitionRows
  <2>4. /\ auditLog'[r] = Append(auditLog[r], [actor |-> ctx.user, action |-> action])
        /\ notifications'[r] = notifications[r] \o fanout
    <3>1. /\ auditLog' = [auditLog EXCEPT ![r] = Append(auditLog[r], [actor |-> ctx.user, action |-> action])]
          /\ notifications' = [notifications EXCEPT ![r] = notifications[r] \o fanout]
      BY <1>3 DEF Transition
    <3>2. r \in DOMAIN auditLog /\ r \in DOMAIN notifications  BY DEF TypeOK, ReservationIds
    <3>3. QED BY <3>1, <3>2
  <2>5. \A s \in ReservationIds \ {r} : Still(s)
    BY <1>3, TransitionRows DEF Transition, TypeOK, ReservationIds, Still
  <2> HIDE DEF fanout
  <2>6. LoggedMove(r)  BY <1>3, <2>1, <2>2, <2>3, <2>4 DEF LoggedMove
  <2>7. QED BY <2>3, <2>5, <2>6 DEF OnlyLoggedMoves
<1>4. CASE StartTrip(ctx, r)
  <2> DEFINE new == [row EXCEPT !.checkedOut = TRUE]
  <2>1. Moves(row, new, "checked_out")  BY <1>4 DEF StartTrip, Moves, PresentationStatus
  <2>2. TripTargets(row, ctx.user) \in SUBSET User /\ KindOf("checked_out") = "trip_started"
    BY <1>2, ActiveWithType DEF TripTargets, KindOf
  <2>3. ctx.user # row.owner => row.owner \in TripTargets(row, ctx.user)  BY DEF TripTargets
  <2>4. Transition(r, new, ctx.user, "checked_out", Notify("trip_started", TripTargets(row, ctx.user)))
    BY <1>4 DEF StartTrip
  <2> HIDE DEF new, row
  <2>5. QED BY <1>3, <2>1, <2>2, <2>3, <2>4 DEF AuditAction
<1>5. CASE ReturnTrip(ctx, r)
  <2> DEFINE new == [row EXCEPT !.returned = TRUE]
  <2>1. Moves(row, new, "returned")  BY <1>5 DEF ReturnTrip, Moves, PresentationStatus
  <2>2. TripTargets(row, ctx.user) \in SUBSET User /\ KindOf("returned") = "trip_returned"
    BY <1>2, ActiveWithType DEF TripTargets, KindOf
  <2>3. ctx.user # row.owner => row.owner \in TripTargets(row, ctx.user)  BY DEF TripTargets
  <2>4. Transition(r, new, ctx.user, "returned", Notify("trip_returned", TripTargets(row, ctx.user)))
    BY <1>5 DEF ReturnTrip
  <2> HIDE DEF new, row
  <2>5. QED BY <1>3, <2>1, <2>2, <2>3, <2>4 DEF AuditAction
<1>6. CASE Cancel(ctx, r)
  <2> DEFINE new == [row EXCEPT !.status = "cancelled"]
             targets == IF ctx.role \in AdminRoles THEN {row.owner} ELSE ActiveWith(DecisionRoles)
             to == targets \ {ctx.user}
  <2>1. Moves(row, new, "cancelled")  BY <1>6 DEF Cancel, Moves
  <2>2. to \in SUBSET User /\ KindOf("cancelled") = "reservation_cancelled"
    BY <1>2, ActiveWithType DEF KindOf
  <2>3. ctx.user # row.owner => row.owner \in to  BY <1>6 DEF Cancel
  <2>4. Transition(r, new, ctx.user, "cancelled", Notify("reservation_cancelled", to))
    BY <1>6 DEF Cancel
  <2> HIDE DEF new, row, to
  <2>5. QED BY <1>3, <2>1, <2>2, <2>3, <2>4 DEF AuditAction
<1>7. QED BY <1>4, <1>5, <1>6

\* Every step either books a new reservation or only moves, logs and announces
\* existing ones.
LEMMA LoggedSteps ==
  ASSUME TypeOK, [Next]_vars
  PROVE  \/ \E ctx \in Context, car \in Car, w \in Window : CreateReservation(ctx, car, w)
         \/ OnlyLoggedMoves
<1>1. CASE UNCHANGED bookingVars
  BY <1>1 DEF OnlyLoggedMoves, Still, ReservationIds, bookingVars
<1>2. ASSUME NEW ctx \in contexts, ReservationHandler(ctx)
      PROVE  \/ \E car \in Car, w \in Window : CreateReservation(ctx, car, w)
             \/ OnlyLoggedMoves
  <2>1. ctx \in Context  BY DEF TypeOK
  <2>2. QED BY <1>2, <2>1, DecidePendingMoves, TripMoves DEF ReservationHandler, Decide, BulkDecide
<1>3. ASSUME NEW ctx \in contexts, CarHandler(ctx)
      PROVE  UNCHANGED bookingVars
  BY <1>3 DEF CarHandler, CreateCar, DeactivateCar, ActivateCar, SetCar, CheckNewBlackout,
              CheckBlackoutEdit, DeactivateBlackout
<1>4. contexts \subseteq Context  BY DEF TypeOK
<1>5. QED
  BY <1>1, <1>2, <1>3, <1>4 DEF Next, InsertBlackout, UpdateBlackout, UserTableChange, vars

LEMMA LogTypes ==
  ASSUME TypeOK, NEW r \in ReservationIds
  PROVE  auditLog[r] \in Seq(AuditEntry) /\ notifications[r] \in Seq(Fanout)
  BY ElementOfSeq DEF TypeOK, ReservationIds

\* The tables after a booking: one more row in each, the old ones untouched.
LEMMA CreateLogs ==
  ASSUME TypeOK, NEW ctx \in Context, NEW car \in Car, NEW w \in Window,
         CreateReservation(ctx, car, w)
  PROVE  LET n == Len(reservations)
         IN  /\ n \in Nat /\ ReservationIds = 1 .. n /\ ReservationIds' = 1 .. n + 1
             /\ \A r \in 1 .. n : Still(r)
             /\ auditLog'[n + 1] = <<[actor |-> ctx.user, action |-> "created"]>>
<1> DEFINE n == Len(reservations)
           log == <<[actor |-> ctx.user, action |-> "created"]>>
<1>1. n \in Nat /\ Len(auditLog) = n /\ Len(notifications) = n  BY DEF TypeOK
<1>2. /\ Len(reservations') = n + 1
      /\ \A r \in 1 .. n : reservations'[r] = reservations[r]
  BY CreateRows
<1>3. auditLog' = Append(auditLog, log)  BY DEF CreateReservation
<1>4. PICK fanout : notifications' = Append(notifications, fanout)  BY DEF CreateReservation
<1> HIDE DEF log
<1>5. (\A r \in 1 .. n : auditLog'[r] = auditLog[r]) /\ auditLog'[n + 1] = log
  BY <1>1, <1>3 DEF TypeOK
<1>6. \A r \in 1 .. n : notifications'[r] = notifications[r]
  BY <1>1, <1>4 DEF TypeOK
<1>7. ReservationIds = 1 .. n /\ ReservationIds' = 1 .. n + 1  BY <1>2 DEF ReservationIds
<1>8. QED BY <1>1, <1>2, <1>5, <1>6, <1>7 DEF Still, log

LEMMA AuditInvInductive == AuditInv /\ [Next]_vars => AuditInv'
<1> SUFFICES ASSUME AuditInv, [Next]_vars PROVE AuditInv'  OBVIOUS
<1>1. TypeOK /\ TypeOK'  BY TypeStep DEF AuditInv
<1>2. \A r \in ReservationIds : TrailOK(reservations[r], auditLog[r])  BY AuditInvByRow
<1>3. SUFFICES \A r \in ReservationIds' : TrailOK(reservations'[r], auditLog'[r])
  BY <1>1 DEF AuditInv, TripFields, AuditMatchesStatus, AuditIsALifecycle, TrailOK
<1>4. CASE OnlyLoggedMoves
  <2>1. ReservationIds' = ReservationIds  BY <1>4 DEF OnlyLoggedMoves, ReservationIds
  <2>2. SUFFICES ASSUME NEW r \in ReservationIds PROVE TrailOK(reservations'[r], auditLog'[r])
    BY <2>1
  <2>3. CASE Still(r)  BY <1>2, <2>3 DEF Still
  <2>4. CASE LoggedMove(r)
    <3>1. PICK ctx \in Context, action \in AuditAction :
            /\ Moves(reservations[r], reservations'[r], action)
            /\ auditLog'[r] = Append(auditLog[r], [actor |-> ctx.user, action |-> action])
      BY <2>4 DEF LoggedMove
    <3>2. ctx.user \in User  BY DEF Context
    <3>3. QED BY <1>1, <1>2, <3>1, <3>2, RowType, LogTypes, TrailGrows
  <2>5. QED BY <1>4, <2>3, <2>4 DEF OnlyLoggedMoves
<1>5. ASSUME NEW ctx \in Context, NEW car \in Car, NEW w \in Window,
             CreateReservation(ctx, car, w)
      PROVE  \A r \in ReservationIds' : TrailOK(reservations'[r], auditLog'[r])
  <2> DEFINE n == Len(reservations)
             entry == [actor |-> ctx.user, action |-> "created"]
  <2>1. /\ n \in Nat /\ ReservationIds = 1 .. n /\ ReservationIds' = 1 .. n + 1
        /\ \A r \in 1 .. n : Still(r)
        /\ auditLog'[n + 1] = <<entry>>
    BY <1>1, <1>5, CreateLogs
  <2>2. /\ reservations'[n + 1].status = "pending" /\ ~reservations'[n + 1].checkedOut
        /\ ~reservations'[n + 1].returned /\ reservations'[n + 1].owner = ctx.user
    <3>1. reservations'[n + 1] =
            [status |-> "pending", car |-> car, owner |-> ctx.user,
             start |-> w.start, end |-> w.end,
             checkedOut |-> FALSE, returned |-> FALSE, decidedBy |-> Null]
      BY <1>1, <1>5, CreateRows
    <3>2. QED BY <3>1
  <2>3. TrailOK(reservations'[n + 1], <<entry>>)
    BY <2>2 DEF TrailOK, PresentationStatus, StatusAfter
  <2>4. \A r \in 1 .. n : TrailOK(reservations'[r], auditLog'[r])
    BY <1>2, <2>1 DEF Still
  <2>5. QED BY <2>1, <2>3, <2>4
<1>6. QED BY <1>1, <1>4, <1>5, LoggedSteps

\* The status shown to a user is at every moment the last thing the audit trail
\* of the reservation says.
THEOREM AuditTellsTheStatus == Spec => []AuditMatchesStatus
<1>1. Init => AuditInv
  BY InitType DEF Init, AuditInv, TripFields, AuditMatchesStatus, AuditIsALifecycle, ReservationIds
<1>2. AuditInv => AuditMatchesStatus  BY DEF AuditInv
<1>3. QED BY <1>1, <1>2, AuditInvInductive, PTL DEF Spec

\* No interleaving of requests makes a transition happen twice or out of order.
THEOREM AuditFollowsTheLifecycle == Spec => []AuditIsALifecycle
<1>1. Init => AuditInv
  BY InitType DEF Init, AuditInv, TripFields, AuditMatchesStatus, AuditIsALifecycle, ReservationIds
<1>2. AuditInv => AuditIsALifecycle  BY DEF AuditInv
<1>3. QED BY <1>1, <1>2, AuditInvInductive, PTL DEF Spec
-----------------------------------------------------------------------------
(* The requester is informed *)

InformedInv == TypeOK /\ RequesterInformed

\* The part of RequesterInformed about the i-th audit row of one reservation.
Informed(log, fanouts, owner, i) ==
  log[i].actor # owner \/ log[i].action \in {"approved", "rejected"} =>
    \E n \in 1 .. Len(fanouts) :
      fanouts[n].kind = KindOf(log[i].action) /\ owner \in fanouts[n].to

LEMMA InformedGrows ==
  ASSUME NEW log \in Seq(AuditEntry), NEW fanouts \in Seq(Fanout), NEW owner,
         NEW entry \in AuditEntry, NEW more \in Seq(Fanout),
         \A i \in 2 .. Len(log) : Informed(log, fanouts, owner, i),
         Informs(more, entry.action, entry.actor, owner)
  PROVE  \A i \in 2 .. Len(Append(log, entry)) :
           Informed(Append(log, entry), fanouts \o more, owner, i)
<1> DEFINE longer == Append(log, entry)
           all == fanouts \o more
<1>1. /\ Len(longer) = Len(log) + 1 /\ Len(log) \in Nat
      /\ \A i \in 1 .. Len(log) : longer[i] = log[i]
      /\ longer[Len(log) + 1] = entry
  BY AppendProperties
<1>2. /\ Len(all) = Len(fanouts) + Len(more) /\ Len(fanouts) \in Nat /\ Len(more) \in Nat
      /\ \A n \in 1 .. Len(fanouts) : all[n] = fanouts[n]
      /\ \A n \in 1 .. Len(more) : all[Len(fanouts) + n] = more[n]
  BY ConcatProperties
<1> HIDE DEF longer, all
<1>3. ASSUME NEW i \in 2 .. Len(log)
      PROVE  Informed(longer, all, owner, i)
  <2>1. longer[i] = log[i]  BY <1>1
  <2>2. 1 .. Len(fanouts) \subseteq 1 .. Len(all)  BY <1>2
  <2>3. QED BY <1>2, <2>1, <2>2 DEF Informed
<1>4. Informed(longer, all, owner, Len(log) + 1)
  <2>1. SUFFICES ASSUME entry.actor # owner \/ entry.action \in {"approved", "rejected"}
                 PROVE  \E n \in 1 .. Len(all) :
                          all[n].kind = KindOf(entry.action) /\ owner \in all[n].to
    BY <1>1 DEF Informed
  <2>2. PICK m \in 1 .. Len(more) : more[m].kind = KindOf(entry.action) /\ owner \in more[m].to
    BY <2>1 DEF Informs
  <2>3. Len(fanouts) + m \in 1 .. Len(all) /\ all[Len(fanouts) + m] = more[m]  BY <1>2
  <2>4. QED BY <2>2, <2>3
<1>5. QED BY <1>1, <1>3, <1>4 DEF longer, all

LEMMA InformedInvInductive == InformedInv /\ [Next]_vars => InformedInv'
<1> SUFFICES ASSUME InformedInv, [Next]_vars PROVE InformedInv'  OBVIOUS
<1> DEFINE Ok(r) == \A i \in 2 .. Len(auditLog[r]) :
                      Informed(auditLog[r], notifications[r], reservations[r].owner, i)
           OkNext(r) == \A i \in 2 .. Len(auditLog'[r]) :
                      Informed(auditLog'[r], notifications'[r], reservations'[r].owner, i)
<1>1. TypeOK /\ TypeOK'  BY TypeStep DEF InformedInv
<1>2. \A r \in ReservationIds : Ok(r)  BY DEF InformedInv, RequesterInformed, Informed
<1>3. SUFFICES \A r \in ReservationIds' : OkNext(r)
  BY <1>1 DEF InformedInv, RequesterInformed, Informed
<1>4. CASE OnlyLoggedMoves
  <2>1. ReservationIds' = ReservationIds  BY <1>4 DEF OnlyLoggedMoves, ReservationIds
  <2>2. SUFFICES ASSUME NEW r \in ReservationIds PROVE OkNext(r)
    BY <2>1
  <2>3. CASE Still(r)  BY <1>2, <2>3 DEF Still
  <2>4. CASE LoggedMove(r)
    <3>1. PICK ctx \in Context, action \in AuditAction, fanout \in Seq(Fanout) :
            /\ Moves(reservations[r], reservations'[r], action)
            /\ auditLog'[r] = Append(auditLog[r], [actor |-> ctx.user, action |-> action])
            /\ notifications'[r] = notifications[r] \o fanout
            /\ Informs(fanout, action, ctx.user, reservations[r].owner)
      BY <2>4 DEF LoggedMove
    <3> DEFINE entry == [actor |-> ctx.user, action |-> action]
    <3>2. entry \in AuditEntry  BY DEF Context, AuditEntry
    <3>3. reservations'[r].owner = reservations[r].owner
      BY <1>1, <3>1, RowType DEF Moves, Decided, Reservation
    <3>4. entry.actor = ctx.user /\ entry.action = action  OBVIOUS
    <3> HIDE DEF entry
    <3>5. \A i \in 2 .. Len(Append(auditLog[r], entry)) :
            Informed(Append(auditLog[r], entry), notifications[r] \o fanout,
                     reservations[r].owner, i)
      BY <1>1, <1>2, <3>1, <3>2, <3>4, LogTypes, InformedGrows
    <3>6. QED BY <3>1, <3>3, <3>5 DEF entry
  <2>5. QED BY <1>4, <2>3, <2>4 DEF OnlyLoggedMoves
<1>5. ASSUME NEW ctx \in Context, NEW car \in Car, NEW w \in Window,
             CreateReservation(ctx, car, w)
      PROVE  \A r \in ReservationIds' : OkNext(r)
  <2> DEFINE n == Len(reservations)
             entry == [actor |-> ctx.user, action |-> "created"]
  <2>1. /\ n \in Nat /\ ReservationIds = 1 .. n /\ ReservationIds' = 1 .. n + 1
        /\ \A r \in 1 .. n : Still(r)
        /\ auditLog'[n + 1] = <<entry>>
    BY <1>1, <1>5, CreateLogs
  <2>2. OkNext(n + 1)
    <3>1. Len(auditLog'[n + 1]) = 1  BY <2>1
    <3>2. QED BY <3>1
  <2>3. \A r \in 1 .. n : OkNext(r)  BY <1>2, <2>1 DEF Still
  <2>4. 1 .. n + 1 = (1 .. n) \cup {n + 1}  BY <2>1
  <2> HIDE DEF n, OkNext
  <2>5. QED BY <2>1, <2>2, <2>3, <2>4
<1>6. QED BY <1>1, <1>4, <1>5, LoggedSteps

\* Nobody decides, hands over, takes back or cancels somebody else's
\* reservation behind their back.
THEOREM RequesterIsInformed == Spec => []RequesterInformed
<1>1. Init => InformedInv
  BY InitType DEF Init, InformedInv, RequesterInformed, ReservationIds
<1>2. InformedInv => RequesterInformed  BY DEF InformedInv
<1>3. QED BY <1>1, <1>2, InformedInvInductive, PTL DEF Spec
-----------------------------------------------------------------------------
(* Nobody is notified twice *)

\* The kinds of notification a reservation may have caused by now, read off its
\* row: what each transition sends is ruled out by the very fields that rule out
\* the transition itself.
KindsSoFar(row) ==
  {"reservation_requested"}
  \cup (IF row.status = "pending" THEN {} ELSE {"reservation_decision", "reception_handoff"})
  \cup (IF row.checkedOut THEN {"trip_started"} ELSE {})
  \cup (IF row.returned THEN {"trip_returned"} ELSE {})
  \cup (IF row.status = "cancelled" THEN {"reservation_cancelled"} ELSE {})

\* No kind twice, and none of a transition that has not happened.
NotifiedOnce(row, fanouts) ==
  /\ DistinctKinds(fanouts)
  /\ \A n \in 1 .. Len(fanouts) : fanouts[n].kind \in KindsSoFar(row)

OnceInv ==
  TypeOK /\ \A r \in ReservationIds : NotifiedOnce(reservations[r], notifications[r])

LEMMA OnceGrows ==
  ASSUME NEW old \in Reservation, NEW new, NEW action, Moves(old, new, action),
         NEW fanouts \in Seq(Fanout), NEW more \in Seq(Fanout),
         NotifiedOnce(old, fanouts), OwnKinds(more, action)
  PROVE  NotifiedOnce(new, fanouts \o more)
<1> DEFINE all == fanouts \o more
<1>1. KindsSoFar(old) \subseteq KindsSoFar(new)
  BY DEF Moves, Decided, Reservation, StoredStatus, KindsSoFar, PresentationStatus
<1>2. KindsOf(action) \subseteq KindsSoFar(new)
  BY DEF Moves, Decided, Reservation, StoredStatus, KindsOf, KindOf, KindsSoFar
<1>3. KindsOf(action) \cap KindsSoFar(old) = {}
  BY DEF Moves, Reservation, StoredStatus, KindsOf, KindOf, KindsSoFar, PresentationStatus
<1>4. /\ Len(fanouts) \in Nat /\ Len(more) \in Nat /\ Len(all) = Len(fanouts) + Len(more)
      /\ \A n \in 1 .. Len(fanouts) : all[n] = fanouts[n]
      /\ \A n \in 1 .. Len(more) : all[Len(fanouts) + n] = more[n]
  BY ConcatProperties
<1>5. \A n \in 1 .. Len(all) :
        \/ n \in 1 .. Len(fanouts) /\ all[n] = fanouts[n]
        \/ n - Len(fanouts) \in 1 .. Len(more) /\ all[n] = more[n - Len(fanouts)]
  <2>1. SUFFICES ASSUME NEW n \in 1 .. Len(all), n \notin 1 .. Len(fanouts)
                 PROVE  /\ n - Len(fanouts) \in 1 .. Len(more)
                        /\ all[n] = more[n - Len(fanouts)]
    BY <1>4
  <2>2. n - Len(fanouts) \in 1 .. Len(more) /\ Len(fanouts) + (n - Len(fanouts)) = n
    BY <1>4, <2>1
  <2>3. QED BY <1>4, <2>2
<1> HIDE DEF all
<1>6. \A n \in 1 .. Len(all) : all[n].kind \in KindsSoFar(new)
  BY <1>1, <1>2, <1>5 DEF NotifiedOnce, OwnKinds
<1>7. DistinctKinds(all)
  <2>1. SUFFICES ASSUME NEW m \in 1 .. Len(all), NEW n \in 1 .. Len(all), m # n
                 PROVE  all[m].kind # all[n].kind
    BY DEF DistinctKinds
  <2>2. CASE m \in 1 .. Len(fanouts) /\ n \in 1 .. Len(fanouts)
    BY <1>4, <2>1, <2>2 DEF NotifiedOnce, DistinctKinds
  <2>3. CASE m \notin 1 .. Len(fanouts) /\ n \notin 1 .. Len(fanouts)
    <3>1. m - Len(fanouts) # n - Len(fanouts)  BY <1>4, <2>1
    <3>2. QED BY <1>5, <2>3, <3>1 DEF OwnKinds, DistinctKinds
  <2>4. CASE m \in 1 .. Len(fanouts) /\ n \notin 1 .. Len(fanouts)
    BY <1>3, <1>5, <2>4 DEF NotifiedOnce, OwnKinds
  <2>5. CASE m \notin 1 .. Len(fanouts) /\ n \in 1 .. Len(fanouts)
    BY <1>3, <1>5, <2>5 DEF NotifiedOnce, OwnKinds
  <2>6. QED BY <2>2, <2>3, <2>4, <2>5
<1>8. QED BY <1>6, <1>7 DEF NotifiedOnce, all

LEMMA OnceInvInductive == OnceInv /\ [Next]_vars => OnceInv'
<1> SUFFICES ASSUME OnceInv, [Next]_vars PROVE OnceInv'  OBVIOUS
<1>1. TypeOK /\ TypeOK'  BY TypeStep DEF OnceInv
<1>2. SUFFICES ASSUME NEW r \in ReservationIds'
               PROVE  NotifiedOnce(reservations'[r], notifications'[r])
  BY <1>1 DEF OnceInv
<1>3. CASE r \in ReservationIds /\ Still(r)
  BY <1>3 DEF OnceInv, Still
<1>4. CASE OnlyLoggedMoves
  <2>1. r \in ReservationIds  BY <1>4 DEF OnlyLoggedMoves, ReservationIds
  <2>2. CASE LoggedMove(r)
    <3>1. PICK action \in AuditAction, fanout \in Seq(Fanout) :
            /\ Moves(reservations[r], reservations'[r], action)
            /\ notifications'[r] = notifications[r] \o fanout
            /\ OwnKinds(fanout, action)
      BY <2>2 DEF LoggedMove
    <3>2. QED BY <1>1, <2>1, <3>1, RowType, LogTypes, OnceGrows DEF OnceInv
  <2>3. QED BY <1>3, <1>4, <2>1, <2>2 DEF OnlyLoggedMoves
<1>5. ASSUME NEW ctx \in Context, NEW car \in Car, NEW w \in Window,
             CreateReservation(ctx, car, w)
      PROVE  NotifiedOnce(reservations'[r], notifications'[r])
  <2> DEFINE n == Len(reservations)
             to == ActiveWith(DecisionRoles) \ {ctx.user}
             told == [kind |-> "reservation_requested", to |-> to]
  <2>1. /\ n \in Nat /\ ReservationIds = 1 .. n /\ ReservationIds' = 1 .. n + 1
        /\ \A s \in 1 .. n : Still(s)
    BY <1>1, <1>5, CreateLogs
  <2>2. notifications'[n + 1] = <<>> \/ notifications'[n + 1] = <<told>>
    <3> DEFINE fanout == Notify("reservation_requested", to)
    <3>1. notifications' = Append(notifications, fanout) /\ Len(notifications) = n
      BY <1>1, <1>5 DEF CreateReservation, TypeOK
    <3>2. fanout = <<>> \/ fanout = <<told>>  BY DEF Notify
    <3> HIDE DEF fanout, told
    <3>3. notifications'[n + 1] = fanout  BY <1>1, <3>1, <2>1 DEF TypeOK
    <3>4. QED BY <3>2, <3>3
  <2>3. told.kind = "reservation_requested"  OBVIOUS
  <2> HIDE DEF told
  <2>4. NotifiedOnce(reservations'[n + 1], <<>>) /\ NotifiedOnce(reservations'[n + 1], <<told>>)
    <3>1. Len(<<told>>) = 1 /\ <<told>>[1] = told  OBVIOUS
    <3>2. QED BY <2>3, <3>1 DEF NotifiedOnce, DistinctKinds, KindsSoFar
  <2>5. CASE r = n + 1  BY <2>2, <2>4, <2>5
  <2>6. CASE r # n + 1  BY <1>3, <2>1, <2>6
  <2>7. QED BY <2>5, <2>6
<1>6. QED BY <1>1, <1>4, <1>5, LoggedSteps

\* However single and bulk decisions, handovers and cancellations race for a
\* reservation, nobody is told the same thing about it twice.
THEOREM NobodyIsToldTwice == Spec => []NoDuplicateNotification
<1>1. Init => OnceInv
  BY InitType DEF Init, OnceInv, ReservationIds
<1>2. OnceInv => NoDuplicateNotification
  BY DEF OnceInv, NotifiedOnce, DistinctKinds, NoDuplicateNotification
<1>3. QED BY <1>1, <1>2, OnceInvInductive, PTL DEF Spec
=============================================================================
