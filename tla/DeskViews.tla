------------------------------ MODULE DeskViews ------------------------------
(***************************************************************************)
(* What a signed-in tab shows of the reservations it holds copies of, and  *)
(* which buttons it draws (static/app.js).  Every operator is a pure       *)
(* function of a tab, the one that looks at it and the moment of drawing;  *)
(* markup and wording are left out.                                        *)
(*                                                                         *)
(* A tab has two copies: table, what GET /reservations answered for the    *)
(* chip pressed (state.reservations), and pulse, all of it, which only     *)
(* operational roles load (state.pulseReservations).  loading holds the    *)
(* names of the copies a load is out for.  A row is [id, car, owner,       *)
(* status, start, end] with the status the API shows.                      *)
(***************************************************************************)
EXTENDS Integers, FiniteSets, FiniteSetsExt, FleetVocabulary

CONSTANTS DayLength,   \* moments in a day
          RailSize     \* cards a rail draws: 3, and 5 on the approver's decision rail

ASSUME DayAssumption  == DayLength \in Nat \ {0}
ASSUME RailAssumption == RailSize \in [Role -> Nat \ {0}]

IsFullAdmin(role)   == role = "fleet_admin"
CanDecide(role)     == role \in {"fleet_admin", "fleet_approver"}
CanHandOver(role)   == role \in {"fleet_admin", "fleet_reception"}
IsOperational(role) == role \in {"fleet_admin", "fleet_approver", "fleet_reception"}

With(rows, statuses) == {row \in rows : row.status \in statuses}
Open == {"pending", "approved", "checked_out"}

\* Rows in the order of a key, a tuple of numbers; the id makes the order total.
Less(s, t) == \E i \in DOMAIN s : s[i] < t[i] /\ \A j \in 1 .. i - 1 : s[j] = t[j]
ByStart(row) == <<row.start, row.id>>
First(rows, Key(_)) == CHOOSE row \in rows : \A other \in rows : ~Less(Key(other), Key(row))
Leading(n, rows, Key(_)) ==
  {row \in rows : Cardinality({other \in rows : Less(Key(other), Key(row))}) < n}
-----------------------------------------------------------------------------
(* One row *)

IsOverdueReturn(row, now) == row.status = "checked_out" /\ row.end < now

\* PRESENTATION_STATUS: what is drawn first where several rows compete.
Priority == [checked_out |-> 0, approved |-> 1, pending |-> 2, returned |-> 3,
             rejected |-> 4, cancelled |-> 5]

\* Mutant: the start button is drawn for a request nobody has approved yet.
MutantReservationActions(me, row) ==
  (IF CanHandOver(me.role) /\ row.status \in {"pending", "approved"} THEN {"start"} ELSE {})

\* The buttons of a row of the table and of its card in the flow.
ReservationActions(me, row) ==
  (IF CanDecide(me.role) /\ row.status = "pending" THEN {"approve", "reject"} ELSE {})
  \cup (IF CanHandOver(me.role) /\ row.status = "approved" THEN {"start"} ELSE {})
  \cup (IF CanHandOver(me.role) /\ row.status = "checked_out" THEN {"return"} ELSE {})
  \cup (IF /\ row.status \in {"pending", "approved"}
           /\ IsFullAdmin(me.role) \/ row.owner = me.user THEN {"cancel"} ELSE {})
-----------------------------------------------------------------------------
(* The rails of the admin page *)

\* pendingDecisionItems: both copies, and of a reservation in both the pulse's row.
PendingDecisions(tab) ==
  LET listed == With(tab.pulse, {"pending"})
  IN  listed \cup {row \in With(tab.table, {"pending"}) : \A other \in listed : other.id # row.id}

\* A rail is the rows drawn as cards and those only counted in "more".
Rail(shown, all) == [shown |-> shown, more |-> all \ shown]
NoRail == Rail({}, {})

DecisionRail(me, tab) ==
  IF ~CanDecide(me.role) \/ "table" \in tab.loading THEN NoRail
  ELSE Rail(Leading(RailSize[me.role], PendingDecisions(tab), ByStart), PendingDecisions(tab))

\* Mutant: overdue returns are kept apart and then forgotten.
MutantReceptionItems(tab, now) ==
  {row \in With(tab.pulse, {"approved", "checked_out"}) : ~IsOverdueReturn(row, now)}

\* receptionRailItems, and its order within one of the two groups.
ReceptionItems(tab, now) == With(tab.pulse, {"approved", "checked_out"})
ByHandoff(row) == IF row.status = "approved" THEN <<0, row.start, row.id>>
                                             ELSE <<1, row.end, row.id>>

\* Overdue returns and handoffs, three cards each.
ReceptionRail(me, tab, now) ==
  LET all     == ReceptionItems(tab, now)
      overdue == {row \in all : IsOverdueReturn(row, now)}
      Cards(rows) == Leading(RailSize["fleet_reception"], rows, ByHandoff)
  IN  IF ~CanHandOver(me.role) \/ tab.loading # {} THEN NoRail
      ELSE Rail(Cards(overdue) \cup Cards(all \ overdue), all)

\* The button of a card of the reception rail.
HandoffAction(row) == IF row.status = "checked_out" THEN "return" ELSE "start"

\* renderReservations and renderReservationFlow draw every row of the table, as a
\* line and as a card; while the table is loading, none.
TableLines(tab) == IF "table" \in tab.loading THEN {} ELSE tab.table
FlowCards(tab)  == IF "table" \in tab.loading THEN {} ELSE tab.table

\* Every reservation button on the page, with the row it was drawn from.
Offers(me, tab, now) ==
  (UNION { {[action |-> a, row |-> row] : a \in ReservationActions(me, row)} :
             row \in TableLines(tab) \cup FlowCards(tab) })
  \cup {[action |-> a, row |-> row] : a \in {"approve", "reject"}, row \in DecisionRail(me, tab).shown}
  \cup {[action |-> HandoffAction(row), row |-> row] : row \in ReceptionRail(me, tab, now).shown}
-----------------------------------------------------------------------------
(* What to do next *)

\* Mutant: reception is not sent to a trip that is out but not overdue.
MutantOperationalFocus(me, tab, now, readiness) ==
  LET pending  == With(tab.pulse, {"pending"}) # {}
      approved == With(tab.pulse, {"approved"}) # {}
  IN  CASE CanDecide(me.role) /\ pending    -> "review-pending"
        [] ~(CanDecide(me.role) /\ pending)
             /\ CanHandOver(me.role) /\ approved -> "view-handoffs"
        [] OTHER -> "calm"

\* updateSummary for an operational role: the first thing in this order that
\* there is, named by the button it offers.  readiness is the worst of the
\* production checks, which only a full admin loads.
OperationalFocus(me, tab, now, readiness) ==
  LET there ==
        [returns |-> CanHandOver(me.role) /\ \E row \in tab.pulse : IsOverdueReturn(row, now),
         pending |-> CanDecide(me.role)   /\ With(tab.pulse, {"pending"}) # {},
         handoff |-> CanHandOver(me.role) /\ With(tab.pulse, {"approved"}) # {},
         active  |-> CanHandOver(me.role) /\ With(tab.pulse, {"checked_out"}) # {},
         checks  |-> IsFullAdmin(me.role) /\ readiness \in {"fail", "warn"}]
  IN  IF there.returns THEN "view-active-trips"
      ELSE IF there.pending THEN "review-pending"
      ELSE IF there.handoff THEN "view-handoffs"
      ELSE IF there.active THEN "view-active-trips"
      ELSE IF there.checks THEN "view-readiness" ELSE "calm"

\* currentTripCandidate: the trip under way, else the next approved one.
TripCandidates(me, tab) ==
  IF IsOperational(me.role) THEN {}
  ELSE IF With(tab.table, {"checked_out"}) # {} THEN With(tab.table, {"checked_out"})
  ELSE With(tab.table, {"approved"})

\* updateSummary for an employee: about which trip the hero is, and what it says.
EmployeeFocus(me, tab) ==
  IF TripCandidates(me, tab) # {}
    THEN [focus |-> "trip", row |-> {First(TripCandidates(me, tab), ByStart)}]
  ELSE IF With(tab.table, {"pending"}) # {}
    THEN [focus |-> "request", row |-> {First(With(tab.table, {"pending"}), ByStart)}]
  ELSE [focus |-> "free", row |-> {}]

\* renderSuggestedBookingHero: the offer to book, for one without an open
\* reservation.
SuggestionShown(me, tab) == me.role = "employee" /\ With(tab.table, Open) = {}

\* handleIntentAction: the chip a button of the summary or of a rail presses.
IntentChip(action) ==
  CASE action = "review-pending"    -> "pending"
    [] action = "view-handoffs"     -> "approved"
    [] action = "view-active-trips" -> "checked_out"
-----------------------------------------------------------------------------
(* Cars, counts and the calendar *)

\* operationalReservationSource: an empty pulse that is not being loaded gives
\* way to the table, whatever chip filtered it.
OperationalSource(tab) ==
  IF tab.pulse # {} \/ "pulse" \in tab.loading THEN tab.pulse ELSE tab.table

ByUrgency(row) == <<Priority[row.status], row.start, row.id>>

\* carOperationalState: the label of an active car's card.
CarLabel(tab, car) ==
  LET trips == {row \in With(OperationalSource(tab), {"approved", "checked_out"}) : row.car = car}
  IN  IF trips = {} THEN "available"
      ELSE IF First(trips, ByUrgency).status = "checked_out" THEN "checked_out"
      ELSE "awaiting_pickup"

\* renderCars: what the card of every car says; cars tells which are in service.
CarCards(tab, cars) ==
  [car \in DOMAIN cars |-> IF cars[car] THEN CarLabel(tab, car) ELSE "inactive"]

\* Mutant: cars on a trip are not deducted.
MutantAvailableCars(me, tab, cars) ==
  LET rows == IF IsOperational(me.role) THEN tab.pulse ELSE tab.table
  IN  Max({0, Cardinality({car \in DOMAIN cars : cars[car]}) - Cardinality(With(rows, {"approved"}))})

\* updateOverview: the "free cars" of a signed-in tab; every approved or active
\* reservation takes one away, also two of one car.
AvailableCars(me, tab, cars) ==
  LET rows == IF IsOperational(me.role) THEN tab.pulse ELSE tab.table
  IN  Max({0, Cardinality({car \in DOMAIN cars : cars[car]}) - Cardinality(With(rows, {"approved", "checked_out"}))})

\* calendarSourceItems, after sign-in.
CalendarItems(me, tab) ==
  IF ~IsOperational(me.role) THEN tab.table
  ELSE With(OperationalSource(tab),
            IF me.role = "fleet_reception" THEN {"approved", "checked_out"} ELSE Open)

\* calendarItemKeys: every local day from the start's to the end's, the end's
\* also when the window ends as it begins.
DaysOf(row) == row.start \div DayLength .. row.end \div DayLength

\* dayMap at one day.
ItemsOn(me, tab, day) == {row \in CalendarItems(me, tab) : day \in DaysOf(row)}

\* renderCalendar: the pills of a day in the month, at most four and the rest
\* counted; a row of several days comes first.
ByPill(row) == <<IF Cardinality(DaysOf(row)) > 1 THEN 0 ELSE 1, Priority[row.status], row.start, row.id>>
MonthCell(me, tab, day) ==
  LET items == ItemsOn(me, tab, day) IN Rail(Leading(4, items, ByPill), items)

\* Mutant: the search takes in the rows the calendar leaves out.
MutantNextBusyDays(me, tab, day) ==
  LET busy == UNION {DaysOf(row) : row \in OperationalSource(tab)}
  IN  IF \E d \in busy : d > day THEN {Min({d \in busy : d > day})} ELSE {}

\* nextBusyDateKey.
NextBusyDays(me, tab, day) ==
  LET busy == UNION {DaysOf(row) : row \in CalendarItems(me, tab)}
  IN  IF \E d \in busy : d > day THEN {Min({d \in busy : d > day})} ELSE {}

\* renderDayTimeline: the rows of the selected day or, on a day without one, the
\* button that leads to the next.
Timeline(me, tab, day) ==
  [rows |-> ItemsOn(me, tab, day),
   next |-> IF ItemsOn(me, tab, day) = {} THEN NextBusyDays(me, tab, day) ELSE {}]
=============================================================================
