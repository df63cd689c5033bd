-------------------------------- MODULE Desk --------------------------------
(***************************************************************************)
(* One signed-in tab at work (static/app.js): it loads its two copies of   *)
(* the reservations, draws what DeskViews says, and sends what its buttons *)
(* ask for to a server on which others act as well.                        *)
(*                                                                         *)
(* The copies are loaded by different calls and are of different moments;  *)
(* a load is one step here, the one in which the server answers (for loads *)
(* that overtake one another see ReservationTable).  No copy holds more    *)
(* than the page the server cuts for it.  Nothing is redrawn because time  *)
(* passes: at is the clock when a copy was last drawn.  The summary and    *)
(* the offer to book are drawn at the end of what asked for the load, by   *)
(* what the copies hold then, and not at all when a load has failed.       *)
(***************************************************************************)
EXTENDS DeskViews

CONSTANTS
  Booking,     \* the reservations that may be made: their car, owner, start, end
  Visitor,     \* [user, role] of those who may have signed in
  Given,       \* for each of them, what may have become of the bookings before he came
  Cars,        \* which cars are in service
  Chip,        \* the status chips on the page
  TableLimit,  \* rows GET /reservations answers when not told how many: 100
  PulseLimit,  \* rows the pulse asks for: 500
  Clock,       \* bound: the moments at which a copy may be drawn
  MaxSteps     \* bound: moves of others, lost loads, and clicks that change no reservation

Id == DOMAIN Booking
Status == {"none", "pending", "approved", "checked_out", "returned", "rejected", "cancelled"}
ASSUME IdAssumption == Id \subseteq Nat /\ Id # {} /\ IsFiniteSet(Id)
ASSUME BookingAssumption ==
  \A r \in Id : {Booking[r].start, Booking[r].end} \subseteq Nat /\ Booking[r].start < Booking[r].end
ASSUME GivenAssumption == Given \in [Visitor -> SUBSET [Id -> Status]]
ASSUME CarAssumption == Cars \in [DOMAIN Cars -> BOOLEAN] /\ IsFiniteSet(DOMAIN Cars)
ASSUME VisitorAssumption == \A visitor \in Visitor : visitor.role \in Role
ASSUME ClockAssumption == Clock \subseteq Nat /\ 0 \in Clock
ASSUME ChipAssumption ==
  /\ Chip \subseteq {"open", "all"} \cup (Status \ {"none"})
  /\ \A visitor \in Visitor :    \* the chips the page presses of itself are on it
       IF IsOperational(visitor.role) THEN {"pending", "approved", "checked_out"} \subseteq Chip
                                      ELSE "open" \in Chip
ASSUME LimitAssumption == {TableLimit, PulseLimit} \subseteq Nat \ {0}
ASSUME StepAssumption == MaxSteps \in Nat

VARIABLES
  me,      \* who is signed in
  db,      \* the status the API shows of every reservation; "none" before it is made
  tab,     \* the copies and the loads that are out, see DeskViews
  chip,    \* state.status
  tails,   \* what is still to be drawn, by the call that will draw it
  drawn,   \* the summary and the offer to book as they stand on the screen
  at,      \* the clock at the last drawing of a copy
  day,     \* state.selectedDateKey
  gaveUp,  \* a load has failed since the summary was drawn from copies at rest
  steps    \* bounded
vars == <<me, db, tab, chip, tails, drawn, at, day, gaveUp, steps>>

Row(r, status) == [id |-> r, car |-> Booking[r].car, owner |-> Booking[r].owner,
                   status |-> status, start |-> Booking[r].start, end |-> Booking[r].end]
Rows   == {Row(r, status) : r \in Id, status \in Status \ {"none"}}
LastDay == Max({Booking[r].end : r \in Id}) \div DayLength

Focuses == {"view-active-trips", "review-pending", "view-handoffs", "view-readiness", "calm",
            "trip", "request", "free"}

TypeOK ==
  /\ me \in Visitor
  /\ db \in [Id -> Status]
  /\ tab.table \subseteq Rows /\ tab.pulse \subseteq Rows
  /\ tab.loading \subseteq {"table", "pulse"}
  /\ chip \in Chip
  /\ tails \subseteq {"cars", "refresh", "chip", "poll"}
  /\ drawn.focus \in Focuses /\ drawn.suggestion \in BOOLEAN
  /\ at \in Clock
  /\ day \in 0 .. LastDay
  /\ gaveUp \in BOOLEAN
  /\ steps \in 0 .. MaxSteps

\* defaultStatusForRole, on the page renderShell leaves the role on.
FirstChip(role) ==
  CASE role = "fleet_reception" -> "approved"
    [] role \in {"fleet_admin", "fleet_approver"} -> "pending"
    [] OTHER -> "open"

\* The copies refreshData loads; only operational roles have a pulse.
Copies == IF IsOperational(me.role) THEN {"table", "pulse"} ELSE {"table"}

Init ==
  /\ me \in Visitor
  /\ db \in Given[me]
  /\ tab = [table |-> {}, pulse |-> {}, loading |-> {}]
  /\ chip = FirstChip(me.role)
  /\ tails = {"cars"}
  /\ drawn = [focus |-> "calm", suggestion |-> FALSE]
  /\ at = 0
  /\ day = 0
  /\ gaveUp = FALSE
  /\ steps = 0
-----------------------------------------------------------------------------
(* The server *)

Bounded == steps < MaxSteps /\ steps' = steps + 1

\* The guards of _decide, start_trip, return_trip and cancel.
Accepts(visitor, action, r) ==
  CASE action \in {"approve", "reject"} -> visitor.role \in DecisionRoles /\ db[r] = "pending"
    [] action = "start"  -> visitor.role \in ReceptionRoles /\ db[r] = "approved"
    [] action = "return" -> visitor.role \in ReceptionRoles /\ db[r] = "checked_out"
    [] action = "cancel" ->
         /\ visitor.role \in AdminRoles \/ Booking[r].owner = visitor.user
         /\ db[r] \in {"pending", "approved", "checked_out", "returned"}

\* Mutant: a trip is started under a status the API does not know.
MutantOutcome == [approve |-> "approved", reject |-> "rejected", start |-> "awaiting_pickup",
                  return |-> "returned", cancel |-> "cancelled"]

\* What a transition makes of the status.
Outcome == [approve |-> "approved", reject |-> "rejected", start |-> "checked_out",
            return |-> "returned", cancel |-> "cancelled"]

Stored == {Row(r, db[r]) : r \in {k \in Id : db[k] # "none"}}

\* Mutant: the page is cut before the rows are filtered by status.
MutantPage(limit, statuses) ==
  With(Leading(limit, {row \in Stored : IsOperational(me.role) \/ row.owner = me.user}, ByStart), statuses)

\* GET /reservations: the first rows by start of those with the status asked for;
\* everybody but an operational role gets only what he booked himself.  Rows that
\* start at one moment come in the order of their ids.
Page(limit, statuses) ==
  Leading(limit, {row \in With(Stored, statuses) : IsOperational(me.role) \/ row.owner = me.user}, ByStart)

\* The table behind a chip: "open" is no status to ask for, so the tab itself
\* takes it out of the page of all rows.
Answer(filter) ==
  IF filter = "open" THEN With(Page(TableLimit, Status), Open)
                     ELSE Page(TableLimit, IF filter = "all" THEN Status ELSE {filter})

\* Somebody else: a request, or a move of one.
OthersAct(r) ==
  /\ Bounded
  /\ \/ db[r] = "none" /\ db' = [db EXCEPT ![r] = "pending"]
     \/ \E visitor \in [user : {Booking[r].owner}, role : {"fleet_admin"}], a \in DOMAIN Outcome :
          Accepts(visitor, a, r) /\ db' = [db EXCEPT ![r] = Outcome[a]]
  /\ UNCHANGED <<me, tab, chip, tails, drawn, at, day, gaveUp>>
-----------------------------------------------------------------------------
(* Loads and drawings *)

\* refreshData begins with the cars; the copies are loaded when they are there.
Refresh == tails' = tails \cup {"cars"}

LoadCars ==
  /\ "cars" \in tails
  /\ tails' = (tails \ {"cars"}) \cup {"refresh"}
  /\ tab' = [tab EXCEPT !.loading = @ \cup Copies]
  /\ UNCHANGED <<me, db, chip, drawn, at, day, gaveUp, steps>>

LoadTable ==
  /\ "table" \in tab.loading
  /\ tab' = [tab EXCEPT !.table = Answer(chip), !.loading = @ \ {"table"}]
  /\ at' \in {t \in Clock : t >= at}
  /\ UNCHANGED <<me, db, chip, tails, drawn, day, gaveUp, steps>>

LoadPulse ==
  /\ "pulse" \in tab.loading
  /\ tab' = [tab EXCEPT !.pulse = Page(PulseLimit, Status), !.loading = @ \ {"pulse"}]
  /\ at' \in {t \in Clock : t >= at}
  /\ UNCHANGED <<me, db, chip, tails, drawn, day, gaveUp, steps>>

\* A copy's load fails: it is drawn again as it was, and whoever waited for it
\* shows the error instead of running to its end.
LoseCopy(copy) ==
  /\ Bounded
  /\ copy \in tab.loading
  /\ tab' = [tab EXCEPT !.loading = @ \ {copy}]
  /\ tails' = tails \ (IF copy = "table" THEN {"refresh", "chip", "poll"} ELSE {"refresh"})
  /\ at' \in {t \in Clock : t >= at}
  /\ gaveUp' = TRUE
  /\ UNCHANGED <<me, db, chip, drawn, day>>

\* Something else a refresh loads fails, the cars before it or one of the rest
\* beside the copies, which go on.
LoseRest ==
  /\ Bounded
  /\ \E tail \in tails \cap {"cars", "refresh"} : tails' = tails \ {tail}
  /\ gaveUp' = TRUE
  /\ UNCHANGED <<me, db, tab, chip, drawn, at, day>>

Focus(readiness) ==
  IF IsOperational(me.role) THEN OperationalFocus(me, tab, at, readiness)
                            ELSE EmployeeFocus(me, tab).focus

\* Mutant: the poll loads the table and leaves the summary as it is.
MutantDraw(tail) ==
  /\ tail \in tails \ {"cars"}
  /\ IF tail = "refresh" THEN tab.loading = {} ELSE "table" \notin tab.loading
  /\ tails' = tails \ {tail}
  /\ drawn' = IF tail = "poll" THEN drawn
              ELSE [focus |-> Focus("pass"), suggestion |-> SuggestionShown(me, tab)]
  /\ gaveUp' = (gaveUp /\ tab.loading # {})
  /\ UNCHANGED <<me, db, tab, chip, at, day, steps>>

\* The tail of refreshData and of a chip's handler; the poll redraws the summary
\* and leaves the offer to book as it is.
Draw(tail) ==
  /\ tail \in tails \ {"cars"}
  /\ IF tail = "refresh" THEN tab.loading = {} ELSE "table" \notin tab.loading
  /\ tails' = tails \ {tail}
  /\ \E readiness \in {"pass", "fail"} :
       drawn' = [focus |-> Focus(readiness),
                 suggestion |-> IF tail = "poll" THEN drawn.suggestion ELSE SuggestionShown(me, tab)]
  /\ gaveUp' = (gaveUp /\ tab.loading # {})
  /\ UNCHANGED <<me, db, tab, chip, at, day, steps>>

\* startNotificationPolling, when the inbox brought news of a reservation.
Poll ==
  /\ tab.loading = {} /\ tails = {}
  /\ tab' = [tab EXCEPT !.loading = {"table"}]
  /\ tails' = {"poll"}
  /\ UNCHANGED <<me, db, chip, drawn, at, day, gaveUp, steps>>
-----------------------------------------------------------------------------
(* The user *)

LoadChip(filter) ==
  /\ Bounded
  /\ chip' = filter
  /\ tab' = [tab EXCEPT !.loading = @ \cup {"table"}]
  /\ UNCHANGED <<me, db, drawn, at, day, gaveUp>>

\* wireToolbar: a status chip.
ChooseChip(filter) == filter # chip /\ LoadChip(filter) /\ tails' = tails \cup {"chip"}

\* handleIntentAction: a button of the summary; it draws no tail of its own.
FollowFocus ==
  /\ drawn.focus \in {"review-pending", "view-handoffs", "view-active-trips"}
  /\ LoadChip(IntentChip(drawn.focus))
  /\ UNCHANGED tails

\* handleReservationCreate or quickBookReservation, answered.
Book(r) ==
  /\ me.role \in EmployeeRoles /\ Booking[r].owner = me.user
  /\ db[r] = "none"
  /\ db' = [db EXCEPT ![r] = "pending"]
  /\ Refresh
  /\ UNCHANGED <<me, tab, chip, drawn, at, day, gaveUp, steps>>

\* reservationAction.  A refusal is only a message: nothing is loaded again, and
\* the button stays where it is.
Press(offer) ==
  /\ Accepts(me, offer.action, offer.row.id)
  /\ db' = [db EXCEPT ![offer.row.id] = Outcome[offer.action]]
  /\ Refresh
  /\ UNCHANGED <<me, tab, chip, drawn, at, day, gaveUp, steps>>

SelectDay(key) ==
  /\ Bounded
  /\ day' = key
  /\ UNCHANGED <<me, db, tab, chip, tails, drawn, at, gaveUp>>

\* The button of a calm day's timeline.
GoToNextBusyDay ==
  /\ day' \in Timeline(me, tab, day).next
  /\ UNCHANGED <<me, db, tab, chip, tails, drawn, at, gaveUp, steps>>
-----------------------------------------------------------------------------
Next ==
  \/ LoadCars \/ LoadTable \/ LoadPulse
  \/ \E copy \in tab.loading : LoseCopy(copy)
  \/ LoseRest
  \/ \E tail \in tails : Draw(tail)
  \/ Poll
  \/ \E filter \in Chip : ChooseChip(filter)
  \/ FollowFocus
  \/ \E r \in Id : OthersAct(r) \/ Book(r)
  \/ \E offer \in Offers(me, tab, at) : Press(offer)
  \/ \E key \in 0 .. LastDay : SelectDay(key)
  \/ GoToNextBusyDay

Spec == Init /\ [][Next]_vars

\* The server answers and the tails run.
FairSpec ==
  /\ Spec
  /\ WF_vars(LoadCars) /\ WF_vars(LoadTable) /\ WF_vars(LoadPulse)
  /\ WF_vars(\E tail \in tails : Draw(tail))
-----------------------------------------------------------------------------
(* Properties *)

Settled == tab.loading = {} /\ tails = {}

\* A row tells the truth as long as nobody has moved its reservation on.
Fresh(row) == row.status = db[row.id]

\* The server refuses no button that was drawn from a row that is still true:
\* what the page draws for a role and a status is what the endpoints let pass,
\* on every rail and table and whichever copy the button came from.
OffersAreAccepted ==
  \A offer \in Offers(me, tab, at) : Fresh(offer.row) => Accepts(me, offer.action, offer.row.id)

\* Work of a role: what it may decide, hand over or take back at the server.
Work == {r \in Id : \E a \in {"approve", "start", "return"} : Accepts(me, a, r)}

\* A desk that says there is nothing to do has nothing to do, except what came up
\* since the pulse was loaded or lies behind its last row; a refresh that gave up
\* may leave an old summary beside a newer pulse.
CalmDeskHasNoWork ==
  Settled /\ ~gaveUp /\ drawn.focus \in {"calm", "view-readiness"} =>
    \A row \in tab.pulse : Fresh(row) => row.id \notin Work

\* A rail draws a few cards and counts the rest: each counted reservation comes up
\* in the table with its buttons after one press on the rail's own buttons, or the
\* press fills the table with work of the same kind that starts before it.
CountedWorkIsOneClickAway ==
  LET Reaches(button, row) ==
        LET list == Answer(IntentChip(button))
        IN  \/ row \in list
            \/ /\ Cardinality(list) = TableLimit
               /\ \A other \in list : other.status = row.status /\ Less(ByStart(other), ByStart(row))
  IN  /\ \A row \in DecisionRail(me, tab).more : Fresh(row) => Reaches("review-pending", row)
      /\ \A row \in ReceptionRail(me, tab, at).more :
           Fresh(row) => Reaches("view-handoffs", row) \/ Reaches("view-active-trips", row)

\* Every reservation reception has to hand over or take back, as the pulse knows
\* it, is a card of the rail or counted there.
NoHandoffIsForgotten ==
  CanHandOver(me.role) /\ tab.loading = {} =>
    \A row \in tab.pulse :
      row.id \in Work /\ Fresh(row) /\ row.status # "pending" =>
        LET rail == ReceptionRail(me, tab, at) IN row \in rail.shown \cup rail.more

\* The number of free cars never promises a car whose card says it is taken.
FreeCarsAreFree ==
  IsOperational(me.role) /\ tab.pulse # {} =>
    AvailableCars(me, tab, Cars) <= Cardinality({c \in DOMAIN Cars : CarCards(tab, Cars)[c] = "available"})

\* An employee sees that he has a trip, as long as the chip hides none of his open
\* reservations and the table is up to date - unless there is a whole page of his
\* reservations, past ones as well, that start before it.
TripIsInFocus ==
  LET mine == {row \in Stored : row.owner = me.user}
      Before(trip) == {row \in mine : Less(ByStart(row), ByStart(trip))}
  IN  /\ ~IsOperational(me.role) /\ Settled /\ ~gaveUp
      /\ chip \in {"open", "all"} /\ tab.table = Answer(chip)
      => ((\E trip \in With(mine, {"approved", "checked_out"}) : Cardinality(Before(trip)) < TableLimit)
            <=> drawn.focus = "trip")

\* From a calm day the button leads to a later day with a row, past no day on
\* which the month has a pill.
NextBusyDaySkipsNothing ==
  [][GoToNextBusyDay =>
       /\ day' > day /\ Timeline(me, tab, day').rows # {}
       /\ \A d \in day + 1 .. day' - 1 : MonthCell(me, tab, d) = NoRail]_vars
-----------------------------------------------------------------------------
(* What the page says and is not so *)

\* What a rail counts is in the list its button opens: not behind the hundredth row.
CountedWorkIsInTheList ==
  /\ \A row \in DecisionRail(me, tab).more : Fresh(row) => row \in Answer(IntentChip("review-pending"))
  /\ \A row \in ReceptionRail(me, tab, at).more :
       Fresh(row) => row \in Answer(IntentChip("view-handoffs")) \cup Answer(IntentChip("view-active-trips"))

\* A calm summary, just drawn from a pulse that is up to date, hides no work: not
\* when the work starts later than the five hundredth row there is.
CalmDeskIsIdle ==
  Settled /\ ~gaveUp /\ drawn.focus = "calm" /\ tab.pulse = Page(PulseLimit, Status) => Work = {}

\* "You have no active engagement": whenever the employee's summary says so, drawn
\* from a table that is up to date, he has no open reservation.
FreeDeskMeansFree ==
  [][drawn'.focus = "free" /\ drawn.focus # "free" /\ tab.table = Answer(chip) =>
       \A r \in Id : Booking[r].owner = me.user => db[r] \notin Open]_vars
=============================================================================
