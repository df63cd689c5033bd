------------------------------ MODULE DeskProofs ------------------------------
(***************************************************************************)
(* What the page shows and offers, for any number of reservations, any     *)
(* visitor, any chips and any clock: its buttons and the guards of the     *)
(* server agree, a calm summary hides no work, what a rail only counts is  *)
(* one click away or behind a full page of earlier work, a trip is in      *)
(* focus, free cars are free, and the button of a calm day skips nothing.  *)
(*                                                                         *)
(* All of them need to know of a row that it is the row of a reservation   *)
(* under some status and one the visitor may see: RowsAreTrue, the         *)
(* inductive invariant, which holds because both copies are pages of the   *)
(* server's rows.                                                          *)
(* What is drawn from them is DrawnIsTrue.                                 *)
(***************************************************************************)
EXTENDS Desk, Extrema

\* A row of a copy.
TrueRow(row) ==
  /\ row.id \in Id /\ row.status \in Status \ {"none"} /\ row = Row(row.id, row.status)
  /\ IsOperational(me.role) \/ row.owner = me.user

\* The tab is a record of its copies, whose rows are rows of reservations.
RowsAreTrue ==
  /\ db \in [Id -> Status]
  /\ DOMAIN tab = {"table", "pulse", "loading"}
  /\ tab = [copy \in DOMAIN tab |-> tab[copy]]
  /\ \A row \in tab.table \cup tab.pulse : TrueRow(row)
  /\ IsFiniteSet(tab.pulse) /\ (~IsOperational(me.role) => tab.pulse = {})

LEMMA RowFields ==
  ASSUME NEW r \in Id, NEW status
  PROVE  /\ Row(r, status).id = r /\ Row(r, status).status = status
         /\ Row(r, status).owner = Booking[r].owner /\ Row(r, status).car = Booking[r].car
         /\ Row(r, status).start = Booking[r].start /\ Row(r, status).end = Booking[r].end
BY DEF Row

\* The rows the server has for a visitor, before it cuts the page.
Asked(statuses) == {row \in With(Stored, statuses) : IsOperational(me.role) \/ row.owner = me.user}

\* They are such rows, with the status that is stored.
LEMMA AskedIsTrue ==
  ASSUME db \in [Id -> Status], NEW statuses, NEW row \in Asked(statuses)
  PROVE  TrueRow(row) /\ row.status = db[row.id] /\ row.status \in statuses
<1>1. PICK r \in {k \in Id : db[k] # "none"} : row = Row(r, db[r])
  BY DEF Asked, With, Stored
<1>2. row.id = r /\ row.status = db[r] /\ db[r] \in Status \ {"none"}
  BY <1>1, RowFields
<1>3. (IsOperational(me.role) \/ row.owner = me.user) /\ row.status \in statuses
  BY DEF Asked, With
<1> QED BY <1>1, <1>2, <1>3 DEF TrueRow

\* ... finitely many ...
LEMMA AskedIsFinite == ASSUME NEW statuses PROVE IsFiniteSet(Asked(statuses))
<1> DEFINE f == [r \in Id |-> Row(r, db[r])]
<1>1. IsFiniteSet({f[r] : r \in Id})
  BY IdAssumption, ImageCardinality
<1>2. Asked(statuses) \subseteq {f[r] : r \in Id}
  BY DEF Asked, With, Stored
<1> QED BY <1>1, <1>2, FS_Subset

\* ... and every reservation there is, if its status is one of those asked for and
\* the visitor may see it.
LEMMA AskedHolds ==
  ASSUME NEW statuses, NEW r \in Id, db[r] # "none", db[r] \in statuses,
         IsOperational(me.role) \/ Booking[r].owner = me.user
  PROVE  Row(r, db[r]) \in Asked(statuses)
BY RowFields DEF Asked, With, Stored

LEMMA PageIsAsked ==
  ASSUME NEW limit, NEW statuses
  PROVE  /\ Page(limit, statuses) =
              {row \in Asked(statuses) :
                 Cardinality({other \in Asked(statuses) : Less(ByStart(other), ByStart(row))}) < limit}
         /\ Page(limit, statuses) \subseteq Asked(statuses)
BY DEF Page, Leading, Asked

\* What the table gets is part of a page.
LEMMA AnswerIsPaged ==
  ASSUME NEW filter
  PROVE  \E statuses : Answer(filter) \subseteq Page(TableLimit, statuses)
BY DEF Answer, With

\* The order of a page: by start, and by id where two begin together.
LEMMA LessByStart ==
  ASSUME NEW s, NEW t
  PROVE  Less(ByStart(s), ByStart(t)) <=> s.start < t.start \/ (t.start = s.start /\ s.id < t.id)
<1>1. DOMAIN ByStart(s) = {1, 2} /\ ByStart(s) = <<s.start, s.id>> /\ ByStart(t) = <<t.start, t.id>>
  BY DEF ByStart
<1>2. 1 .. 1 - 1 = {} /\ 1 .. 2 - 1 = {1}
  OBVIOUS
<1> HIDE DEF ByStart
<1> QED BY <1>1, <1>2 DEF Less

\* A page that leaves out a row the visitor asked for is full, and full of rows
\* that come before it.
LEMMA PageIsFull ==
  ASSUME db \in [Id -> Status], NEW limit \in Nat, NEW statuses,
         NEW row \in Asked(statuses), row \notin Page(limit, statuses)
  PROVE  /\ Cardinality(Page(limit, statuses)) = limit
         /\ \A other \in Page(limit, statuses) : Less(ByStart(other), ByStart(row))
<1> DEFINE S == Asked(statuses)
           Before(a) == {b \in S : Less(ByStart(b), ByStart(a))}
           R == {pair \in S \X S : Less(ByStart(pair[1]), ByStart(pair[2]))}
<1>1. IsFiniteSet(S)
  BY AskedIsFinite
<1>2. \A a \in S : a.id \in Id /\ a = Row(a.id, db[a.id]) /\ a.id \in Nat /\ a.start \in Nat
  <2> SUFFICES ASSUME NEW a \in S
               PROVE  a.id \in Id /\ a = Row(a.id, db[a.id]) /\ a.id \in Nat /\ a.start \in Nat
    OBVIOUS
  <2>1. a.id \in Id /\ a = Row(a.id, db[a.id])
    BY AskedIsTrue DEF TrueRow
  <2>2. a.start = Booking[a.id].start
    BY <2>1, RowFields
  <2> QED BY <2>1, <2>2, IdAssumption, BookingAssumption
<1> HIDE DEF S
<1>3. \A a, b \in S : <<a, b>> \in R <=> a.start < b.start \/ (b.start = a.start /\ a.id < b.id)
  BY LessByStart
<1>4. \A a \in S : Before(a) = {b \in S : <<b, a>> \in R}
  OBVIOUS
<1> HIDE DEF R, Before
<1>5. \A a, b \in S : a = b \/ <<a, b>> \in R \/ <<b, a>> \in R
  <2> SUFFICES ASSUME NEW a \in S, NEW b \in S, a.id # b.id PROVE <<a, b>> \in R \/ <<b, a>> \in R
    BY <1>2
  <2> QED BY <1>2, <1>3
<1>6. \A a \in S : <<a, a>> \notin R
  BY <1>2, <1>3
<1>7. \A a, b, c \in S : <<a, b>> \in R /\ <<b, c>> \in R => <<a, c>> \in R
  BY <1>2, <1>3
<1>8. Page(limit, statuses) = {a \in S : Cardinality({b \in S : <<b, a>> \in R}) < limit}
  <2>1. Page(limit, statuses) = {a \in S : Cardinality(Before(a)) < limit}
    BY PageIsAsked DEF S, Before
  <2> QED BY <1>4, <2>1
<1>9. row \in S /\ limit <= Cardinality({b \in S : <<b, row>> \in R})
  <2>1. row \in S /\ ~(Cardinality({b \in S : <<b, row>> \in R}) < limit)
    BY <1>8 DEF S
  <2>2. IsFiniteSet({b \in S : <<b, row>> \in R})
    BY <1>1, FS_Subset
  <2>3. Cardinality({b \in S : <<b, row>> \in R}) \in Nat
    BY <2>2, FS_CardinalityType
  <2> QED BY <2>1, <2>3
<1>10. /\ Cardinality(Page(limit, statuses)) = limit
       /\ \A other \in Page(limit, statuses) : <<other, row>> \in R
  <2>1. PICK first : first = {a \in S : Cardinality({b \in S : <<b, a>> \in R}) < limit}
    OBVIOUS
  <2>2. Cardinality(first) = limit /\ \A a \in first : <<a, row>> \in R
    BY <1>1, <1>5, <1>6, <1>7, <1>9, <2>1, CutIsFull
  <2> QED BY <1>8, <2>1, <2>2
<1> QED BY <1>10 DEF R

\* A rail's cards are rows of the list it was made from.
LEMMA CardsAreRows ==
  ASSUME NEW visitor, NEW t, NEW now
  PROVE  /\ \A row \in DecisionRail(visitor, t).shown :
              CanDecide(visitor.role) /\ row \in t.table \cup t.pulse /\ row.status = "pending"
         /\ \A row \in ReceptionRail(visitor, t, now).shown :
              /\ CanHandOver(visitor.role) /\ row \in t.pulse
              /\ row.status \in {"approved", "checked_out"}
<1>1. NoRail.shown = {}
  BY DEF NoRail, Rail
<1>2. ASSUME NEW row \in DecisionRail(visitor, t).shown
      PROVE  CanDecide(visitor.role) /\ row \in t.table \cup t.pulse /\ row.status = "pending"
  <2>1. CanDecide(visitor.role) /\ row \in PendingDecisions(t)
    BY <1>1, <1>2 DEF DecisionRail, Rail, Leading
  <2> QED BY <2>1 DEF PendingDecisions, With
<1>3. ASSUME NEW row \in ReceptionRail(visitor, t, now).shown
      PROVE  /\ CanHandOver(visitor.role) /\ row \in t.pulse
             /\ row.status \in {"approved", "checked_out"}
  <2>1. CanHandOver(visitor.role) /\ row \in ReceptionItems(t, now)
    BY <1>1, <1>3 DEF ReceptionRail, Rail, Leading
  <2> QED BY <2>1 DEF ReceptionItems, With
<1> QED BY <1>2, <1>3

\* Every button comes from a row of a copy, and its action fits the visitor's
\* role and the status of the row.
LEMMA OffersFitTheirRows ==
  ASSUME NEW visitor, NEW t, NEW now, NEW offer \in Offers(visitor, t, now)
  PROVE  /\ offer.row \in t.table \cup t.pulse
         /\ \/ /\ offer.action \in {"approve", "reject"} /\ CanDecide(visitor.role)
               /\ offer.row.status = "pending"
            \/ /\ offer.action = "start" /\ CanHandOver(visitor.role)
               /\ offer.row.status = "approved"
            \/ /\ offer.action = "return" /\ CanHandOver(visitor.role)
               /\ offer.row.status = "checked_out"
            \/ /\ offer.action = "cancel" /\ offer.row.status \in {"pending", "approved"}
               /\ IsFullAdmin(visitor.role) \/ offer.row.owner = visitor.user
<1>1. CASE \E row \in TableLines(t) \cup FlowCards(t) : \E a \in ReservationActions(visitor, row) :
             offer = [action |-> a, row |-> row]
  <2>1. PICK row \in TableLines(t) \cup FlowCards(t) :
               \E a \in ReservationActions(visitor, row) : offer = [action |-> a, row |-> row]
    BY <1>1
  <2>2. PICK a \in ReservationActions(visitor, row) : offer = [action |-> a, row |-> row]
    BY <2>1
  <2>3. row \in t.table
    BY DEF TableLines, FlowCards
  <2>4. offer.action = a /\ offer.row = row
    BY <2>2
  <2> QED BY <2>3, <2>4 DEF ReservationActions
<1>2. CASE \E a \in {"approve", "reject"}, row \in DecisionRail(visitor, t).shown :
             offer = [action |-> a, row |-> row]
  <2>1. PICK a \in {"approve", "reject"}, row \in DecisionRail(visitor, t).shown :
               offer = [action |-> a, row |-> row]
    BY <1>2
  <2>2. offer.action = a /\ offer.row = row
    BY <2>1
  <2> QED BY <2>2, CardsAreRows
<1>3. CASE \E row \in ReceptionRail(visitor, t, now).shown :
             offer = [action |-> HandoffAction(row), row |-> row]
  <2>1. PICK row \in ReceptionRail(visitor, t, now).shown :
               offer = [action |-> HandoffAction(row), row |-> row]
    BY <1>3
  <2>2. offer.action = HandoffAction(row) /\ offer.row = row
    BY <2>1
  <2>3. CanHandOver(visitor.role) /\ row \in t.pulse /\ row.status \in {"approved", "checked_out"}
    BY CardsAreRows
  <2> QED BY <2>2, <2>3 DEF HandoffAction
<1> QED BY <1>1, <1>2, <1>3 DEF Offers

\* The two copies start empty.
LEMMA InitRowsAreTrue == Init => RowsAreTrue
BY FS_EmptySet, GivenAssumption DEF Init, RowsAreTrue

\* The steps that load nothing.
LEMMA CopiesStay ==
  ASSUME [Next]_vars
  PROVE  \/ LoadTable \/ LoadPulse
         \/ UNCHANGED tab \/ \E loads : tab' = [tab EXCEPT !.loading = loads]
BY DEF Next, Draw, Poll, ChooseChip, FollowFocus, LoadChip, OthersAct, Book, Press, Refresh,
       SelectDay, GoToNextBusyDay, LoadCars, LoseCopy, LoseRest, vars

LEMMA VisitorStays == [Next]_vars => UNCHANGED me
BY DEF Next, LoadCars, LoadTable, LoadPulse, LoseCopy, LoseRest, Draw, Poll, ChooseChip, FollowFocus, LoadChip, OthersAct, Book,
       Press, SelectDay, GoToNextBusyDay, vars

LEMMA StatusTyped == db \in [Id -> Status] /\ [Next]_vars => db' \in [Id -> Status]
<1> SUFFICES ASSUME db \in [Id -> Status], [Next]_vars PROVE db' \in [Id -> Status]
  OBVIOUS
<1>1. \A a \in DOMAIN Outcome : Outcome[a] \in Status
  BY DEF Outcome, Status
<1>2. "pending" \in Status
  BY DEF Status
<1>3. ASSUME NEW r \in Id, OthersAct(r) PROVE db' \in [Id -> Status]
  BY <1>1, <1>2, <1>3 DEF OthersAct
<1>4. ASSUME NEW r \in Id, Book(r) PROVE db' \in [Id -> Status]
  BY <1>2, <1>4 DEF Book
<1>5. ASSUME NEW offer \in Offers(me, tab, at), Press(offer) PROVE db' \in [Id -> Status]
  <2>1. offer.action \in DOMAIN Outcome
    BY OffersFitTheirRows DEF Outcome
  <2> QED BY <1>1, <1>5, <2>1 DEF Press
<1> QED
  BY <1>3, <1>4, <1>5
  DEF Next, LoadCars, LoadTable, LoadPulse, LoseCopy, LoseRest, Draw, Poll, ChooseChip,
      FollowFocus, LoadChip, SelectDay, GoToNextBusyDay, vars

\* Without a pulse to load there is none.
Loading == tab.loading \subseteq Copies

\* A copy changes only by taking an answer.
LEMMA NextRowsAreTrue == RowsAreTrue /\ Loading /\ [Next]_vars => RowsAreTrue' /\ Loading'
<1> SUFFICES ASSUME RowsAreTrue, Loading, [Next]_vars PROVE RowsAreTrue' /\ Loading'
  OBVIOUS
<1>1. db' \in [Id -> Status] /\ me' = me
  BY StatusTyped, VisitorStays DEF RowsAreTrue
<1>2. \A row : TrueRow(row) <=> TrueRow(row)'
  BY <1>1 DEF TrueRow
<1>3. CASE LoadTable
  <2>1. DOMAIN tab' = DOMAIN tab /\ tab' = [copy \in DOMAIN tab' |-> tab'[copy]]
    BY <1>3 DEF LoadTable, RowsAreTrue
  <2>2. /\ tab'.table = Answer(chip) /\ tab'.pulse = tab.pulse
        /\ tab'.loading \subseteq tab.loading
    BY <1>3 DEF LoadTable, RowsAreTrue
  <2>3. \A row \in Answer(chip) : TrueRow(row)
    BY AnswerIsPaged, PageIsAsked, AskedIsTrue DEF RowsAreTrue
  <2> QED BY <1>1, <1>2, <2>1, <2>2, <2>3 DEF RowsAreTrue, Loading, Copies
<1>4. CASE LoadPulse
  <2>1. DOMAIN tab' = DOMAIN tab /\ tab' = [copy \in DOMAIN tab' |-> tab'[copy]]
    BY <1>4 DEF LoadPulse, RowsAreTrue
  <2>2. /\ tab'.pulse = Page(PulseLimit, Status) /\ tab'.table = tab.table
        /\ tab'.loading \subseteq tab.loading
    BY <1>4 DEF LoadPulse, RowsAreTrue
  <2>3. \A row \in Page(PulseLimit, Status) : TrueRow(row)
    BY PageIsAsked, AskedIsTrue DEF RowsAreTrue
  <2>4. IsFiniteSet(Page(PulseLimit, Status))
    BY PageIsAsked, AskedIsFinite, FS_Subset
  <2>5. IsOperational(me.role)
    BY <1>4 DEF LoadPulse, Loading, Copies
  <2> QED BY <1>1, <1>2, <2>1, <2>2, <2>3, <2>4, <2>5 DEF RowsAreTrue, Loading, Copies
<1>5. CASE UNCHANGED tab \/ \E loads : tab' = [tab EXCEPT !.loading = loads]
  <2>1. /\ DOMAIN tab' = DOMAIN tab /\ tab' = [copy \in DOMAIN tab' |-> tab'[copy]]
        /\ tab'.table = tab.table /\ tab'.pulse = tab.pulse
    BY <1>5 DEF RowsAreTrue
  <2>2. RowsAreTrue'
    BY <1>1, <1>2, <2>1 DEF RowsAreTrue
  <2>3. \/ UNCHANGED tab \/ LoadTable \/ LoadPulse
        \/ tab' = [tab EXCEPT !.loading = @ \cup Copies]
        \/ \E copy \in tab.loading : tab' = [tab EXCEPT !.loading = @ \ {copy}]
        \/ tab' = [tab EXCEPT !.loading = {"table"}]
        \/ tab' = [tab EXCEPT !.loading = @ \cup {"table"}]
    BY DEF Next, LoadCars, LoseCopy, LoseRest, Draw, Poll, ChooseChip, FollowFocus, LoadChip,
           OthersAct, Book, Press, SelectDay, GoToNextBusyDay, vars
  <2>4. CASE LoadTable \/ LoadPulse
    BY <1>3, <1>4, <2>4
  <2>5. CASE ~(LoadTable \/ LoadPulse)
    <3>1. "table" \in Copies /\ Copies' = Copies
      BY <1>1 DEF Copies
    <3>2. tab'.loading \subseteq tab.loading \cup Copies
      BY <2>3, <2>5, <3>1 DEF RowsAreTrue
    <3>3. Loading'
      BY <3>1, <3>2 DEF Loading
    <3> QED BY <2>2, <3>3
  <2> QED BY <2>4, <2>5
<1> QED BY <1>3, <1>4, <1>5, CopiesStay

\* The rows of both copies are rows of reservations at every moment.
THEOREM SpecRowsAreTrue == Spec => []RowsAreTrue
<1>1. Init => Loading
  BY DEF Init, Loading
<1> QED BY <1>1, InitRowsAreTrue, NextRowsAreTrue, PTL DEF Spec

\* A row's owner and, while the row is fresh, its status decide what the server
\* accepts; the page draws its buttons from the same two.
LEMMA RowsDecideOffers == RowsAreTrue => OffersAreAccepted
<1> SUFFICES ASSUME RowsAreTrue, NEW offer \in Offers(me, tab, at), Fresh(offer.row)
             PROVE  Accepts(me, offer.action, offer.row.id)
  BY DEF OffersAreAccepted
<1>1. /\ offer.row \in tab.table \cup tab.pulse
      /\ \/ /\ offer.action \in {"approve", "reject"} /\ CanDecide(me.role)
            /\ offer.row.status = "pending"
         \/ /\ offer.action = "start" /\ CanHandOver(me.role)
            /\ offer.row.status = "approved"
         \/ /\ offer.action = "return" /\ CanHandOver(me.role)
            /\ offer.row.status = "checked_out"
         \/ /\ offer.action = "cancel" /\ offer.row.status \in {"pending", "approved"}
            /\ IsFullAdmin(me.role) \/ offer.row.owner = me.user
  BY OffersFitTheirRows
<1>2. offer.row.owner = Booking[offer.row.id].owner /\ offer.row.status = db[offer.row.id]
  BY <1>1, RowFields DEF RowsAreTrue, TrueRow, Fresh
<1> QED BY <1>1, <1>2 DEF Accepts, CanDecide, CanHandOver, IsFullAdmin, DecisionRoles,
                          ReceptionRoles, AdminRoles

\* The server refuses no button that was drawn from a row that is still true:
\* the page (app.js) and the handlers (routers/reservations.py) agree on who may
\* do what to a reservation in which status, for every role.
THEOREM SpecOffersAreAccepted == Spec => []OffersAreAccepted
BY SpecRowsAreTrue, RowsDecideOffers, PTL
-----------------------------------------------------------------------------
(* The rails *)

\* A rail forgets nothing: what it does not draw it counts.
LEMMA RailIsWhole == ASSUME NEW shown, NEW all PROVE all \subseteq Rail(shown, all).shown \cup Rail(shown, all).more
BY DEF Rail

\* What one may decide, hand over or take back, by its status.
LEMMA WorkByStatus ==
  ASSUME NEW r \in Work
  PROVE  \/ CanDecide(me.role) /\ db[r] = "pending"
         \/ CanHandOver(me.role) /\ db[r] \in {"approved", "checked_out"}
BY DEF Work, Accepts, CanDecide, CanHandOver, DecisionRoles, ReceptionRoles

LEMMA RailIsComplete == NoHandoffIsForgotten
<1> SUFFICES ASSUME CanHandOver(me.role), tab.loading = {}, NEW row \in tab.pulse,
                    row.id \in Work, Fresh(row), row.status # "pending"
             PROVE  LET rail == ReceptionRail(me, tab, at) IN row \in rail.shown \cup rail.more
  BY DEF NoHandoffIsForgotten
<1>1. row.status \in {"approved", "checked_out"}
  BY WorkByStatus DEF Fresh
<1>2. row \in ReceptionItems(tab, at)
  BY <1>1 DEF ReceptionItems, With
<1>3. \E shown : ReceptionRail(me, tab, at) = Rail(shown, ReceptionItems(tab, at))
  BY DEF ReceptionRail
<1> QED BY <1>2, <1>3, RailIsWhole

\* No handoff or return the pulse knows of falls off the reception rail, however
\* many there are and however few cards it draws.
THEOREM NoHandoffForgotten == Spec => []NoHandoffIsForgotten
BY RailIsComplete, PTL

\* A row still true comes up in the list of its status, or behind a full one.
Reached(row) ==
  \/ row \in Answer(row.status)
  \/ /\ Cardinality(Answer(row.status)) = TableLimit
     /\ \A other \in Answer(row.status) :
          other.status = row.status /\ Less(ByStart(other), ByStart(row))

LEMMA RowIsReached ==
  ASSUME RowsAreTrue, IsOperational(me.role), NEW row \in tab.table \cup tab.pulse, Fresh(row)
  PROVE  Reached(row)
<1>1. row.id \in Id /\ row = Row(row.id, db[row.id]) /\ db[row.id] = row.status
  BY DEF RowsAreTrue, TrueRow, Fresh
<1>2. row.status \in Status \ {"none"} /\ row.status \notin {"open", "all"}
  BY DEF RowsAreTrue, TrueRow, Status
<1>3. row \in Asked({row.status})
  <2>1. Row(row.id, db[row.id]) \in Asked({row.status})
    BY <1>1, <1>2, AskedHolds
  <2> QED BY <1>1, <2>1
<1>4. Answer(row.status) = Page(TableLimit, {row.status})
  BY <1>2 DEF Answer
<1>5. \A other \in Page(TableLimit, {row.status}) : other.status = row.status
  BY PageIsAsked, AskedIsTrue DEF RowsAreTrue
<1>6. row \notin Page(TableLimit, {row.status}) =>
        /\ Cardinality(Page(TableLimit, {row.status})) = TableLimit
        /\ \A other \in Page(TableLimit, {row.status}) : Less(ByStart(other), ByStart(row))
  BY <1>3, PageIsFull, LimitAssumption DEF RowsAreTrue
<1> QED BY <1>4, <1>5, <1>6 DEF Reached

LEMMA CountedIsReached == RowsAreTrue => CountedWorkIsOneClickAway
<1> SUFFICES ASSUME RowsAreTrue PROVE CountedWorkIsOneClickAway
  OBVIOUS
<1>1. NoRail.more = {}
  BY DEF NoRail, Rail
<1>2. /\ IntentChip("review-pending") = "pending" /\ IntentChip("view-handoffs") = "approved"
      /\ IntentChip("view-active-trips") = "checked_out"
  BY DEF IntentChip
<1>3. ASSUME NEW row \in DecisionRail(me, tab).more, Fresh(row)
      PROVE  Reached(row) /\ row.status = "pending"
  <2>1. CanDecide(me.role) /\ row \in PendingDecisions(tab)
    BY <1>1, <1>3 DEF DecisionRail, Rail
  <2>2. row \in tab.table \cup tab.pulse /\ row.status = "pending"
    BY <2>1 DEF PendingDecisions, With
  <2>3. IsOperational(me.role)
    BY <2>1 DEF CanDecide, IsOperational
  <2> QED BY <1>3, <2>2, <2>3, RowIsReached
<1>4. ASSUME NEW row \in ReceptionRail(me, tab, at).more, Fresh(row)
      PROVE  Reached(row) /\ row.status \in {"approved", "checked_out"}
  <2>1. CanHandOver(me.role) /\ row \in ReceptionItems(tab, at)
    BY <1>1, <1>4 DEF ReceptionRail, Rail
  <2>2. row \in tab.pulse /\ row.status \in {"approved", "checked_out"}
    BY <2>1 DEF ReceptionItems, With
  <2>3. IsOperational(me.role)
    BY <2>1 DEF CanHandOver, IsOperational
  <2> QED BY <1>4, <2>2, <2>3, RowIsReached
<1> QED BY <1>2, <1>3, <1>4 DEF CountedWorkIsOneClickAway, Reached

\* What the rails only count comes up behind the button next to the count, or the
\* list is full of work of the same kind that starts earlier: the chips the
\* buttons press, the filter and the order of GET /reservations and the lists the
\* rails are cut from agree, for any limits of the table and of the pulse.
THEOREM CountedWorkIsReached == Spec => []CountedWorkIsOneClickAway
BY SpecRowsAreTrue, CountedIsReached, PTL
-----------------------------------------------------------------------------
(* The summary *)

\* The focus an employee's summary may have, and the initial one.
EmployeeFocuses == {"trip", "request", "free", "calm"}

\* Nothing is out that nobody will draw, and what the summary says was so of the
\* copies when it was last drawn - until a load fails.
DrawnIsTrue ==
  /\ ~IsOperational(me.role) => drawn.focus \in EmployeeFocuses
  /\ ~gaveUp =>
       /\ "pulse" \in tab.loading => "refresh" \in tails
       /\ "refresh" \notin tails /\ drawn.focus \in {"calm", "view-readiness"} =>
            /\ CanDecide(me.role) => With(tab.pulse, {"pending"}) = {}
            /\ CanHandOver(me.role) => With(tab.pulse, {"approved", "checked_out"}) = {}
       /\ ~IsOperational(me.role) =>
            /\ "table" \in tab.loading => tails # {}
            /\ tails = {} => (drawn.focus = "trip" <=> TripCandidates(me, tab) # {})

\* A summary that says calm was drawn from a pulse without work.
LEMMA CalmFocus ==
  ASSUME NEW readiness, IsOperational(me.role), Focus(readiness) \in {"calm", "view-readiness"}
  PROVE  /\ CanDecide(me.role) => With(tab.pulse, {"pending"}) = {}
         /\ CanHandOver(me.role) => With(tab.pulse, {"approved", "checked_out"}) = {}
<1>1. OperationalFocus(me, tab, at, readiness) \in {"calm", "view-readiness"}
  BY DEF Focus
<1>2. CanDecide(me.role) => With(tab.pulse, {"pending"}) = {}
  BY <1>1 DEF OperationalFocus
<1>3. CanHandOver(me.role) =>
        With(tab.pulse, {"approved"}) = {} /\ With(tab.pulse, {"checked_out"}) = {}
  BY <1>1 DEF OperationalFocus
<1> QED BY <1>2, <1>3 DEF With

LEMMA EmployeeDrawn ==
  ASSUME NEW readiness, ~IsOperational(me.role)
  PROVE  /\ Focus(readiness) \in EmployeeFocuses
         /\ Focus(readiness) = "trip" <=> TripCandidates(me, tab) # {}
BY DEF Focus, EmployeeFocus, EmployeeFocuses

LEMMA DrawTrue ==
  ASSUME RowsAreTrue, DrawnIsTrue, NEW tail \in tails, Draw(tail) PROVE DrawnIsTrue'
<1>1. UNCHANGED <<me, tab, tails \ {tail}>> /\ tails' = tails \ {tail}
  BY DEF Draw
<1>2. PICK readiness \in {"pass", "fail"} : drawn'.focus = Focus(readiness)
  BY DEF Draw
<1>3. tail = "refresh" => tab.loading = {}
  BY DEF Draw
<1>4. "table" \notin tab.loading /\ (gaveUp' <=> gaveUp /\ tab.loading # {})
  BY DEF Draw
<1>5. IsOperational(me.role) /\ drawn'.focus \in {"calm", "view-readiness"} =>
        /\ CanDecide(me.role) => With(tab.pulse, {"pending"}) = {}
        /\ CanHandOver(me.role) => With(tab.pulse, {"approved", "checked_out"}) = {}
  BY <1>2, CalmFocus
<1>6. ~IsOperational(me.role) => ~CanDecide(me.role) /\ ~CanHandOver(me.role)
  BY DEF IsOperational, CanDecide, CanHandOver
<1>7. ~IsOperational(me.role) =>
        /\ drawn'.focus \in EmployeeFocuses
        /\ drawn'.focus = "trip" <=> TripCandidates(me, tab) # {}
  BY <1>2, EmployeeDrawn
<1> QED BY <1>1, <1>3, <1>4, <1>5, <1>6, <1>7 DEF DrawnIsTrue

LEMMA NextDrawnIsTrue == RowsAreTrue /\ DrawnIsTrue /\ [Next]_vars => DrawnIsTrue'
<1> SUFFICES ASSUME RowsAreTrue, DrawnIsTrue, [Next]_vars PROVE DrawnIsTrue'
  OBVIOUS
<1>0. me' = me
  BY VisitorStays
<1>1. CASE LoadTable
  <2>1. tab'.loading = tab.loading \ {"table"} /\ tab'.pulse = tab.pulse
    BY <1>1 DEF LoadTable, RowsAreTrue
  <2>2. UNCHANGED <<tails, drawn, gaveUp>> /\ "table" \in tab.loading
    BY <1>1 DEF LoadTable
  <2> QED BY <1>0, <2>1, <2>2 DEF DrawnIsTrue
<1>2. CASE LoadPulse
  <2>1. tab'.loading = tab.loading \ {"pulse"} /\ tab'.table = tab.table
    BY <1>2 DEF LoadPulse, RowsAreTrue
  <2>2. UNCHANGED <<tails, drawn, gaveUp>> /\ "pulse" \in tab.loading
    BY <1>2 DEF LoadPulse
  <2> QED BY <1>0, <2>1, <2>2 DEF DrawnIsTrue, TripCandidates
<1>3. CASE Poll
  <2>1. tab'.loading = {"table"} /\ tab'.pulse = tab.pulse /\ tails' = {"poll"} /\ tails = {}
        /\ UNCHANGED <<drawn, gaveUp>>
    BY <1>3 DEF Poll, RowsAreTrue
  <2> QED BY <1>0, <2>1 DEF DrawnIsTrue
<1>4. ASSUME NEW filter \in Chip, ChooseChip(filter) PROVE DrawnIsTrue'
  <2>1. tab'.loading = tab.loading \cup {"table"} /\ tab'.pulse = tab.pulse
        /\ tails' = tails \cup {"chip"} /\ UNCHANGED <<drawn, gaveUp>>
    BY <1>4 DEF ChooseChip, LoadChip, RowsAreTrue
  <2> QED BY <1>0, <2>1 DEF DrawnIsTrue
<1>5. CASE FollowFocus
  <2>1. tab'.loading = tab.loading \cup {"table"} /\ tab'.pulse = tab.pulse
        /\ tails' = tails /\ UNCHANGED <<drawn, gaveUp>>
    BY <1>5 DEF FollowFocus, LoadChip, RowsAreTrue
  <2>2. IsOperational(me.role)
    BY <1>5 DEF FollowFocus, DrawnIsTrue, EmployeeFocuses
  <2> QED BY <1>0, <2>1, <2>2 DEF DrawnIsTrue
<1>6. CASE (\E r \in Id : Book(r)) \/ \E offer \in Offers(me, tab, at) : Press(offer)
  <2>1. tails' = tails \cup {"cars"} /\ UNCHANGED <<tab, drawn, gaveUp>>
    BY <1>6 DEF Book, Press, Refresh
  <2> QED BY <1>0, <2>1 DEF DrawnIsTrue
<1>7. CASE \/ UNCHANGED vars \/ \E r \in Id : OthersAct(r)
           \/ \E key \in 0 .. LastDay : SelectDay(key)
           \/ GoToNextBusyDay
  <2>1. UNCHANGED <<me, tab, tails, drawn, gaveUp>>
    BY <1>7 DEF vars, OthersAct, SelectDay, GoToNextBusyDay
  <2> QED BY <2>1 DEF DrawnIsTrue
<1>8. CASE LoadCars
  <2>1. /\ tails' = (tails \ {"cars"}) \cup {"refresh"} /\ tab'.pulse = tab.pulse
        /\ UNCHANGED <<drawn, gaveUp>>
    BY <1>8 DEF LoadCars, RowsAreTrue
  <2> QED BY <1>0, <2>1 DEF DrawnIsTrue
<1>9. CASE LoseRest \/ \E copy \in tab.loading : LoseCopy(copy)
  <2>1. gaveUp' = TRUE /\ drawn' = drawn
    BY <1>9 DEF LoseRest, LoseCopy
  <2> QED BY <1>0, <2>1 DEF DrawnIsTrue
<1> QED BY <1>1, <1>2, <1>3, <1>4, <1>5, <1>6, <1>7, <1>8, <1>9, DrawTrue DEF Next

LEMMA DrawnHolds == Spec => []DrawnIsTrue
<1>1. Init => DrawnIsTrue
  BY DEF Init, DrawnIsTrue, EmployeeFocuses, With
<1> QED BY <1>1, NextDrawnIsTrue, SpecRowsAreTrue, PTL DEF Spec

LEMMA CalmHasNoWork == RowsAreTrue /\ DrawnIsTrue => CalmDeskHasNoWork
<1> SUFFICES ASSUME RowsAreTrue, DrawnIsTrue, Settled, ~gaveUp,
                    drawn.focus \in {"calm", "view-readiness"},
                    NEW row \in tab.pulse, Fresh(row), row.id \in Work
             PROVE  FALSE
  BY DEF CalmDeskHasNoWork
<1>1. \/ CanDecide(me.role) /\ row.status = "pending"
      \/ CanHandOver(me.role) /\ row.status \in {"approved", "checked_out"}
  BY WorkByStatus DEF Fresh
<1> QED BY <1>1 DEF DrawnIsTrue, Settled, With

\* A desk that says there is nothing to do has nothing to do in its pulse, whichever
\* call drew the summary, in whatever order the copies came and whichever loads
\* failed before.
THEOREM CalmDesksHaveNoWork == Spec => []CalmDeskHasNoWork
BY SpecRowsAreTrue, DrawnHolds, CalmHasNoWork, PTL

LEMMA TripIsSeen == RowsAreTrue /\ DrawnIsTrue => TripIsInFocus
<1> DEFINE mine == {row \in Stored : row.owner = me.user}
           Before(trip) == {row \in mine : Less(ByStart(row), ByStart(trip))}
           trips == {"approved", "checked_out"}
<1> SUFFICES ASSUME RowsAreTrue, DrawnIsTrue, ~IsOperational(me.role), Settled, ~gaveUp,
                    chip \in {"open", "all"}, tab.table = Answer(chip)
             PROVE  (\E trip \in With(mine, trips) : Cardinality(Before(trip)) < TableLimit)
                      <=> drawn.focus = "trip"
  BY DEF TripIsInFocus
<1>1. drawn.focus = "trip" <=> TripCandidates(me, tab) # {}
  BY DEF DrawnIsTrue, Settled
<1>2. TripCandidates(me, tab) # {} <=> \E row \in tab.table : row.status \in trips
  BY DEF TripCandidates, With
<1>3. Asked(Status) = mine
  <2>1. \A row \in mine : row.status \in Status
    BY RowFields DEF Stored, RowsAreTrue
  <2> QED BY <2>1 DEF Asked, With
<1>4. Page(TableLimit, Status) = {row \in mine : Cardinality(Before(row)) < TableLimit}
  BY <1>3, PageIsAsked
<1>5. \A row : row.status \in trips => (row \in tab.table <=> row \in Page(TableLimit, Status))
  BY DEF Answer, With, Open
<1> HIDE DEF mine, Before
<1> QED BY <1>1, <1>2, <1>4, <1>5 DEF With

\* An employee with a trip sees it, unless a whole page of his reservations starts
\* before it, and one who has none is shown none.
THEOREM TripsAreInFocus == Spec => []TripIsInFocus
BY SpecRowsAreTrue, DrawnHolds, TripIsSeen, PTL
-----------------------------------------------------------------------------
(* The cars *)

LEMMA ActiveIsFinite == IsFiniteSet({c \in DOMAIN Cars : Cars[c]})
BY CarAssumption, FS_Subset

\* A car without a trip in the pulse has the label of a free one.
LEMMA FreeLabel ==
  ASSUME tab.pulse # {}, NEW c \in DOMAIN Cars, Cars[c],
         \A row \in With(tab.pulse, {"approved", "checked_out"}) : row.car # c
  PROVE  CarCards(tab, Cars)[c] = "available"
<1>1. OperationalSource(tab) = tab.pulse
  BY DEF OperationalSource
<1>2. CarLabel(tab, c) = "available"
  BY <1>1 DEF CarLabel
<1> QED BY <1>2 DEF CarCards

LEMMA FreeCarsCounted == RowsAreTrue => FreeCarsAreFree
<1> SUFFICES ASSUME RowsAreTrue, IsOperational(me.role), tab.pulse # {}
             PROVE  AvailableCars(me, tab, Cars)
                      <= Cardinality({c \in DOMAIN Cars : CarCards(tab, Cars)[c] = "available"})
  BY DEF FreeCarsAreFree
<1> DEFINE active == {c \in DOMAIN Cars : Cars[c]}
           trips  == With(tab.pulse, {"approved", "checked_out"})
           car    == [row \in trips |-> row.car]
           taken  == {car[row] : row \in trips}
           free   == {c \in DOMAIN Cars : CarCards(tab, Cars)[c] = "available"}
<1>1. IsFiniteSet(active) /\ IsFiniteSet(free)
  BY ActiveIsFinite, CarAssumption, FS_Subset
<1>2. IsFiniteSet(trips)
  <2>1. trips \subseteq tab.pulse
    BY DEF With
  <2> QED BY <2>1, FS_Subset DEF RowsAreTrue
<1>3. DOMAIN car = trips /\ car = [row \in trips |-> car[row]]
  OBVIOUS
<1>4. active \ taken \subseteq free
  BY FreeLabel
<1> HIDE DEF active, trips, car, free
<1>5. IsFiniteSet(taken) /\ Cardinality(taken) <= Cardinality(trips)
  BY <1>2, <1>3, ImageCardinality
<1> HIDE DEF taken
<1>6. /\ Cardinality(active) \in Nat /\ Cardinality(taken) \in Nat
      /\ Cardinality(active \ taken) \in Nat
      /\ Cardinality(active) - Cardinality(taken) <= Cardinality(active \ taken)
  BY <1>1, <1>5, RestCardinality
<1>7. /\ Cardinality(active \ taken) <= Cardinality(free)
      /\ Cardinality(free) \in Nat /\ Cardinality(trips) \in Nat
  BY <1>1, <1>2, <1>4, FS_Subset, FS_CardinalityType
<1>8. /\ Cardinality(active) - Cardinality(trips) \in Int
      /\ Cardinality(active) - Cardinality(trips) <= Cardinality(free) /\ 0 <= Cardinality(free)
  BY <1>5, <1>6, <1>7
<1>9. AvailableCars(me, tab, Cars) = Max({0, Cardinality(active) - Cardinality(trips)})
  BY DEF AvailableCars, active, trips
<1>10. \A n \in Int : Max({0, n}) \in {0, n}
  <2> SUFFICES ASSUME NEW n \in Int PROVE Max({0, n}) \in {0, n}
    OBVIOUS
  <2>1. \E x \in {0, n} : \A y \in {0, n} : x >= y
    <3>1. CASE n >= 0
      BY <3>1
    <3>2. CASE 0 >= n
      BY <3>2
    <3> QED BY <3>1, <3>2
  <2> QED BY <2>1 DEF Max
<1> QED BY <1>8, <1>9, <1>10 DEF free

\* The number of free cars promises no car whose card says it is taken, for any
\* fleet and any trips: two trips of one car are subtracted twice, never too few.
THEOREM FreeCarsArePromised == Spec => []FreeCarsAreFree
BY SpecRowsAreTrue, FreeCarsCounted, PTL
-----------------------------------------------------------------------------
(* The calendar *)

DayTyped == day \in Nat

\* The day the button leads to is the first busy one behind the selected one.
LEMMA NextBusyDay ==
  ASSUME DayTyped, NEW d \in Timeline(me, tab, day).next
  PROVE  LET busy == UNION {DaysOf(row) : row \in CalendarItems(me, tab)}
         IN  /\ d \in busy /\ d \in Nat /\ d > day
             /\ \A e \in busy : e > day => d <= e
<1> DEFINE busy  == UNION {DaysOf(row) : row \in CalendarItems(me, tab)}
           later == {e \in busy : e > day}
<1>1. d \in NextBusyDays(me, tab, day)
  BY DEF Timeline
<1>2. later # {} /\ d = Min(later)
  BY <1>1 DEF NextBusyDays
<1>3. later \in SUBSET Nat
  BY DEF DaysOf, DayTyped
<1> HIDE DEF later
<1>4. d \in later /\ \A e \in later : d <= e
  BY <1>2, <1>3, MinOfNat
<1> QED BY <1>3, <1>4 DEF later

LEMMA DayStep == DayTyped /\ [Next]_vars => DayTyped'
<1> SUFFICES ASSUME DayTyped, [Next]_vars PROVE DayTyped'
  OBVIOUS
<1>1. CASE GoToNextBusyDay
  BY <1>1, NextBusyDay DEF GoToNextBusyDay, DayTyped
<1>2. CASE \E key \in 0 .. LastDay : SelectDay(key)
  BY <1>2 DEF SelectDay, DayTyped
<1> QED
  BY <1>1, <1>2
  DEF Next, LoadCars, LoadTable, LoadPulse, LoseCopy, LoseRest, Draw, Poll, ChooseChip,
      FollowFocus, LoadChip, OthersAct, Book, Press, vars, DayTyped

LEMMA DayHolds == Spec => []DayTyped
<1>1. Init => DayTyped
  BY DEF Init, DayTyped
<1> QED BY <1>1, DayStep, PTL DEF Spec

LEMMA NextDaySkipsNothing ==
  ASSUME DayTyped, GoToNextBusyDay
  PROVE  /\ day' > day /\ Timeline(me, tab, day').rows # {}
         /\ \A d \in day + 1 .. day' - 1 : MonthCell(me, tab, d) = NoRail
<1> DEFINE busy == UNION {DaysOf(row) : row \in CalendarItems(me, tab)}
<1>1. /\ day' \in busy /\ day' \in Nat /\ day' > day
      /\ \A e \in busy : e > day => day' <= e
  BY NextBusyDay DEF GoToNextBusyDay
<1>2. \A k : k \in busy <=> ItemsOn(me, tab, k) # {}
  BY DEF ItemsOn
<1>3. Timeline(me, tab, day').rows # {}
  BY <1>1, <1>2 DEF Timeline
<1>4. ASSUME NEW d \in day + 1 .. day' - 1 PROVE MonthCell(me, tab, d) = NoRail
  <2>0. d > day /\ ~(day' <= d)
    <3>1. \A m, n \in Nat : \A e \in m + 1 .. n - 1 : e > m /\ ~(n <= e)
      OBVIOUS
    <3> HIDE DEF busy
    <3> QED BY <1>1, <3>1 DEF DayTyped
  <2>1. ItemsOn(me, tab, d) = {}
    <3> HIDE DEF busy
    <3> QED BY <1>1, <1>2, <2>0
  <2> QED BY <2>1 DEF MonthCell, NoRail, Rail, Leading
<1> QED BY <1>1, <1>3, <1>4

\* The button of a calm day leads on, to a day with a row, and jumps over no day
\* on which the month has a pill, for trips of any length.
THEOREM NextDaysSkipNothing == Spec => NextBusyDaySkipsNothing
<1>1. DayTyped /\ [Next]_vars =>
        [GoToNextBusyDay =>
           /\ day' > day /\ Timeline(me, tab, day').rows # {}
           /\ \A d \in day + 1 .. day' - 1 : MonthCell(me, tab, d) = NoRail]_vars
  BY NextDaySkipsNothing
<1> QED BY <1>1, DayHolds, PTL DEF Spec, NextBusyDaySkipsNothing
-----------------------------------------------------------------------------
(* Types *)

LEMMA DivMonotone ==
  ASSUME NEW m \in Nat, NEW n \in Nat, m <= n
  PROVE  m \div DayLength \in Nat /\ n \div DayLength \in Nat /\ m \div DayLength <= n \div DayLength
BY DayAssumption

\* No booking ends after the last day.
LEMMA LastDayIsLast ==
  /\ LastDay \in Nat
  /\ \A r \in Id : Booking[r].end \div DayLength <= LastDay
<1> DEFINE ends == {Booking[r].end : r \in Id}
           end  == [r \in Id |-> Booking[r].end]
<1>1. ends \in SUBSET Nat /\ ends # {}
  BY IdAssumption, BookingAssumption
<1>2. IsFiniteSet({end[r] : r \in Id}) /\ {end[r] : r \in Id} = ends
  BY IdAssumption, ImageCardinality
<1> HIDE DEF ends
<1>3. Max(ends) \in Nat /\ \A n \in ends : n \in Nat /\ n <= Max(ends)
  BY <1>1, <1>2, MaxOfNat
<1>4. LastDay = Max(ends) \div DayLength
  BY DEF LastDay, ends
<1>5. \A r \in Id : Booking[r].end \in ends
  BY DEF ends
<1> QED BY <1>3, <1>4, <1>5, DivMonotone

LEMMA BusyDaysAreBooked ==
  ASSUME RowsAreTrue, NEW row \in CalendarItems(me, tab), NEW d \in DaysOf(row)
  PROVE  d <= LastDay
<1>1. row \in tab.table \cup tab.pulse
  BY DEF CalendarItems, OperationalSource, With
<1>2. row.id \in Id /\ row.start = Booking[row.id].start /\ row.end = Booking[row.id].end
  BY <1>1, RowFields DEF RowsAreTrue, TrueRow
<1>3. row.end \in Nat
  BY <1>2, BookingAssumption
<1>4. d \in Int /\ d <= row.end \div DayLength /\ row.end \div DayLength \in Nat
  BY <1>3, DivMonotone DEF DaysOf
<1> QED BY <1>2, <1>4, LastDayIsLast

LEMMA FocusTyped == ASSUME NEW readiness PROVE Focus(readiness) \in Focuses
BY DEF Focus, OperationalFocus, EmployeeFocus, Focuses

\* The rest of TypeOK, which the invariants above leave open.
Panel ==
  /\ me \in Visitor /\ chip \in Chip
  /\ tails \subseteq {"cars", "refresh", "chip", "poll"}
  /\ drawn = [focus |-> drawn.focus, suggestion |-> drawn.suggestion]
  /\ drawn.focus \in Focuses /\ drawn.suggestion \in BOOLEAN
  /\ at \in Clock /\ day \in 0 .. LastDay /\ gaveUp \in BOOLEAN /\ steps \in 0 .. MaxSteps

LEMMA InitPanel == Init => Panel
<1> SUFFICES ASSUME Init PROVE Panel
  OBVIOUS
<1>1. chip \in Chip
  BY ChipAssumption, VisitorAssumption DEF Init, FirstChip, IsOperational, Role
<1>2. day \in 0 .. LastDay /\ steps \in 0 .. MaxSteps
  BY LastDayIsLast, StepAssumption DEF Init
<1> QED BY <1>1, <1>2, ClockAssumption DEF Init, Panel, Focuses

LEMMA PanelStep == RowsAreTrue /\ DrawnIsTrue /\ Panel /\ [Next]_vars => Panel'
<1> SUFFICES ASSUME RowsAreTrue, DrawnIsTrue, Panel, [Next]_vars PROVE Panel'
  OBVIOUS
<1>1. CASE LoadCars \/ LoadTable \/ LoadPulse \/ UNCHANGED vars
  BY <1>1 DEF LoadCars, LoadTable, LoadPulse, vars, Panel
<1>2. ASSUME NEW tail \in tails, Draw(tail) PROVE Panel'
  <2>1. PICK readiness \in {"pass", "fail"} :
          drawn' = [focus |-> Focus(readiness),
                    suggestion |-> IF tail = "poll" THEN drawn.suggestion ELSE SuggestionShown(me, tab)]
    BY <1>2 DEF Draw
  <2>2. SuggestionShown(me, tab) \in BOOLEAN
    BY DEF SuggestionShown
  <2>3. Focus(readiness) \in Focuses
    BY FocusTyped
  <2>4. /\ drawn' = [focus |-> drawn'.focus, suggestion |-> drawn'.suggestion]
        /\ drawn'.focus \in Focuses /\ drawn'.suggestion \in BOOLEAN
    BY <2>1, <2>2, <2>3 DEF Panel
  <2>5. gaveUp' \in BOOLEAN
    BY <1>2 DEF Draw
  <2> QED BY <1>2, <2>4, <2>5 DEF Draw, Panel
<1>3. CASE Poll
  BY <1>3 DEF Poll, Panel
<1>4. ASSUME Bounded PROVE steps' \in 0 .. MaxSteps
  BY <1>4, StepAssumption DEF Bounded, Panel
<1>5. ASSUME NEW filter \in Chip, ChooseChip(filter) PROVE Panel'
  BY <1>4, <1>5 DEF ChooseChip, LoadChip, Panel
<1>6. CASE FollowFocus
  <2>1. IsOperational(me.role)
    BY <1>6 DEF FollowFocus, DrawnIsTrue, EmployeeFocuses
  <2>2. IntentChip(drawn.focus) \in Chip
    BY <1>6, <2>1, ChipAssumption DEF FollowFocus, IntentChip, Panel
  <2> QED BY <1>4, <1>6, <2>2 DEF FollowFocus, LoadChip, Panel
<1>7. ASSUME NEW r \in Id, OthersAct(r) PROVE Panel'
  BY <1>4, <1>7 DEF OthersAct, Panel
<1>8. CASE (\E r \in Id : Book(r)) \/ \E offer \in Offers(me, tab, at) : Press(offer)
  BY <1>8 DEF Book, Press, Refresh, Panel
<1>9. ASSUME NEW key \in 0 .. LastDay, SelectDay(key) PROVE Panel'
  BY <1>4, <1>9 DEF SelectDay, Panel
<1>10. CASE GoToNextBusyDay
  <2>1. DayTyped
    BY LastDayIsLast DEF DayTyped, Panel
  <2>2. day' \in Nat /\ \E row \in CalendarItems(me, tab) : day' \in DaysOf(row)
    BY <1>10, <2>1, NextBusyDay DEF GoToNextBusyDay
  <2>3. day' <= LastDay
    BY <2>2, BusyDaysAreBooked
  <2>4. day' \in 0 .. LastDay
    BY <2>2, <2>3, LastDayIsLast
  <2> QED BY <1>10, <2>4 DEF GoToNextBusyDay, Panel
<1>11. CASE LoseRest \/ \E copy \in tab.loading : LoseCopy(copy)
  <2>1. tails' \subseteq tails /\ gaveUp' = TRUE /\ at' \in Clock /\ Bounded
        /\ UNCHANGED <<me, chip, drawn, day>>
    BY <1>11 DEF LoseRest, LoseCopy, Panel
  <2> QED BY <1>4, <2>1 DEF Panel
<1> QED BY <1>1, <1>2, <1>3, <1>5, <1>6, <1>7, <1>8, <1>9, <1>10, <1>11 DEF Next

\* Both copies hold rows of reservations, each chip the page presses is one it
\* has, and the day selected is one of the calendar's.
THEOREM TypeCorrect == Spec => []TypeOK
<1>1. RowsAreTrue /\ Loading /\ Panel => TypeOK
  <2> SUFFICES ASSUME RowsAreTrue, Loading, Panel PROVE TypeOK
    OBVIOUS
  <2>1. tab.table \subseteq Rows /\ tab.pulse \subseteq Rows
    BY DEF RowsAreTrue, TrueRow, Rows
  <2> QED BY <2>1 DEF RowsAreTrue, Loading, Copies, Panel, TypeOK
<1>2. Init => Loading
  BY DEF Init, Loading
<1> QED
  BY <1>1, <1>2, InitPanel, PanelStep, InitRowsAreTrue, NextRowsAreTrue, DrawnHolds, PTL DEF Spec
=============================================================================
