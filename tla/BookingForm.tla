------------------------------ MODULE BookingForm ------------------------------
(***************************************************************************)
(* The reservation form of one signed-in tab (static/app.js) and the       *)
(* conflict preview under it: every edit starts a 250 ms timer, the timer  *)
(* asks GET /reservations/conflicts about what the form then says, and     *)
(* requestId drops the answers that a later question has overtaken.  The   *)
(* cars are reloaded by a fleet chip and after whatever this user does     *)
(* (refreshData), which rebuilds the <select>; others book, block and      *)
(* retire cars meanwhile.                                                  *)
(*                                                                         *)
(* Time is a few hours of one day, some of which pass.  The tab and the    *)
(* server read one clock; what has begun can be sent by neither the form   *)
(* nor the quick booking, but the preview is asked about it all the same.  *)
(* An empty time field behaves as an inverted window does: nothing is      *)
(* asked and nothing can be sent, so it is not told apart from one.        *)
(***************************************************************************)
EXTENDS Integers, FiniteSets, FiniteSetsExt

CONSTANTS
  Car,          \* cars, by their id
  LastHour,     \* the hours are 0..LastHour
  Typed,        \* those the user types into a time field
  DayWindow,    \* what a click on a calendar day puts in the form
  Habit,        \* the car and window of the smart prefill
  FirstWindow,  \* the window of a freshly opened form
  Given,        \* the bookings and blackouts the server may start with
  Others,       \* what others may add meanwhile
  MaxClock,     \* bound: the hours that pass
  MaxEdits, MaxSends, MaxLoads, MaxChanges   \* bounds: edits, bookings sent,
                                             \* other reloads, changes by others

NoCar  == 0                            \* the value "" of the <select>
Hour   == 0 .. LastHour
Window == [from : Hour, to : Hour]
Form   == [car : Car \cup {NoCar}, from : Hour, to : Hour]
Kind   == {"reservation", "blackout"}
Item   == [kind : Kind, car : Car, from : Hour, to : Hour]

ASSUME CarAssumption    == Car \subseteq Nat \ {0} /\ IsFiniteSet(Car) /\ Car # {}
ASSUME WindowAssumption == /\ LastHour \in Nat /\ Typed \subseteq Hour
                           /\ {DayWindow, FirstWindow} \subseteq Window
                           /\ Habit \in Form
ASSUME ItemAssumption   == /\ Given \subseteq SUBSET Item /\ Others \subseteq Item
                           /\ \A items \in Given : IsFiniteSet(items)
                           /\ \A i \in Others \cup UNION Given : i.from < i.to
ASSUME BoundAssumption  == {MaxClock, MaxEdits, MaxSends, MaxLoads, MaxChanges} \subseteq Nat

VARIABLES
  taken,     \* the active reservations and blackouts at the server
  active,    \* the cars in service
  clock,     \* the last hour that has begun
  options,   \* the cars the <select> offers
  form,      \* its three fields
  timer,     \* conflictPreviewTimer runs
  preview,   \* state.conflictPreview; of and at are history
  calls,     \* conflict calls in flight
  loads,     \* GET /cars in flight
  sending,   \* the submit, whose button is locked, and the quick booking
  rebuilt,   \* history: the <select> changed car and no timer was set since
  spent      \* how much of each bound is used

server == <<taken, active, clock>>
vars   == <<server, options, form, timer, preview, calls, loads, sending, rebuilt, spent>>

Phase == {"idle", "posted", "taken", "refused", "loading", "loaded"}
Shown == {"idle", "loading", "clear", "warning", "error"}

TypeOK ==
  /\ taken \subseteq Item /\ active \subseteq Car /\ clock \in 0 .. MaxClock /\ options \subseteq Car
  /\ form \in Form /\ form.car \in options \cup {NoCar}
  /\ timer \in BOOLEAN /\ rebuilt \in BOOLEAN
  /\ preview.shown \in Shown /\ preview.id \in Nat /\ preview.items \subseteq Item
  /\ preview.of \in Form /\ preview.at \in Nat
  /\ (preview.items # {}) <=> (preview.shown = "warning")
  /\ preview.slot \in [from : Hour, to : Int]
  /\ \A c \in calls : c.id \in 1 .. preview.id /\ c.of \in Form /\ c.items \subseteq Item
  /\ \A c, d \in calls : c.id = d.id => c = d
  /\ loads \subseteq [by : {"page", "submit", "quick"}, no : Nat, answered : BOOLEAN,
                      cars : SUBSET Car]
  /\ sending.submit \in Phase /\ sending.quick \in Phase /\ sending.asked \in Form
  /\ spent.edits \in 0 .. MaxEdits /\ spent.sends \in 0 .. MaxSends
  /\ spent.loads \in 0 .. MaxLoads /\ spent.changes \in 0 .. MaxChanges

-----------------------------------------------------------------------------
(* The server *)

Overlap(i, w) == i.from < w.to /\ w.from < i.to

\* Mutant: the preview forgets the blackouts.
MutantConflicts(f) ==
  {i \in taken : i.car = f.car /\ Overlap(i, f) /\ i.kind = "reservation"}

\* GET /reservations/conflicts: it asks neither whether the car is in service nor
\* whether the window has begun.
Conflicts(f) == {i \in taken : i.car = f.car /\ Overlap(i, f)}

\* POST /reservations: a window that is still to begin, the car in service, no
\* reservation and no blackout.
Accepts(f) ==
  /\ clock < f.from /\ f.from < f.to
  /\ f.car \in active
  /\ ~\E i \in taken : i.car = f.car /\ Overlap(i, f)

\* GET /cars?active_only=false and renderCarSelect: the <select> offers the
\* cars in service and, rebuilt, stands on the first one.
FirstOf(cars) == IF cars = {} THEN NoCar ELSE Min(cars)

\* Mutant: the slot after the conflict that starts last.
MutantSlotAfter(items, w) ==
  LET last == CHOOSE i \in items : \A j \in items : j.from <= i.from
  IN  [from |-> last.to, to |-> last.to + (w.to - w.from)]

\* The slot renderConflictPreview offers: after the end that is latest, as long
\* as the window that stands in the form.
SlotAfter(items, w) ==
  LET end == Max({i.to : i \in items})
  IN  [from |-> end, to |-> end + (w.to - w.from)]

NoSlot == [from |-> 0, to |-> 0]

Init ==
  /\ taken \in Given /\ active = Car /\ options = Car /\ clock = 0
  /\ form = [car |-> FirstOf(Car), from |-> FirstWindow.from, to |-> FirstWindow.to]
  /\ timer = FALSE /\ rebuilt = TRUE
  /\ preview = [shown |-> "idle", id |-> 0, items |-> {}, slot |-> NoSlot, of |-> form, at |-> 0]
  /\ calls = {} /\ loads = {}
  /\ sending = [submit |-> "idle", quick |-> "idle", asked |-> form]
  /\ spent = [edits |-> 0, sends |-> 0, loads |-> 0, changes |-> 0]
-----------------------------------------------------------------------------
(* The user edits the form; every way to edit it schedules a preview *)

Edit(f) ==
  /\ spent.edits < MaxEdits
  /\ form' = f
  /\ timer' = TRUE /\ rebuilt' = FALSE
  /\ spent' = [spent EXCEPT !.edits = @ + 1]
  /\ UNCHANGED <<server, options, preview, calls, loads, sending>>

ChooseCar == \E c \in options : Edit([form EXCEPT !.car = c])

TypeTime == \E h \in Typed : \/ Edit([form EXCEPT !.from = h])
                             \/ Edit([form EXCEPT !.to = h])

PickDay == Edit([form EXCEPT !.from = DayWindow.from, !.to = DayWindow.to])

\* applySmartPrefill: a <select> given a value it has no option for is empty.
Prefill == Edit([Habit EXCEPT !.car = IF @ \in options THEN @ ELSE NoCar])

\* The button under the conflicts.  Slots beyond the last hour stay unpressed.
ApplySlot ==
  /\ preview.shown = "warning" /\ preview.slot.to \in Hour
  /\ Edit([form EXCEPT !.from = preview.slot.from, !.to = preview.slot.to])
-----------------------------------------------------------------------------
(* The preview *)

\* Mutant: the items of the last answer stay while the next is awaited.
MutantTimerFires ==
  /\ timer /\ form.car # NoCar /\ form.from < form.to
  /\ timer' = FALSE
  /\ preview' = [preview EXCEPT !.shown = "loading", !.id = @ + 1, !.of = form]
  /\ calls' = calls \cup {[id |-> preview.id + 1, of |-> form, answered |-> FALSE,
                           items |-> {}, at |-> 0]}
  /\ UNCHANGED <<server, options, form, loads, sending, rebuilt, spent>>

\* loadConflictPreview, when the timer fires.
TimerFires ==
  /\ timer /\ timer' = FALSE
  /\ LET askable == form.car # NoCar /\ form.from < form.to
         next    == preview.id + 1
     IN  /\ preview' = [shown |-> IF askable THEN "loading" ELSE "idle", id |-> next,
                        items |-> {}, slot |-> NoSlot, of |-> form, at |-> 0]
         /\ calls' = IF askable
                     THEN calls \cup {[id |-> next, of |-> form, answered |-> FALSE,
                                       items |-> {}, at |-> 0]}
                     ELSE calls
  /\ UNCHANGED <<server, options, form, loads, sending, rebuilt, spent>>

ServeCall(c) ==
  /\ ~c.answered
  /\ calls' = (calls \ {c}) \cup {[c EXCEPT !.answered = TRUE, !.items = Conflicts(c.of),
                                            !.at = Cardinality(taken)]}
  /\ UNCHANGED <<server, options, form, timer, preview, loads, sending, rebuilt, spent>>

\* Mutant: the answer is shown whatever has been asked since.
MutantCurrent(c) == TRUE

Current(c) == c.id = preview.id

Answer(c) ==
  /\ c.answered
  /\ calls' = calls \ {c}
  /\ preview' = IF Current(c)
                THEN [shown |-> IF c.items = {} THEN "clear" ELSE "warning",
                      id |-> preview.id, items |-> c.items, of |-> c.of, at |-> c.at,
                      slot |-> IF c.items = {} THEN NoSlot ELSE SlotAfter(c.items, form)]
                ELSE preview
  /\ UNCHANGED <<server, options, form, timer, loads, sending, rebuilt, spent>>

\* Mutant: the catch branch is missing.
MutantFailCall(c) ==
  /\ ~c.answered
  /\ calls' = calls \ {c}
  /\ UNCHANGED <<server, options, form, timer, preview, loads, sending, rebuilt, spent>>

\* A read that fails may as well have failed before it was served.
FailCall(c) ==
  /\ ~c.answered
  /\ calls' = calls \ {c}
  /\ preview' = IF Current(c) THEN [preview EXCEPT !.shown = "error"] ELSE preview
  /\ UNCHANGED <<server, options, form, timer, loads, sending, rebuilt, spent>>
-----------------------------------------------------------------------------
(* The cars *)

NewLoad(by) == [by |-> by, no |-> spent.loads, answered |-> FALSE, cars |-> {}]

\* A fleet chip, or another action that ends in refreshData: a start, a return.
Reload ==
  /\ spent.loads < MaxLoads
  /\ loads' = loads \cup {NewLoad("page")}
  /\ spent' = [spent EXCEPT !.loads = @ + 1]
  /\ UNCHANGED <<server, options, form, timer, preview, calls, sending, rebuilt>>

ServeLoad(l) ==
  /\ ~l.answered
  /\ loads' = (loads \ {l}) \cup {[l EXCEPT !.answered = TRUE, !.cars = active]}
  /\ UNCHANGED <<server, options, form, timer, preview, calls, sending, rebuilt, spent>>

\* Who awaits the load goes on.  refreshData swallows a failure.
Awaited(l) == [sending EXCEPT !.submit = IF l.by = "submit" THEN "loaded" ELSE @,
                              !.quick  = IF l.by = "quick"  THEN "loaded" ELSE @]

ShowCars(l) ==
  /\ l.answered
  /\ loads' = loads \ {l}
  /\ options' = l.cars
  /\ form' = [form EXCEPT !.car = FirstOf(l.cars)]
  /\ rebuilt' = (rebuilt \/ (form'.car # form.car))
  /\ sending' = Awaited(l)
  /\ UNCHANGED <<server, timer, preview, calls, spent>>

FailLoad(l) ==
  /\ ~l.answered
  /\ loads' = loads \ {l}
  /\ sending' = Awaited(l)
  /\ UNCHANGED <<server, options, form, timer, preview, calls, rebuilt, spent>>
-----------------------------------------------------------------------------
(* Sending the form, and the quick booking *)

\* What validateReservationForm lets pass.
Valid(f) == f.car # NoCar /\ f.from < f.to /\ clock < f.from

\* handleReservationCreate, up to its POST: the button is locked.
Submit ==
  /\ sending.submit = "idle" /\ spent.sends < MaxSends
  /\ Valid(form)
  /\ sending' = [sending EXCEPT !.submit = "posted", !.asked = form]
  /\ spent' = [spent EXCEPT !.sends = @ + 1]
  /\ UNCHANGED <<server, options, form, timer, preview, calls, loads, rebuilt>>

ServeSubmit ==
  /\ sending.submit = "posted"
  /\ LET f == sending.asked
     IN  IF Accepts(f)
         THEN /\ taken' = taken \cup {[kind |-> "reservation", car |-> f.car,
                                       from |-> f.from, to |-> f.to]}
              /\ sending' = [sending EXCEPT !.submit = "taken"]
         ELSE /\ UNCHANGED taken
              /\ sending' = [sending EXCEPT !.submit = "refused"]
  /\ UNCHANGED <<active, clock, options, form, timer, preview, calls, loads, rebuilt, spent>>

\* The POST is answered with a reservation: refreshData begins with the cars.
SubmitTaken ==
  /\ sending.submit = "taken"
  /\ sending' = [sending EXCEPT !.submit = "loading"]
  /\ loads' = loads \cup {NewLoad("submit")}
  /\ UNCHANGED <<server, options, form, timer, preview, calls, rebuilt, spent>>

\* ... and the other loads are over, or the first has failed.
FinishSubmit ==
  /\ sending.submit = "loaded"
  /\ sending' = [sending EXCEPT !.submit = "idle"]
  /\ timer' = TRUE /\ rebuilt' = FALSE
  /\ UNCHANGED <<server, options, form, preview, calls, loads, spent>>

\* The POST is refused, or its answer is lost whatever became of it.
FailSubmit ==
  /\ sending.submit \in {"posted", "taken", "refused"}
  /\ sending' = [sending EXCEPT !.submit = "idle"]
  /\ UNCHANGED <<server, options, form, timer, preview, calls, loads, rebuilt, spent>>

QuickBook ==
  /\ sending.quick = "idle" /\ spent.sends < MaxSends
  /\ sending' = [sending EXCEPT !.quick = "posted"]
  /\ spent' = [spent EXCEPT !.sends = @ + 1]
  /\ UNCHANGED <<server, options, form, timer, preview, calls, loads, rebuilt>>

\* The server books a free window of its own choice.
ServeQuick ==
  /\ sending.quick = "posted"
  /\ \E i \in Others : /\ i.kind = "reservation" /\ Accepts(i)
                       /\ taken' = taken \cup {i}
  /\ sending' = [sending EXCEPT !.quick = "taken"]
  /\ UNCHANGED <<active, clock, options, form, timer, preview, calls, loads, rebuilt, spent>>

QuickTaken ==
  /\ sending.quick = "taken"
  /\ sending' = [sending EXCEPT !.quick = "loading"]
  /\ loads' = loads \cup {NewLoad("quick")}
  /\ UNCHANGED <<server, options, form, timer, preview, calls, rebuilt, spent>>

\* No preview is scheduled after a quick booking; its button is free again.
FinishQuick ==
  /\ sending.quick \in {"loaded", "posted", "taken"}
  /\ sending' = [sending EXCEPT !.quick = "idle"]
  /\ UNCHANGED <<server, options, form, timer, preview, calls, loads, rebuilt, spent>>
-----------------------------------------------------------------------------
(* The others *)

Change == /\ spent.changes < MaxChanges
          /\ spent' = [spent EXCEPT !.changes = @ + 1]
          /\ UNCHANGED <<options, form, timer, preview, calls, loads, sending, rebuilt>>

\* A reservation needs a free car, a blackout does not.
OthersTake ==
  /\ Change
  /\ \E i \in Others : /\ i.kind = "reservation" => Accepts(i)
                       /\ taken' = taken \cup {i}
  /\ UNCHANGED <<active, clock>>

OthersToggleCar ==
  /\ Change
  /\ \E c \in Car : active' = IF c \in active THEN active \ {c} ELSE active \cup {c}
  /\ UNCHANGED <<taken, clock>>

\* An hour begins; nothing on the page is drawn again for it.
Tick ==
  /\ clock < MaxClock
  /\ clock' = clock + 1
  /\ UNCHANGED <<taken, active, options, form, timer, preview, calls, loads, sending, rebuilt, spent>>

Next ==
  \/ ChooseCar \/ TypeTime \/ PickDay \/ Prefill \/ ApplySlot
  \/ TimerFires
  \/ \E c \in calls : ServeCall(c) \/ Answer(c) \/ FailCall(c)
  \/ Reload
  \/ \E l \in loads : ServeLoad(l) \/ ShowCars(l) \/ FailLoad(l)
  \/ Submit \/ ServeSubmit \/ SubmitTaken \/ FinishSubmit \/ FailSubmit
  \/ QuickBook \/ ServeQuick \/ QuickTaken \/ FinishQuick
  \/ OthersTake \/ OthersToggleCar \/ Tick

Spec == Init /\ [][Next]_vars

\* The timer fires, and a request is answered or fails.  The user, the others and
\* the hours, which take longer than any of it, owe nothing.
FairSpec ==
  /\ Spec
  /\ WF_vars(TimerFires)
  /\ WF_vars(\E c \in calls : ServeCall(c) \/ Answer(c) \/ FailCall(c))
-----------------------------------------------------------------------------
(* Properties *)

\* What the preview says, or is about to say, is about what stands in the form
\* unless a check is scheduled; requestId keeps an overtaken answer off the
\* page.  The one way round it is a rebuilt <select>, which rebuilt marks.
EditedFormIsChecked == timer \/ rebuilt \/ preview.of = form

\* The slot offered under the conflicts collides with none of those shown, a
\* blackout within a longer reservation included.
SlotAvoidsShownConflicts ==
  preview.shown = "warning" => \A i \in preview.items : ~Overlap(i, preview.slot)

\* A window that the preview calls free and that the form lets pass is booked,
\* unless something was taken (taken only grows here) or the car retired since the
\* server looked: what the preview leaves unasked, validateReservationForm checks,
\* and the two together are the rule of POST /reservations.
ClearWindowIsBookable ==
  (/\ preview.shown = "clear"
   /\ preview.at = Cardinality(taken)
   /\ preview.of.car \in active
   /\ Valid(preview.of))
  => Accepts(preview.of)

\* The preview does not stay in "checking": whatever overtakes or loses its
\* calls, it comes to rest.
PreviewSettles == [](preview.shown = "loading" => <>(preview.shown # "loading"))

\* What a reader of the page assumes: a verdict on screen, with no check under
\* way, is about the form.  Rebuilding the <select> breaks it.
PreviewFollowsForm ==
  (~timer /\ preview.shown \in {"clear", "warning"}) => preview.of = form

\* What the preview says of itself, "the window looks free", with nothing changed
\* since: of a window that has begun, which cannot be booked, it says so as well.
ClearWindowIsFree ==
  preview.shown = "clear" /\ preview.at = Cardinality(taken) /\ preview.of.car \in active
    => Accepts(preview.of)

\* What the offer says, "next free slot": free at the server.
NextSlotIsFree ==
  preview.shown = "warning" =>
    ~\E i \in taken : i.car = preview.of.car /\ Overlap(i, preview.slot)
=============================================================================
