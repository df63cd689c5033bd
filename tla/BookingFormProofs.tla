--------------------------- MODULE BookingFormProofs ---------------------------
(***************************************************************************)
(* Two promises of the conflict preview, for any cars, hours and number of *)
(* edits, calls in flight and changes by others.                           *)
(*                                                                         *)
(* EditedFormIsChecked rests on requestId: a call in flight that carries   *)
(* the newest number asked what the preview stands for, so the answers     *)
(* that pass Current change nothing but the verdict.                       *)
(*                                                                         *)
(* ClearWindowIsBookable rests on what the server saw: Seen says that an   *)
(* answer was computed from a part of what is taken now.  If that part is  *)
(* as large as the whole, it is the whole, and the preview has asked all   *)
(* of the rule of the booking that the form's own checks have not.         *)
(***************************************************************************)
EXTENDS BookingForm, Extrema

Fields == {"shown", "id", "items", "slot", "of", "at"}
CallFields == {"id", "of", "answered", "items", "at"}

\* The newest question is the preview's.
Asked ==
  /\ form = [x \in {"car", "from", "to"} |-> form[x]]
  /\ DOMAIN preview = Fields /\ preview.id \in Nat
  /\ \A c \in calls : /\ DOMAIN c = CallFields
                      /\ c.id \in Nat /\ c.id <= preview.id
                      /\ c.id = preview.id => c.of = preview.of

\* at items were taken when the server found these conflicts with f.
Saw(at, items, f) ==
  \E then \in SUBSET taken :
    at = Cardinality(then) /\ items = {i \in then : i.car = f.car /\ Overlap(i, f)}

\* Every answer, on its way or shown as a free window, was true when it was made.
Seen ==
  /\ IsFiniteSet(taken)
  /\ \A c \in calls : c.answered => Saw(c.at, c.items, c.of)
  /\ preview.shown = "clear" => Saw(preview.at, {}, preview.of)

IInv == Asked /\ EditedFormIsChecked /\ Seen
-----------------------------------------------------------------------------
(* The steps *)

\* The ways to edit the form.
Edits == ChooseCar \/ TypeTime \/ PickDay \/ Prefill \/ ApplySlot

\* What touches neither the form nor the preview.
Elsewhere ==
  \/ Reload \/ \E l \in loads : ServeLoad(l) \/ FailLoad(l)
  \/ Submit \/ ServeSubmit \/ SubmitTaken \/ FailSubmit
  \/ QuickBook \/ ServeQuick \/ QuickTaken \/ FinishQuick
  \/ OthersTake \/ OthersToggleCar \/ Tick
  \/ UNCHANGED vars

LEMMA NextByKind ==
  ASSUME [Next]_vars
  PROVE  \/ Edits \/ TimerFires \/ FinishSubmit \/ Elsewhere
         \/ \E c \in calls : ServeCall(c) \/ Answer(c) \/ FailCall(c)
         \/ \E l \in loads : ShowCars(l)
BY DEF Next, Edits, Elsewhere

\* Somewhere else things are taken, none is given back.
LEMMA ElsewhereFrame ==
  ASSUME Elsewhere
  PROVE  /\ UNCHANGED <<form, timer, preview, calls, rebuilt>>
         /\ taken' = taken \/ \E i : taken' = taken \cup {i}
<1>1. CASE ServeSubmit
  BY <1>1 DEF ServeSubmit
<1>2. CASE ServeQuick
  BY <1>2 DEF ServeQuick
<1>3. CASE OthersTake
  BY <1>3 DEF OthersTake, Change
<1>4. CASE OthersToggleCar
  BY <1>4 DEF OthersToggleCar, Change
<1>5. CASE Tick \/ Reload \/ \E l \in loads : ServeLoad(l) \/ FailLoad(l)
  BY <1>5 DEF Tick, Reload, ServeLoad, FailLoad, server
<1>6. CASE Submit \/ SubmitTaken \/ FailSubmit \/ QuickBook \/ QuickTaken \/ FinishQuick
             \/ UNCHANGED vars
  BY <1>6 DEF Submit, SubmitTaken, FailSubmit, QuickBook, QuickTaken, FinishQuick, server, vars
<1> QED BY <1>1, <1>2, <1>3, <1>4, <1>5, <1>6 DEF Elsewhere

\* An edit changes fields of the form, as the form or the habit has them, and
\* sets the timer.
LEMMA EditsFrame ==
  ASSUME Edits, Asked
  PROVE  /\ form' = [x \in {"car", "from", "to"} |-> form'[x]]
         /\ timer' /\ UNCHANGED <<taken, preview, calls>>
<1>1. Habit = [x \in {"car", "from", "to"} |-> Habit[x]]
  BY WindowAssumption DEF Form
<1>2. form = [x \in {"car", "from", "to"} |-> form[x]]
  BY DEF Asked
<1>3. ASSUME NEW f, Edit(f), f = [x \in {"car", "from", "to"} |-> f[x]]
      PROVE  /\ form' = [x \in {"car", "from", "to"} |-> form'[x]]
             /\ timer' /\ UNCHANGED <<taken, preview, calls>>
  BY <1>3 DEF Edit, server
<1>4. CASE ChooseCar
  BY <1>2, <1>3, <1>4 DEF ChooseCar
<1>5. CASE TypeTime
  BY <1>2, <1>3, <1>5 DEF TypeTime
<1>6. CASE PickDay
  BY <1>2, <1>3, <1>6 DEF PickDay
<1>7. CASE Prefill
  BY <1>1, <1>3, <1>7 DEF Prefill
<1>8. CASE ApplySlot
  BY <1>2, <1>3, <1>8 DEF ApplySlot
<1> QED BY <1>4, <1>5, <1>6, <1>7, <1>8 DEF Edits
-----------------------------------------------------------------------------
(* The invariant *)

LEMMA InitIInv == Init => IInv
<1> SUFFICES ASSUME Init PROVE IInv
  OBVIOUS
<1>1. Asked
  BY DEF Init, Asked, Fields
<1>2. EditedFormIsChecked
  BY DEF Init, EditedFormIsChecked
<1>3. Seen
  BY ItemAssumption DEF Init, Seen
<1> QED BY <1>1, <1>2, <1>3 DEF IInv

LEMMA NextAsked == Asked /\ [Next]_vars => Asked'
<1> SUFFICES ASSUME Asked, [Next]_vars PROVE Asked'
  OBVIOUS
<1>1. CASE Edits
  BY <1>1, EditsFrame DEF Asked
<1>2. CASE TimerFires
  <2>1. preview'.id = preview.id + 1 /\ preview'.of = form /\ DOMAIN preview' = Fields
    BY <1>2 DEF TimerFires, Fields
  <2>2. \A c \in calls' : \/ c \in calls
                          \/ /\ DOMAIN c = CallFields
                             /\ c.id = preview.id + 1 /\ c.of = form
    BY <1>2 DEF TimerFires, CallFields
  <2>3. form' = form
    BY <1>2 DEF TimerFires
  <2> QED BY <2>1, <2>2, <2>3 DEF Asked
<1>3. CASE \E c \in calls : ServeCall(c)
  <2>1. PICK c \in calls : ServeCall(c)
    BY <1>3
  <2>2. UNCHANGED <<form, preview>>
    BY <2>1 DEF ServeCall
  <2>3. \A d \in calls' : d \in calls \/ (/\ DOMAIN d = DOMAIN c /\ d.id = c.id /\ d.of = c.of)
    BY <2>1 DEF ServeCall, Asked, CallFields
  <2> QED BY <2>2, <2>3 DEF Asked
<1>4. CASE \E c \in calls : Answer(c) \/ FailCall(c)
  <2>1. PICK c \in calls : Answer(c) \/ FailCall(c)
    BY <1>4
  <2>2. form' = form /\ calls' \subseteq calls
    BY <2>1 DEF Answer, FailCall
  <2>3. DOMAIN preview' = Fields /\ preview'.id = preview.id /\ preview'.of = preview.of
    BY <2>1 DEF Answer, FailCall, Current, Asked, Fields
  <2> QED BY <2>2, <2>3 DEF Asked
<1>5. CASE \E l \in loads : ShowCars(l)
  BY <1>5 DEF ShowCars, Asked
<1>6. CASE FinishSubmit
  BY <1>6 DEF FinishSubmit, Asked
<1>7. CASE Elsewhere
  BY <1>7, ElsewhereFrame DEF Asked
<1> QED BY <1>1, <1>2, <1>3, <1>4, <1>5, <1>6, <1>7, NextByKind

LEMMA NextChecked == Asked /\ EditedFormIsChecked /\ [Next]_vars => EditedFormIsChecked'
<1> SUFFICES ASSUME Asked, EditedFormIsChecked, [Next]_vars PROVE EditedFormIsChecked'
  OBVIOUS
<1>1. CASE Edits
  BY <1>1, EditsFrame DEF EditedFormIsChecked
<1>2. CASE TimerFires
  BY <1>2 DEF TimerFires, EditedFormIsChecked
<1>3. CASE \E c \in calls : ServeCall(c)
  BY <1>3 DEF ServeCall, EditedFormIsChecked
<1>4. CASE \E c \in calls : Answer(c) \/ FailCall(c)
  <2>1. PICK c \in calls : Answer(c) \/ FailCall(c)
    BY <1>4
  <2>2. UNCHANGED <<form, timer, rebuilt>>
    BY <2>1 DEF Answer, FailCall
  <2>3. preview'.of = preview.of
    BY <2>1 DEF Answer, FailCall, Current, Asked, Fields
  <2> QED BY <2>2, <2>3 DEF EditedFormIsChecked
<1>5. CASE \E l \in loads : ShowCars(l)
  <2>1. UNCHANGED <<timer, preview>>
    BY <1>5 DEF ShowCars
  <2>2. rebuilt' \/ (form'.car = form.car /\ ~rebuilt)
    BY <1>5 DEF ShowCars
  <2>3. form'.car = form.car => form' = form
    BY <1>5 DEF ShowCars, Asked
  <2> QED BY <2>1, <2>2, <2>3 DEF EditedFormIsChecked
<1>6. CASE FinishSubmit
  BY <1>6 DEF FinishSubmit, EditedFormIsChecked
<1>7. CASE Elsewhere
  BY <1>7, ElsewhereFrame DEF EditedFormIsChecked
<1> QED BY <1>1, <1>2, <1>3, <1>4, <1>5, <1>6, <1>7, NextByKind

LEMMA NextSeen == Asked /\ Seen /\ [Next]_vars => Seen'
<1> SUFFICES ASSUME Asked, Seen, [Next]_vars PROVE Seen'
  OBVIOUS
<1>1. CASE Edits
  BY <1>1, EditsFrame DEF Seen, Saw
<1>2. CASE TimerFires
  <2>1. taken' = taken /\ preview'.shown # "clear"
    BY <1>2 DEF TimerFires, server
  <2>2. \A c \in calls' : c \in calls \/ ~c.answered
    BY <1>2 DEF TimerFires
  <2> QED BY <2>1, <2>2 DEF Seen, Saw
<1>3. CASE \E c \in calls : ServeCall(c)
  <2>1. PICK c \in calls : ServeCall(c)
    BY <1>3
  <2>2. UNCHANGED <<taken, preview>>
    BY <2>1 DEF ServeCall, server
  <2>3. \A d \in calls' : d \in calls \/ (/\ d.at = Cardinality(taken) /\ d.of = c.of
                                         /\ d.items = Conflicts(c.of))
    BY <2>1 DEF ServeCall, Asked, CallFields
  <2>4. \A d \in calls' : d \in calls \/ Saw(d.at, d.items, d.of)
    BY <2>3 DEF Saw, Conflicts
  <2> QED BY <2>2, <2>4 DEF Seen, Saw
<1>4. CASE \E c \in calls : Answer(c)
  <2>1. PICK c \in calls : Answer(c)
    BY <1>4
  <2>2. taken' = taken /\ calls' \subseteq calls
    BY <2>1 DEF Answer, server
  <2>3. preview'.shown = "clear" =>
          \/ preview' = preview
          \/ c.items = {} /\ preview'.at = c.at /\ preview'.of = c.of
    BY <2>1 DEF Answer
  <2>4. Saw(c.at, c.items, c.of)
    BY <2>1 DEF Answer, Seen
  <2> QED BY <2>2, <2>3, <2>4 DEF Seen, Saw
<1>5. CASE \E c \in calls : FailCall(c)
  <2>1. PICK c \in calls : FailCall(c)
    BY <1>5
  <2>2. taken' = taken /\ calls' \subseteq calls
    BY <2>1 DEF FailCall, server
  <2>3. preview'.shown = "clear" => preview' = preview
    BY <2>1 DEF FailCall, Asked, Fields
  <2> QED BY <2>2, <2>3 DEF Seen, Saw
<1>6. CASE (\E l \in loads : ShowCars(l)) \/ FinishSubmit
  BY <1>6 DEF ShowCars, FinishSubmit, server, Seen, Saw
<1>7. CASE Elsewhere
  <2>1. UNCHANGED <<preview, calls>> /\ taken \subseteq taken'
    BY <1>7, ElsewhereFrame
  <2>2. IsFiniteSet(taken')
    BY <1>7, ElsewhereFrame, FS_AddElement DEF Seen
  <2>3. ASSUME NEW n, NEW items, NEW f, Saw(n, items, f) PROVE Saw(n, items, f)'
    BY <2>1, <2>3 DEF Saw, Overlap
  <2> QED BY <2>1, <2>2, <2>3 DEF Seen
<1> QED BY <1>1, <1>2, <1>3, <1>4, <1>5, <1>6, <1>7, NextByKind

\* The inductive invariant holds of every behaviour.
LEMMA SpecIInv == Spec => []IInv
<1>1. IInv /\ [Next]_vars => IInv'
  BY NextAsked, NextChecked, NextSeen DEF IInv
<1> QED BY InitIInv, <1>1, PTL DEF Spec
-----------------------------------------------------------------------------
(* The theorems *)

\* Whatever overtakes whatever, the preview of app.js is about the form as it
\* stands, or a check is scheduled, or a reload has moved the <select>.
THEOREM PreviewIsOfTheForm == Spec => []EditedFormIsChecked
<1>1. IInv => EditedFormIsChecked
  BY DEF IInv
<1> QED BY SpecIInv, <1>1, PTL

\* A window that loadConflictPreview calls free and validateReservationForm lets
\* pass is accepted by POST /reservations, unless something was taken or the car
\* retired since the server looked, and however much time has passed.
THEOREM ClearMeansBookable == Spec => []ClearWindowIsBookable
<1>1. IInv => ClearWindowIsBookable
  <2> SUFFICES ASSUME IInv, preview.shown = "clear", preview.at = Cardinality(taken),
                      preview.of.car \in active, Valid(preview.of)
               PROVE  Accepts(preview.of)
    BY DEF ClearWindowIsBookable
  <2>1. PICK then \in SUBSET taken :
          /\ preview.at = Cardinality(then)
          /\ {} = {i \in then : i.car = preview.of.car /\ Overlap(i, preview.of)}
    BY DEF IInv, Seen, Saw
  <2>2. then = taken
    BY <2>1, FS_Subset DEF IInv, Seen
  <2> QED BY <2>1, <2>2 DEF Accepts, Valid
<1> QED BY SpecIInv, <1>1, PTL
-----------------------------------------------------------------------------
(* Types, and the slot *)

CallType == [id : Nat \ {0}, of : Form, answered : BOOLEAN, items : SUBSET Item, at : Nat]
LoadType == [by : {"page", "submit", "quick"}, no : Nat, answered : BOOLEAN, cars : SUBSET Car]

\* The preview and its calls: what is shown as a conflict is there, no newer
\* question than the preview's is out, the newest is out only while the preview
\* waits for it, and the slot begins when all that is shown has ended.
PreviewTyped ==
  /\ preview \in [shown : Shown, id : Nat, items : SUBSET Item, slot : [from : Hour, to : Int],
                  of : Form, at : Nat]
  /\ (preview.items # {}) <=> (preview.shown = "warning")
  /\ \A i \in preview.items : i.to <= preview.slot.from
  /\ calls \subseteq CallType
  /\ \A c \in calls : c.id <= preview.id /\ (c.id = preview.id => preview.shown = "loading")
  /\ \A c, d \in calls : c.id = d.id => c = d

\* The <select> stands on a car it offers or on none.
FormTyped ==
  /\ options \subseteq Car
  /\ form \in Form /\ form.car \in options \cup {NoCar}
  /\ timer \in BOOLEAN /\ rebuilt \in BOOLEAN

ServerTyped ==
  /\ taken \subseteq Item /\ active \subseteq Car /\ clock \in 0 .. MaxClock
  /\ loads \subseteq LoadType
  /\ sending \in [submit : Phase, quick : Phase, asked : Form]
  /\ spent \in [edits : 0 .. MaxEdits, sends : 0 .. MaxSends, loads : 0 .. MaxLoads,
                changes : 0 .. MaxChanges]

WellTyped == PreviewTyped /\ FormTyped /\ ServerTyped

LEMMA FirstIsOffered == ASSUME NEW cars \in SUBSET Car PROVE FirstOf(cars) \in cars \cup {NoCar}
<1>1. cars \in SUBSET Nat
  BY CarAssumption
<1>2. cars # {} => Min(cars) \in cars
  BY <1>1, MinOfNat
<1> QED BY <1>2 DEF FirstOf

\* The slot begins when the last of the conflicts has ended.
LEMMA SlotIsAfter ==
  ASSUME NEW items \in SUBSET Item, items # {}, NEW w \in Form
  PROVE  /\ SlotAfter(items, w) \in [from : Hour, to : Int]
         /\ \A i \in items : i.to <= SlotAfter(items, w).from
<1> DEFINE ends == {i.to : i \in items}
<1>1. \A i \in items : i.to \in Hour
  BY DEF Item
<1>2. Hour \subseteq Nat /\ IsFiniteSet(Hour)
  BY WindowAssumption, FS_Interval DEF Hour
<1>3. ends \in SUBSET Hour /\ ends # {}
  BY <1>1
<1>4. ends \in SUBSET Nat /\ IsFiniteSet(ends)
  BY <1>2, <1>3, FS_Subset
<1> HIDE DEF ends
<1>5. Max(ends) \in ends /\ \A n \in ends : n <= Max(ends)
  BY <1>3, <1>4, MaxOfNat
<1>6. \A i \in items : i.to <= Max(ends)
  BY <1>5 DEF ends
<1>7. w.from \in Nat /\ w.to \in Nat /\ Max(ends) \in Nat /\ Max(ends) \in Hour
  BY <1>2, <1>3, <1>5 DEF Form
<1>8. SlotAfter(items, w) = [from |-> Max(ends), to |-> Max(ends) + (w.to - w.from)]
  BY DEF SlotAfter, ends
<1> QED BY <1>6, <1>7, <1>8

LEMMA HourNat == Hour \subseteq Nat /\ 0 \in Hour
BY WindowAssumption DEF Hour

LEMMA InitTyped == Init => WellTyped
<1> SUFFICES ASSUME Init PROVE WellTyped
  OBVIOUS
<1>1. FirstOf(Car) \in Car \cup {NoCar}
  BY FirstIsOffered
<1>2. FirstWindow.from \in Hour /\ FirstWindow.to \in Hour
  BY WindowAssumption DEF Window
<1>3. form \in Form /\ form.car \in Car \cup {NoCar}
  BY <1>1, <1>2 DEF Init, Form
<1>4. FormTyped
  BY <1>3 DEF Init, FormTyped
<1>5. PreviewTyped
  <2>1. NoSlot \in [from : Hour, to : Int]
    BY HourNat DEF NoSlot
  <2> QED BY <1>3, <2>1 DEF Init, PreviewTyped, Shown
<1>6. taken \subseteq Item
  BY ItemAssumption DEF Init
<1>7. ServerTyped
  BY <1>3, <1>6, BoundAssumption DEF Init, ServerTyped, Phase
<1> QED BY <1>4, <1>5, <1>7 DEF WellTyped

LEMMA EditTyped ==
  ASSUME WellTyped, Edits PROVE FormTyped' /\ ServerTyped' /\ UNCHANGED <<preview, calls>>
<1>1. ASSUME NEW f \in Form, f.car \in options \cup {NoCar}, Edit(f)
      PROVE  FormTyped' /\ ServerTyped' /\ UNCHANGED <<preview, calls>>
  <2>1. FormTyped' /\ UNCHANGED <<server, loads, sending, preview, calls>>
    BY <1>1 DEF Edit, WellTyped, FormTyped, server
  <2>2. spent' = [spent EXCEPT !.edits = @ + 1] /\ spent.edits < MaxEdits
    BY <1>1 DEF Edit
  <2>3. ServerTyped'
    BY <2>1, <2>2, BoundAssumption DEF WellTyped, ServerTyped, server
  <2> QED BY <2>1, <2>3
<1>2. form \in Form /\ form.car \in options \cup {NoCar} /\ options \subseteq Car
  BY DEF WellTyped, FormTyped
<1>3. CASE ChooseCar
  <2>1. PICK c \in options : Edit([form EXCEPT !.car = c])
    BY <1>3 DEF ChooseCar
  <2>2. [form EXCEPT !.car = c] \in Form /\ [form EXCEPT !.car = c].car = c
    BY <1>2 DEF Form
  <2> QED BY <1>1, <2>1, <2>2
<1>4. CASE TypeTime
  <2>1. PICK h \in Typed : Edit([form EXCEPT !.from = h]) \/ Edit([form EXCEPT !.to = h])
    BY <1>4 DEF TypeTime
  <2>2. h \in Hour
    BY WindowAssumption
  <2>3. /\ [form EXCEPT !.from = h] \in Form /\ [form EXCEPT !.from = h].car = form.car
        /\ [form EXCEPT !.to = h] \in Form /\ [form EXCEPT !.to = h].car = form.car
    BY <1>2, <2>2 DEF Form
  <2> QED BY <1>1, <1>2, <2>1, <2>3
<1>5. ASSUME NEW a \in Hour, NEW b \in Hour, Edit([form EXCEPT !.from = a, !.to = b])
      PROVE  FormTyped' /\ ServerTyped' /\ UNCHANGED <<preview, calls>>
  <2>1. /\ [form EXCEPT !.from = a, !.to = b] \in Form
        /\ [form EXCEPT !.from = a, !.to = b].car = form.car
    BY <1>2 DEF Form
  <2> QED BY <1>1, <1>2, <1>5, <2>1
<1>6. CASE PickDay
  <2>1. DayWindow.from \in Hour /\ DayWindow.to \in Hour
    BY WindowAssumption DEF Window
  <2> QED BY <1>5, <1>6, <2>1 DEF PickDay
<1>7. CASE Prefill
  <2> DEFINE car == IF Habit.car \in options THEN Habit.car ELSE NoCar
  <2>1. Edit([Habit EXCEPT !.car = car])
    BY <1>7 DEF Prefill
  <2>2. car \in options \cup {NoCar}
    OBVIOUS
  <2> HIDE DEF car
  <2>3. [Habit EXCEPT !.car = car] \in Form /\ [Habit EXCEPT !.car = car].car = car
    BY <1>2, <2>2, WindowAssumption DEF Form
  <2> QED BY <1>1, <2>1, <2>2, <2>3
<1>8. CASE ApplySlot
  <2>1. preview.slot.from \in Hour /\ preview.slot.to \in Hour
    BY <1>8 DEF ApplySlot, WellTyped, PreviewTyped
  <2> QED BY <1>5, <1>8, <2>1 DEF ApplySlot
<1> QED BY <1>3, <1>4, <1>6, <1>7, <1>8 DEF Edits

LEMMA TimerTyped ==
  ASSUME WellTyped, TimerFires PROVE PreviewTyped'
<1> DEFINE next == preview.id + 1
           call == [id |-> next, of |-> form, answered |-> FALSE, items |-> {}, at |-> 0]
<1>1. next \in Nat \ {0} /\ next > preview.id /\ preview.id \in Nat /\ form \in Form
  BY DEF WellTyped, PreviewTyped, FormTyped
<1>2. call \in CallType /\ call.id = next
  BY <1>1 DEF CallType
<1>3. NoSlot \in [from : Hour, to : Int]
  BY HourNat DEF NoSlot
<1>4. \A shown \in Shown :
        [shown |-> shown, id |-> next, items |-> {}, slot |-> NoSlot, of |-> form, at |-> 0]
          \in [shown : Shown, id : Nat, items : SUBSET Item, slot : [from : Hour, to : Int],
               of : Form, at : Nat]
  BY <1>1, <1>3
<1>5. \/ /\ calls' = calls \cup {call} /\ preview'.shown = "loading"
      \/ /\ calls' = calls /\ preview'.shown = "idle"
  BY DEF TimerFires
<1>6. /\ preview' \in [shown : Shown, id : Nat, items : SUBSET Item,
                       slot : [from : Hour, to : Int], of : Form, at : Nat]
      /\ preview'.id = next /\ preview'.items = {}
  <2>1. \E shown \in Shown :
          preview' = [shown |-> shown, id |-> next, items |-> {}, slot |-> NoSlot, of |-> form,
                      at |-> 0]
    BY DEF TimerFires, Shown
  <2> QED BY <1>4, <2>1
<1>7. \A c \in calls : c \in CallType /\ c.id \in Nat /\ c.id <= preview.id
  BY DEF WellTyped, PreviewTyped, CallType
<1> HIDE DEF next, call
<1>8. \A c \in calls : c.id < next
  BY <1>1, <1>7
<1>9. \A c \in calls' : c \in calls \/ (c = call /\ preview'.shown = "loading")
  BY <1>5
<1>10. \A c \in calls' : /\ c \in CallType /\ c.id <= next
                         /\ c.id = next => preview'.shown = "loading"
  BY <1>1, <1>2, <1>7, <1>8, <1>9
<1>11. \A c, d \in calls' : c.id = d.id => c = d
  BY <1>1, <1>2, <1>7, <1>8, <1>9 DEF WellTyped, PreviewTyped
<1>12. preview'.shown # "warning"
  BY <1>5
<1> QED BY <1>6, <1>10, <1>11, <1>12 DEF PreviewTyped

LEMMA ServeCallTyped ==
  ASSUME WellTyped, IsFiniteSet(taken), NEW c \in calls, ServeCall(c) PROVE PreviewTyped'
<1> DEFINE d == [c EXCEPT !.answered = TRUE, !.items = Conflicts(c.of), !.at = Cardinality(taken)]
<1>1. c \in CallType /\ Conflicts(c.of) \in SUBSET Item /\ Cardinality(taken) \in Nat
  BY FS_CardinalityType DEF WellTyped, PreviewTyped, ServerTyped, Conflicts
<1>2. d \in CallType /\ d.id = c.id
  BY <1>1 DEF CallType
<1>3. calls' = (calls \ {c}) \cup {d} /\ preview' = preview
  BY DEF ServeCall
<1> HIDE DEF d
<1> QED BY <1>1, <1>2, <1>3 DEF WellTyped, PreviewTyped

LEMMA AnswerTyped ==
  ASSUME WellTyped, NEW c \in calls, Answer(c) PROVE PreviewTyped'
<1>1. c \in CallType /\ c.items \in SUBSET Item /\ c.of \in Form /\ c.at \in Nat /\ form \in Form
  BY DEF WellTyped, PreviewTyped, FormTyped, CallType
<1>2. calls' = calls \ {c}
  BY DEF Answer
<1>3. CASE ~Current(c)
  BY <1>2, <1>3 DEF Answer, WellTyped, PreviewTyped
<1>4. CASE Current(c)
  <2> DEFINE slot  == IF c.items = {} THEN NoSlot ELSE SlotAfter(c.items, form)
             shown == IF c.items = {} THEN "clear" ELSE "warning"
  <2>1. slot \in [from : Hour, to : Int] /\ \A i \in c.items : i.to <= slot.from
    BY <1>1, HourNat, SlotIsAfter DEF NoSlot
  <2>2. shown \in Shown /\ (c.items # {} <=> shown = "warning")
    BY DEF Shown
  <2>3. preview.id \in Nat
    BY DEF WellTyped, PreviewTyped
  <2>4. preview' = [shown |-> shown, id |-> preview.id, items |-> c.items, of |-> c.of, at |-> c.at,
                    slot |-> slot]
    BY <1>4 DEF Answer
  <2> HIDE DEF slot, shown
  <2>5. /\ preview' \in [shown : Shown, id : Nat, items : SUBSET Item,
                         slot : [from : Hour, to : Int], of : Form, at : Nat]
        /\ preview'.items = c.items /\ preview'.shown = shown /\ preview'.slot = slot
        /\ preview'.id = preview.id
    BY <1>1, <2>1, <2>2, <2>3, <2>4
  <2>6. \A d \in calls' : d \in calls /\ d.id # preview.id
    BY <1>2, <1>4 DEF Current, WellTyped, PreviewTyped
  <2> QED BY <2>1, <2>2, <2>5, <2>6 DEF WellTyped, PreviewTyped
<1> QED BY <1>3, <1>4

LEMMA FailCallTyped ==
  ASSUME WellTyped, NEW c \in calls, FailCall(c) PROVE PreviewTyped'
<1>1. calls' = calls \ {c}
  BY DEF FailCall
<1>2. CASE ~Current(c)
  BY <1>1, <1>2 DEF FailCall, WellTyped, PreviewTyped
<1>3. CASE Current(c)
  <2>1. preview.shown = "loading" /\ preview.items = {}
    BY <1>3 DEF Current, WellTyped, PreviewTyped
  <2>2. preview' = [preview EXCEPT !.shown = "error"]
    BY <1>3 DEF FailCall
  <2>3. /\ preview' \in [shown : Shown, id : Nat, items : SUBSET Item,
                         slot : [from : Hour, to : Int], of : Form, at : Nat]
        /\ preview'.items = preview.items /\ preview'.shown = "error" /\ preview'.id = preview.id
    BY <2>2 DEF WellTyped, PreviewTyped, Shown
  <2>4. \A d \in calls' : d \in calls /\ d.id # preview.id
    BY <1>1, <1>3 DEF Current, WellTyped, PreviewTyped
  <2> QED BY <2>1, <2>3, <2>4 DEF WellTyped, PreviewTyped
<1> QED BY <1>2, <1>3

\* One load more, or one in another state.
LEMMA LoadsTyped ==
  ASSUME WellTyped
  PROVE  /\ \A by \in {"page", "submit", "quick"} : NewLoad(by) \in LoadType
         /\ \A l \in loads : /\ l \in LoadType /\ l.cars \in SUBSET Car
                             /\ [l EXCEPT !.answered = TRUE, !.cars = active] \in LoadType
                             /\ Awaited(l) \in [submit : Phase, quick : Phase, asked : Form]
<1>1. spent.loads \in Nat /\ active \in SUBSET Car /\ loads \subseteq LoadType
  BY BoundAssumption DEF WellTyped, ServerTyped
<1>2. \A by \in {"page", "submit", "quick"} : NewLoad(by) \in LoadType
  BY <1>1 DEF NewLoad, LoadType
<1>3. \A l \in loads : /\ l \in LoadType /\ l.cars \in SUBSET Car
                       /\ [l EXCEPT !.answered = TRUE, !.cars = active] \in LoadType
  BY <1>1 DEF LoadType
<1>4. "loaded" \in Phase
  BY DEF Phase
<1>5. \A l \in loads : Awaited(l) \in [submit : Phase, quick : Phase, asked : Form]
  BY <1>4 DEF Awaited, WellTyped, ServerTyped
<1> QED BY <1>2, <1>3, <1>5

LEMMA ShowCarsTyped ==
  ASSUME WellTyped, NEW l \in loads, ShowCars(l) PROVE FormTyped' /\ ServerTyped'
<1>1. l.cars \in SUBSET Car /\ Awaited(l) \in [submit : Phase, quick : Phase, asked : Form]
  BY LoadsTyped
<1>2. FirstOf(l.cars) \in l.cars \cup {NoCar}
  BY <1>1, FirstIsOffered
<1>3. form' = [form EXCEPT !.car = FirstOf(l.cars)] /\ options' = l.cars
      /\ timer' = timer /\ rebuilt' = (rebuilt \/ (form'.car # form.car))
  BY DEF ShowCars
<1>4. form' \in Form /\ form'.car \in options' \cup {NoCar}
  BY <1>1, <1>2, <1>3 DEF WellTyped, FormTyped, Form
<1>5. FormTyped'
  BY <1>1, <1>3, <1>4 DEF WellTyped, FormTyped
<1>6. ServerTyped'
  BY <1>1 DEF ShowCars, WellTyped, ServerTyped, server
<1> QED BY <1>5, <1>6

\* What is booked is an item.
LEMMA BookedTyped ==
  ASSUME ServerTyped, NEW f \in Form, Accepts(f)
  PROVE  [kind |-> "reservation", car |-> f.car, from |-> f.from, to |-> f.to] \in Item
BY DEF ServerTyped, Accepts, Form, Item, Kind

LEMMA ElsewhereTyped ==
  ASSUME WellTyped, Elsewhere PROVE ServerTyped' /\ UNCHANGED <<options, form, timer, rebuilt>>
<1>1. ServerTyped /\ Others \subseteq Item
  BY ItemAssumption DEF WellTyped
<1>2. CASE ServeSubmit
  <2>1. sending.asked \in Form
    BY <1>1 DEF ServerTyped
  <2>2. taken' \subseteq Item
    BY <1>1, <1>2, <2>1, BookedTyped DEF ServeSubmit, ServerTyped
  <2> QED BY <1>1, <1>2, <2>2 DEF ServeSubmit, ServerTyped, Phase
<1>3. CASE ServeQuick
  BY <1>1, <1>3 DEF ServeQuick, ServerTyped, Phase
<1>4. ASSUME Change PROVE spent' \in [edits : 0 .. MaxEdits, sends : 0 .. MaxSends,
                                      loads : 0 .. MaxLoads, changes : 0 .. MaxChanges]
  BY <1>1, <1>4, BoundAssumption DEF Change, ServerTyped
<1>5. CASE OthersTake
  BY <1>1, <1>4, <1>5 DEF OthersTake, Change, ServerTyped
<1>6. CASE OthersToggleCar
  BY <1>1, <1>4, <1>6 DEF OthersToggleCar, Change, ServerTyped
<1>7. CASE Reload
  <2>1. loads' \subseteq LoadType
    BY <1>1, <1>7, LoadsTyped DEF Reload, ServerTyped
  <2>2. spent.loads + 1 \in 0 .. MaxLoads
    BY <1>1, <1>7, BoundAssumption DEF Reload, ServerTyped
  <2> QED BY <1>1, <1>7, <2>1, <2>2 DEF Reload, ServerTyped, server
<1>8. ASSUME NEW l \in loads, ServeLoad(l) \/ FailLoad(l)
      PROVE  ServerTyped' /\ UNCHANGED <<options, form, timer, rebuilt>>
  <2>1. loads' \subseteq LoadType
    BY <1>1, <1>8, LoadsTyped DEF ServeLoad, FailLoad, ServerTyped
  <2>2. sending' \in [submit : Phase, quick : Phase, asked : Form]
    BY <1>1, <1>8, LoadsTyped DEF ServeLoad, FailLoad, ServerTyped
  <2> QED BY <1>1, <1>8, <2>1, <2>2 DEF ServeLoad, FailLoad, ServerTyped, server
<1>9. CASE Submit \/ QuickBook
  <2>1. spent.sends + 1 \in 0 .. MaxSends
    BY <1>1, <1>9, BoundAssumption DEF Submit, QuickBook, ServerTyped
  <2>2. form \in Form
    BY DEF WellTyped, FormTyped
  <2>3. sending' \in [submit : Phase, quick : Phase, asked : Form]
    BY <1>1, <1>9, <2>2 DEF Submit, QuickBook, ServerTyped, Phase
  <2> QED BY <1>1, <1>9, <2>1, <2>3 DEF Submit, QuickBook, ServerTyped, server
<1>10. CASE SubmitTaken \/ QuickTaken
  <2>1. loads' \subseteq LoadType
    BY <1>1, <1>10, LoadsTyped DEF SubmitTaken, QuickTaken, ServerTyped
  <2> QED BY <1>1, <1>10, <2>1 DEF SubmitTaken, QuickTaken, ServerTyped, server, Phase
<1>11. CASE FailSubmit \/ FinishQuick \/ UNCHANGED vars
  BY <1>1, <1>11 DEF FailSubmit, FinishQuick, vars, ServerTyped, server, Phase
<1>12. CASE Tick
  <2>1. clock' \in 0 .. MaxClock
    BY <1>1, <1>12, BoundAssumption DEF Tick, ServerTyped
  <2> QED BY <1>1, <1>12, <2>1 DEF Tick, ServerTyped
<1> QED BY <1>2, <1>3, <1>5, <1>6, <1>7, <1>8, <1>9, <1>10, <1>11, <1>12 DEF Elsewhere

LEMMA TypeStep == WellTyped /\ Seen /\ [Next]_vars => WellTyped'
<1> SUFFICES ASSUME WellTyped, Seen, [Next]_vars PROVE WellTyped'
  OBVIOUS
<1>1. ASSUME UNCHANGED <<preview, calls>> PROVE PreviewTyped'
  BY <1>1 DEF WellTyped, PreviewTyped
<1>2. CASE Edits
  BY <1>1, <1>2, EditTyped DEF WellTyped
<1>3. CASE TimerFires
  BY <1>3, TimerTyped DEF TimerFires, WellTyped, FormTyped, ServerTyped, server
<1>4. CASE FinishSubmit
  BY <1>1, <1>4 DEF FinishSubmit, WellTyped, FormTyped, ServerTyped, server, Phase
<1>5. CASE Elsewhere
  BY <1>1, <1>5, ElsewhereTyped, ElsewhereFrame DEF WellTyped, FormTyped
<1>6. ASSUME NEW c \in calls, ServeCall(c) \/ Answer(c) \/ FailCall(c) PROVE WellTyped'
  <2>1. PreviewTyped'
    BY <1>6, ServeCallTyped, AnswerTyped, FailCallTyped DEF Seen
  <2> QED BY <1>6, <2>1 DEF ServeCall, Answer, FailCall, WellTyped, FormTyped, ServerTyped, server
<1>7. ASSUME NEW l \in loads, ShowCars(l) PROVE WellTyped'
  BY <1>1, <1>7, ShowCarsTyped DEF ShowCars, WellTyped
<1> QED BY <1>2, <1>3, <1>4, <1>5, <1>6, <1>7, NextByKind

LEMMA TypeHolds == Spec => []WellTyped
<1>1. IInv => Seen
  BY DEF IInv
<1> QED BY <1>1, InitTyped, TypeStep, SpecIInv, PTL DEF Spec

\* One call at most answers the question the preview waits for, what is shown as
\* a warning names conflicts, and the <select> stands on a car it offers.
THEOREM TypeCorrect == Spec => []TypeOK
<1>1. WellTyped => TypeOK
  BY BoundAssumption DEF WellTyped, PreviewTyped, FormTyped, ServerTyped, TypeOK, CallType, LoadType
<1> QED BY <1>1, TypeHolds, PTL

\* The slot offered under the conflicts collides with none of them, however they
\* nest, whichever answer brought them and whatever the form says by then.
THEOREM SlotAvoidsConflicts == Spec => []SlotAvoidsShownConflicts
<1>1. WellTyped => SlotAvoidsShownConflicts
  <2> SUFFICES ASSUME WellTyped, NEW i \in preview.items PROVE ~Overlap(i, preview.slot)
    BY DEF SlotAvoidsShownConflicts
  <2>1. i.to <= preview.slot.from /\ i.to \in Nat /\ preview.slot.from \in Nat
    BY HourNat DEF WellTyped, PreviewTyped, Item
  <2> QED BY <2>1 DEF Overlap
<1> QED BY <1>1, TypeHolds, PTL
=============================================================================
