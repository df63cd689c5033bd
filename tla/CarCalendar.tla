---------------------------- MODULE CarCalendar ----------------------------
(***************************************************************************)
(* What the booking side of FleetFlow promises about a car, with nothing   *)
(* of requests, decisions, trips or tables in it: a slot is taken only     *)
(* while it is free and not inside a maintenance window, it stays exactly  *)
(* that slot while it is held, and it is only ever given back.             *)
(* Maintenance windows come, move and go without regard to held slots.     *)
(***************************************************************************)
EXTENDS FleetVocabulary

VARIABLES
  held,    \* slots taken: records with an id, a car and a window
  closed   \* maintenance windows: likewise

Clear(slot, others) == \A o \in others : o.car = slot.car => ~Overlap(o, slot)

Init == held = {} /\ closed = {}

Take(slot) ==
  /\ \A h \in held : h.id # slot.id
  /\ Clear(slot, held)
  /\ Clear(slot, closed)
  /\ held' = held \cup {slot}
  /\ UNCHANGED closed

GiveBack ==
  /\ held' \subseteq held
  /\ UNCHANGED closed

Maintain == UNCHANGED held

Next ==
  \/ \E slot \in held' \ held : Take(slot)
  \/ GiveBack
  \/ Maintain

Spec == Init /\ [][Next]_<<held, closed>>

\* Held slots of one car never overlap.
Disjoint == \A h \in held : Clear(h, held \ {h})
=============================================================================
