------------------------- MODULE MCReservationTable -------------------------
(* Small instances of ReservationTable, for TLC. *)
EXTENDS ReservationTable

CONSTANT trip, later, plate    \* plate is another car's

MCPlace    == [r \in Id |-> IF r = trip THEN 1 ELSE 2]
MCMatching == [text \in Text |-> IF text = plate THEN {} ELSE Id]
=============================================================================
