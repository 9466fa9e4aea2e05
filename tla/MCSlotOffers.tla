------------------------------ MODULE MCSlotOffers ------------------------------
(* A day of nine instants a quarter of an hour apart: 30 minutes are 2,     *)
(* the 24 hours are shortened to 2, the booking window to 6 and the rows   *)
(* the booking page reads to 2.  Two rows start together.                  *)
EXTENDS SlotOffers

Row(i, s, e) == [id |-> i, start |-> s, end |-> e]

ShiftsMC == {Row(1, 0, 4), Row(2, 1, 6), Row(3, 4, 8), Row(4, 4, 7)}
=============================================================================
