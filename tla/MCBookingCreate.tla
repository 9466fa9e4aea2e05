------------------------------ MODULE MCBookingCreate ------------------------------
(* A small shop for TLC: two resources of one tenant; either of the two    *)
(* recurring, overlapping slots can replace the other.  The requests on r1 *)
(* touch: they are in each other's buffer but do not overlap.              *)
EXTENDS BookingCreate, TLC

CONSTANTS t1, r1, r2, c1, c2, e1

TenantOfMC == [r \in Resources |-> t1]

Iv(r, s, e) == [res |-> r, start |-> s, end |-> e]

SlotOfTwo   == (1 :> Iv(r1, 0, 3)) @@ (2 :> Iv(r1, 1, 5))
RequestsTwo == {Iv(r1, 1, 3), Iv(r1, 3, 4), Iv(r2, 0, 2)}

=============================================================================
