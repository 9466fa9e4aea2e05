--------------------------- MODULE MCCastGateway ---------------------------
(* Two requests at once, two looks of the cast's profile.                   *)
EXTENDS CastGateway
CONSTANTS t1, t2, l1, k1, k2, a, b
Looks(n, active) == [name |-> n, active |-> active, look |-> n]
MCViews == {Looks(a, TRUE), Looks(b, FALSE)}
MCFirst == Looks(a, TRUE)
=============================================================================
