--------------------------- MODULE MCStaffInvites ---------------------------
(* Two people, each of whom may be the one of any sign-in or save. Both     *)
(* resources know the Discord identity of the first, one her email as well. *)
EXTENDS StaffInvites, TLC
CONSTANTS p1, p2, v1, v2, o1, r1, r2, s1
MCKeyOf   == (r1 :> p1) @@ (r2 :> p1)
MCMailOf  == (r1 :> p1) @@ (r2 :> None)
MCRowOf   == s1 :> r1
Alike     == Permutations(Visits)
=============================================================================
