---------------------------- MODULE MCShadowUser ----------------------------
(* Two requests at once for one user.                                       *)
EXTENDS ShadowUser
CONSTANTS t1, t2, e1
=============================================================================
