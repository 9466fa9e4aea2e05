------------------------------ MODULE MCSsoLogin ------------------------------
(* One browser: two tabs, a callback requested twice, two accounts.         *)
EXTENDS SsoLogin, TLC

CONSTANTS a1, a2, v1, v2, v3, u1, u2, o1, w1

TwoTabs  == (v1 :> a1) @@ (v2 :> a1) @@ (v3 :> a2)

Accounts == Permutations(Users)
=============================================================================
