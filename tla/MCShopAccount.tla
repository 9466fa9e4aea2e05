---------------------------- MODULE MCShopAccount ----------------------------
(* Two checkouts, a worker for events, one request of the owner or operator.*)
EXTENDS ShopAccount, TLC
CONSTANTS c1, c2, w1, d1
Alike == Permutations(Checkouts)
OverridesMC == {[status |-> "ACTIVE", ends |-> 1]}
=============================================================================
