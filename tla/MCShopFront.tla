------------------------------ MODULE MCShopFront ------------------------------
(* An owner and the super administrator, two shops, two slugs, one resource. *)
EXTENDS ShopFront, TLC

CONSTANTS t1, t2, s1, s2, a, b

Symm == Permutations(Tabs) \cup Permutations(Shops) \cup Permutations(Slugs)
=============================================================================
