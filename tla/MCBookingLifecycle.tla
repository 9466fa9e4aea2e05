------------------------------ MODULE MCBookingLifecycle ------------------------------
(* Up to three requests about one booking, which starts at hour 4; the     *)
(* tenant's window is longer than the dashboard's two hours.               *)
EXTENDS BookingLifecycle, TLC
CONSTANTS h1, h2, h3

Symmetry == Permutations(Handlers)
=============================================================================
