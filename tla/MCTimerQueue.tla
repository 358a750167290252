---------------------------- MODULE MCTimerQueue ----------------------------
(* Model checking of TimerQueue: addresses are interchangeable. *)
EXTENDS TimerQueue, TLC

Symmetry == Permutations(Addresses)
=============================================================================
