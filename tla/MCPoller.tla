------------------------------ MODULE MCPoller ------------------------------
(* Poller for TLC.                                                          *)
EXTENDS Poller, TLC

\* Channel objects are interchangeable.
Symmetry == Permutations(Channels)
=============================================================================
