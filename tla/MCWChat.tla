------------------------------ MODULE MCWChat ------------------------------
(* Model checking of WChat with two readers of a short queue.  Liveness is  *)
(* checked with the invariants, so the connections are no symmetry set.     *)
EXTENDS WChat, TLC
=============================================================================
