------------------------------ MODULE MCDbPipe -----------------------------
(* Model checking of DbPipe: workers are interchangeable, connections too.  *)
EXTENDS DbPipe, TLC

Symmetry == Permutations(Conn) \cup Permutations(Thread)
=============================================================================
