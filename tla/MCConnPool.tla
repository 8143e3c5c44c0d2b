---------------------------- MODULE MCConnPool ----------------------------
(* Model checking of ConnPool.                                              *)
EXTENDS ConnPool
=============================================================================
