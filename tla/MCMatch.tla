------------------------------- MODULE MCMatch -------------------------------
(* Two teams, two users among the server's players.  The orders drawn:     *)
(* players are taken from the largest eid down, so the users are the first *)
(* ones; they meet in round 1 or in the tree.                              *)
EXTENDS Match, TLC
MCShuffles == {<<1, 4, 2, 5, 3, 6, 7, 8>>}
MCEliShuffles == {<<1, 2, 3, 4>>}
MCBounds == [upset |-> 1, cancel |-> 1, leave |-> 1, fail |-> 1, crash |-> 1, late |-> 1, all |-> 1, ahead |-> 0]
=============================================================================
