------------------------------ MODULE MCLobby ------------------------------
(* Model checking of Lobby: users are interchangeable, so are custom rooms'
   masters; the slots are not (slot 0 is what a missing index reads as).    *)
EXTENDS Lobby, TLC

Symmetry == Permutations(EID)
=============================================================================
