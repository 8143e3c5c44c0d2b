----------------------------- MODULE MCChallenge -----------------------------
(* Users ann and bob share worker 1, eve has worker 2.                     *)
EXTENDS Challenge
CONSTANTS ann, bob, eve
MCThreadOf == [e \in Player |-> IF e = eve THEN 2 ELSE 1]
MCFirstRank == [e \in Player |-> CASE e = ann -> 2 [] e = bob -> 3 [] e = eve -> 1]
MCWants == {<<ann, eve>>, <<bob, eve>>}

\* The ranks a user may challenge are better ones, and no two the same.
ASSUME RangesSound ==
    \A v \in 1 .. 120 :
        /\ Len(RangeList(v)) = (IF v > RANKING_RANDOM_COUNT THEN RANKING_RANDOM_COUNT ELSE v - 1)
        /\ \A m, n \in DOMAIN RangeList(v) :
              /\ RangeList(v)[m] \in 1 .. v - 1
              /\ m # n => RangeList(v)[m] # RangeList(v)[n]
=============================================================================
