------------------------------- MODULE Bracket -------------------------------
(***************************************************************************)
(* The record of a tournament and the functions of match.cpp that rewrite  *)
(* it.  Three rounds in teams of four leave two players of each team:      *)
(*                                                                         *)
(*   round 1   two pairs (tid 0 and 1)                                     *)
(*   round 2   the winners meet (tid 1), the losers meet (tid 0)           *)
(*   round 3   who won twice waits (tid 1); the loser of tid 1 meets the   *)
(*             winner of tid 0 (tid 0)                                     *)
(*                                                                         *)
(* and they meet in a tree: the winner of the slots 2n and 2n+1 takes slot *)
(* n, and slot 1 is the champion.  A slot nobody has reached yet holds a   *)
(* fake eid that says who will.                                            *)
(*                                                                         *)
(* A place is a number: player_list and then e_player_list, as in memory.  *)
(* The tree is team 0.  The record of a place has the eid, the tid, the    *)
(* points and the games played (win + lose + draw).                        *)
(***************************************************************************)
EXTENDS Integers, FiniteSets, Sequences, FiniteSetsExt, SequencesExt

CONSTANTS
    MaxPlayer,       \* players of the tournament, a power of two
    MaxAiEid,        \* eids up to this one are the server's own
    Shuffles,        \* the orders match_team_init may draw (bound)
    EliShuffles      \* the orders match_eli_init may draw (bound)

MaxTeamPlayer == 4
MaxTeamRound == 3
MaxTeam == MaxPlayer \div MaxTeamPlayer

ASSUME BracketAssumption ==
    /\ MaxPlayer \in {4, 8, 16}
    /\ MaxAiEid \in Nat
    /\ Shuffles \subseteq [1 .. MaxPlayer -> 1 .. MaxPlayer]
    /\ EliShuffles \subseteq [1 .. MaxPlayer \div 2 -> 1 .. MaxPlayer \div 2]

IsAi(e) == e <= MaxAiEid

\* The round a slot of the tree belongs to: the upper half of the tids is
\* round 4, the upper half of the rest round 5, ...
EliRound[tid \in 1 .. MaxPlayer - 1] ==
    IF tid >= MaxPlayer \div 2 THEN MaxTeamRound + 1 ELSE EliRound[2 * tid] + 1

TeamPlace == 1 .. MaxTeamRound * MaxPlayer
EliPlace == MaxTeamRound * MaxPlayer + 1 .. (MaxTeamRound + 1) * MaxPlayer - 1
Place == TeamPlace \cup EliPlace
Nowhere == 0
Tree(tid) == (MaxTeamRound + 1) * MaxPlayer - tid      \* the place of a slot, and back
RoundOf == [p \in Place |-> IF p \in TeamPlace THEN (p - 1) \div MaxPlayer + 1 ELSE EliRound[Tree(p)]]
TeamOf == [p \in Place |-> IF p \in TeamPlace THEN ((p - 1) % MaxPlayer) \div MaxTeamPlayer + 1 ELSE 0]
InRound == [r \in Range(RoundOf) |-> {p \in Place : RoundOf[p] = r}]

Record(eid, tid) == [eid |-> eid, tid |-> tid, pt |-> 0, games |-> 0]
Blank == Record(0, 0)
NoMatch == [status |-> "none", round |-> 0, who |-> {}, at |-> [p \in Place |-> Blank]]

\* "eid = before round -(win(2)/lose(1) * 100 + tie(1/0) * 10 + round)"
Fake(win, tid, round) == -(win * 100 + tid * 10 + round)
Won == 2
Lost == 1

Descending(S) == [i \in 1 .. Cardinality(S) |-> CHOOSE x \in S : Cardinality({y \in S : y > x}) = i - 1]

------------------------------------------------------------------------------
(* Setting up.                                                             *)

\* Who will come where in the rounds 2 and 3; the last one of round 3 stays
\* empty, with the tid -1 all records begin with.
Expected(round, k) ==
    CASE round = 2 -> <<Record(Fake(Won, 0, 1), 1), Record(Fake(Won, 1, 1), 1),
                        Record(Fake(Lost, 0, 1), 0), Record(Fake(Lost, 1, 1), 0)>>[k]
      [] round = 3 -> <<Record(Fake(Won, 0, 2), 0), Record(Fake(Lost, 1, 2), 0),
                        Record(Fake(Won, 1, 2), 1), Record(0, -1)>>[k]

\* match_team_init: the players in the order drawn, pairs (0, 2) and (1, 3).
TeamInit(m, order) ==
    [m EXCEPT
       !.status = "round_end", !.round = 0,
       !.at = [p \in Place |->
                 CASE p \in EliPlace -> Blank
                   [] p \in InRound[1] -> Record(order[p], (p - 1) % 2)
                   [] OTHER -> Expected(RoundOf[p], ((p - 1) % MaxTeamPlayer) + 1)]]

\* match_eli_init: who has five points in round 3, in a drawn order, takes
\* the first round of the tree; places nobody reached keep -1.
Qualified(m) ==
    SelectSeq([i \in 1 .. MaxPlayer |-> m.at[(MaxTeamRound - 1) * MaxPlayer + i]],
              LAMBDA rec : rec.pt >= 5)
EliInit(m, order) ==
    LET got == Qualified(m)
        list == [i \in 1 .. MaxPlayer |-> IF i <= Len(got) THEN got[i].eid ELSE -1]
        eid(i) == IF i \in DOMAIN order THEN list[order[i]] ELSE list[i]
    IN  [m EXCEPT !.at = [p \in Place |->
           IF p \in TeamPlace THEN m.at[p] ELSE Record(eid(MaxPlayer - Tree(p)), Tree(p))]]

------------------------------------------------------------------------------
(* Finding a player.                                                       *)

LastOf(m, e, places) ==
    LET mine == {p \in places : m.at[p].eid = e} IN
    IF mine = {} THEN Nowhere ELSE CHOOSE p \in mine : \A q \in mine : RoundOf[q] <= RoundOf[p]

\* get_player_last_round: the team lists count until the end of round 3.
LastRound(m, e) ==
    LastOf(m, e, IF m.round < MaxTeamRound \/ (m.round = MaxTeamRound /\ m.status = "round_start")
                 THEN TeamPlace ELSE EliPlace)

\* Two different places whose players meet.
Opponents(m, p, q) ==
    /\ p # q /\ RoundOf[p] = RoundOf[q] /\ TeamOf[p] = TeamOf[q]
    /\ IF p \in TeamPlace THEN m.at[p].tid = m.at[q].tid ELSE Tree(p) \div 2 = Tree(q) \div 2

Decided(m, p, q) == m.at[p].pt >= 5 \/ m.at[q].pt >= 5

\* The pairs of a round, as round start and round end walk through them.
PairsOf(m, round) ==
    {pq \in InRound[round] \X InRound[round] :
       /\ pq[1] < pq[2] /\ Opponents(m, pq[1], pq[2])
       /\ m.at[pq[1]].eid # 0 /\ m.at[pq[2]].eid # 0}
Undecided(m, round) == {pq \in PairsOf(m, round) : ~Decided(m, pq[1], pq[2])}

\* Mutant: the empty last place of round 3 is waited for, too.
GapAtZero(m, r) == \E p \in InRound[r] : m.at[p].eid <= 0

\* The round that starts next: the last one whose places are all taken.
\* Nothing starts when an earlier one still has a gap.
Gap(m, r) ==
    \E p \in InRound[r] : IF p \in TeamPlace THEN m.at[p].eid < 0 ELSE m.at[p].eid <= 0

ReadyRound(m, rounds) ==
    LET ready == {r \in rounds : ~Gap(m, r)}
        last == CHOOSE r \in ready : \A s \in ready : s <= r
    IN  IF ready = {} \/ \E r \in rounds : r < last /\ Gap(m, r) THEN 0 ELSE last
TeamRounds == 1 .. MaxTeamRound
EliRounds == {RoundOf[p] : p \in EliPlace}
NextRound(m) == ReadyRound(m, IF m.round < MaxTeamRound THEN TeamRounds ELSE EliRounds)

------------------------------------------------------------------------------
(* The result of a game.                                                   *)

\* Where the winner (the loser) of a decided pair plays next.
Heirs(m, p, win) ==
    IF p \in TeamPlace
    THEN {q \in InRound[RoundOf[p] + 1] :
            TeamOf[q] = TeamOf[p] /\ m.at[q].eid = Fake(win, m.at[p].tid, RoundOf[p])}
    ELSE {q \in {Tree(Tree(p) \div 2)} : win = Won}

\* The winner of the winners' pair need not play round 3, nor the champion.
Arrive(m, p, q) ==
    LET rec == [m.at[q] EXCEPT !.eid = m.at[p].eid] IN
    CASE p \in InRound[2] /\ m.at[p].tid = 1 /\ m.at[p].pt >= 5 ->
           [rec EXCEPT !.pt = 6, !.games = 2]
      [] q = Tree(1) -> [rec EXCEPT !.pt = 6]
      [] OTHER -> rec

\* Mutant: the loser takes the winner's place.
PromoteLoser(m, p, q) ==
    LET up == Heirs(m, q, Won)
        down == Heirs(m, p, Lost)
    IN  [m EXCEPT !.at = [s \in Place |-> CASE s \in up -> Arrive(m, q, s)
                                            [] s \in down -> Arrive(m, p, s)
                                            [] OTHER -> m.at[s]]]

Promote(m, p, q) ==
    LET up == Heirs(m, p, Won)
        down == Heirs(m, q, Lost)
    IN  [m EXCEPT !.at = [s \in Place |-> CASE s \in up -> Arrive(m, p, s)
                                            [] s \in down -> Arrive(m, q, s)
                                            [] OTHER -> m.at[s]]]

\* Three points a game; of a draw the second player has the larger part.
Points(winner, upper) ==
    CASE winner = 1 -> <<3, 0>>
      [] winner = 2 -> <<0, 3>>
      [] winner = 9 -> IF upper = 1 THEN <<1, 2>> ELSE <<2, 1>>

Scored(m, p, q, winner, upper) ==
    LET pts == Points(winner, upper) IN
    [m EXCEPT !.at[p] = [@ EXCEPT !.pt = @ + pts[1], !.games = @ + 1],
              !.at[q] = [@ EXCEPT !.pt = @ + pts[2], !.games = @ + 1]]

\* match_result: match_team_result up to round 3, match_eli_result then.
ResultPlace(m, e) == LastOf(m, e, IF m.round <= MaxTeamRound THEN TeamPlace ELSE EliPlace)
ResultTaken(m, e1, e2) ==
    LET p == ResultPlace(m, e1)  q == ResultPlace(m, e2) IN
    /\ p # Nowhere /\ q # Nowhere
    /\ Opponents(m, p, q)
    /\ m.round > MaxTeamRound => ~Decided(m, p, q)

MatchResult(m, e1, e2, winner, upper) ==
    LET p == ResultPlace(m, e1)
        q == ResultPlace(m, e2)
        n == Scored(m, p, q, winner, upper)
    IN  IF ~ResultTaken(m, e1, e2) THEN m
        ELSE IF n.at[p].pt >= 5 /\ n.at[q].pt < 5 THEN Promote(n, p, q)
        ELSE IF n.at[q].pt >= 5 /\ n.at[p].pt < 5 THEN Promote(n, q, p)
        ELSE n

==============================================================================
