------------------------------- MODULE Fights -------------------------------
(***************************************************************************)
(* Fights for gold, for crystals and for nothing: against a robot, or      *)
(* against the next one in the list of those who wait for the same.  Who   *)
(* waits may start another game, leave, log in again or wait too long; the *)
(* fee and the times a day are looked at in the copy when he asks and when *)
(* he joins the list, and taken when the game ends (Games).                *)
(*                                                                         *)
(* conn.waits has the lists a user is in.  Ratings decide who plays whom:  *)
(* here anyone may, one pair when one joins.                               *)
(***************************************************************************)
EXTENDS Games

NoTimes == [ai |-> 0, gold |-> 0, crystal |-> 0]
ROBOT == 2         \* some robot or fakeman; the first is FIGHT_SIGNAL_AI_EID

\* The times a day that are left for a type.
TimesLeft(u, type) ==
    CASE type = "SOLO_GOLD" -> u.times.ai [] type = "VS_GOLD" -> u.times.gold
      [] type = "VS_CRYSTAL" -> u.times.crystal [] OTHER -> 1

HasFee(u, type) ==
    /\ type \in {"SOLO_GOLD", "VS_GOLD"} => u.gold >= Design.game[type].cost.gold
    /\ type = "VS_CRYSTAL" => u.crystal >= Design.game[type].cost.crystal

\* dbin_fight(): nobody waits twice.  The times of games with others are
\* looked at when they join.
DbinFight(e) ==
    \E type \in SoloTypes \cup VsTypes :
        /\ conn[e].game = NoGame /\ conn[e].waits = {} /\ HasFee(conn[e], type)
        /\ \/ /\ type \in SoloTypes /\ TimesLeft(conn[e], type) > 0
              /\ \E robot \in IF type \in conn[e].signals THEN {1, ROBOT} ELSE {1} :
                     DbinWrite(e, "fight_robot", [type |-> type, robot |-> robot])
           \/ type \in VsTypes /\ DbinWrite(e, "fight", [type |-> type])

InFightRobot(r, ok) == Read(r, ok, "new", HasDeck(At(r).e), db.deck[At(r).e].list, "good", "bad")

\* out_fight_robot(): for the connection the user has now, if any.
OutFightRobot(th) ==
    LET q == Head(queue[th]) u == [conn[q.e] EXCEPT !.deck = q.got] IN
    /\ Answered(th, "fight_robot")
    /\ DboutAny(th, IF Online(q.e) /\ conn[q.e].game = NoGame
                    THEN [conn EXCEPT ![q.e] = Play(u, Alone(q.a.type, 0, q.e, q.a.robot, q.got))]
                    ELSE conn)

InFight(r, ok) == Read(r, ok, "new", HasDeck(At(r).e), db.deck[At(r).e].list, "good", "bad")

\* fight_room(): who has found another one plays, unless one of the two
\* plays already; then both wait on.
FightRoom(c, a, b, type) ==
    LET game == Game(type, 0, <<a, b>>, <<GetHero(c[a].deck), GetHero(c[b].deck)>>)
        Playing(u) == [Play(u, game) EXCEPT !.waits = @ \ {type}]
    IN IF c[a].game = NoGame /\ c[b].game = NoGame
       THEN [c EXCEPT ![a] = Playing(@), ![b] = Playing(@)] ELSE c

\* out_fight(), fight_with_player(): the deck is the copy's, is checked, and
\* its user joins the list, where those are matched who may be.
OutFight(th) ==
    LET q == Head(queue[th])
        type == q.a.type
        checked == CheckDeck(q.got, conn[q.by].card)
        u == [conn[q.by] EXCEPT !.deck = IF checked THEN Owned(q.got, conn[q.by].card) ELSE q.got]
        joins == checked /\ u.game = NoGame /\ TimesLeft(u, type) > 0
        c == [conn EXCEPT ![q.by] = IF joins THEN [u EXCEPT !.waits = @ \cup {type}] ELSE u]
        list == {g \in User : type \in c[g].waits}
    IN /\ Answered(th, "fight")
       /\ \/ Dbout(th, c, <<>>)
          \/ /\ joins
             /\ \E a, b \in list : a # b /\ Dbout(th, FightRoom(c, a, b, type), <<>>)

\* fight_cancel(): the first list that has him.
FightCancel(e) ==
    /\ conn[e].waits # {}
    /\ LET first == CHOOSE t \in conn[e].waits :
               t = "VS_GOLD" \/ (t = "VS_CRYSTAL" /\ "VS_GOLD" \notin conn[e].waits) \/ conn[e].waits = {t}
       IN DbinWriteAll(e, "cancel", [conn[e] EXCEPT !.waits = @ \ {first}], <<>>)

\* auto_fight_robot(): who has waited too long is given a robot.
AutoFight(e) ==
    /\ May("robot", e)
    /\ \E type \in conn[e].waits :
          /\ EnqueueAny(<<[NewRequest("fight_robot", e, [type |-> type, robot |-> ROBOT]) EXCEPT !.by = Office]>>)
          /\ conn' = [conn EXCEPT ![e].waits = @ \ {type}]
    /\ UNCHANGED <<bounds, now, db, lapse>>

------------------------------------------------------------------------------
\* reset_fight_times(): every day, by the administration.
ResetFightTimes(e) == DbinOffice("reset_fight", e, <<>>)

InResetFightTimes(r, ok) ==
    Write(r, ok, "new", TRUE, [db EXCEPT !.times = [e \in User |-> Design.fight_times]], "good", "bad")

\* out_reset_fight_times(): every copy there is.
OutResetFightTimes(th) ==
    /\ Answered(th, "reset_fight")
    /\ DboutAny(th, [e \in User |-> IF conn[e].up THEN [conn[e] EXCEPT !.times = Design.fight_times] ELSE conn[e]])
=============================================================================
