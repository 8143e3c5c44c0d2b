-------------------------------- MODULE Heroes --------------------------------
(***************************************************************************)
(* The heroes a user has (evil_hero) and their missions                    *)
(* (evil_hero_mission): rows made when they are loaded, counted in the     *)
(* copy when a stage is won (Games), and rewarded with strength.           *)
(*                                                                         *)
(* A hero is its strength (hp; energy moves with it), 0 without a row.     *)
(* Saving the counts is asked for without a connection, so that any worker *)
(* does it and nobody hears how it went.                                   *)
(***************************************************************************)
EXTENDS Rewards

HMission == 1 .. Design.MAX_HERO_MISSION
NoHeroMission == [status |-> MISSION_STATUS_NULL, n1 |-> 0]
NoHeroMissions == [h \in Hero |-> [m \in HMission |-> NoHeroMission]]
NoHeroes == [h \in Hero |-> 0]

\* hero_hp_mission_update()
HeroEvents(u) ==
    SetToSeq({<<"hero_hp", u.hero[h], h, 0>> : h \in {i \in Hero : u.hero[i] > 0}})

\* __refresh_hero_mission(): the missions of the design without a row, and
\* with no other one to finish first.
OpenMissions(row, h) ==
    {m \in HMission : LET d == Design.hmission[h][m] IN
        /\ row[m].status = MISSION_STATUS_NULL
        /\ d.pre # Wildcard => row[d.pre].status = MISSION_STATUS_FINISH}
RefreshHeroMission(rows, e, heroes) ==
    [rows EXCEPT !.hmis[e] = [h \in Hero |-> [m \in HMission |->
        IF h \in heroes /\ m \in OpenMissions(@[h], h) THEN [status |-> MISSION_STATUS_READY, n1 |-> 0]
        ELSE @[h][m]]]]

\* get_card(), list_mission_hero(), get_mission_hero(), get_hero_mission():
\* what is read of a user and of one of his heroes.
GetCard(e) == RowToCard(db.card[e])
ListMissionHero(e) == {h \in Hero : db.hero[e][h] > 0}
GetMissionHero(e, h) == db.hero[e][h]
GetHeroMission(e, h) == {m \in HMission : db.hmis[e][h][m].status # MISSION_STATUS_NULL}

\* __init_hero_by_card_list(): the heroes among the cards without a row get
\* one, as the design has them.
InitHero(e, mine) ==
    [db EXCEPT !.hero[e] = [h \in Hero |-> IF h \in mine \ ListMissionHero(e) THEN Design.hero[h] ELSE @[h]]]

\* in_load_hero_data(): the heroes (that one fails is only logged), the
\* missions that are open, and what there is now, but for the last mission of
\* a hero, which the loop over them does not reach.
InLoadHeroData(r, ok) ==
    LET q == At(r) e == q.e
        mine == {h \in Hero : GetCard(e)[h] > 0}
        reached(h) == GetHeroMission(e, h) \ {Design.MAX_HERO_MISSION}
        told == [h \in Hero |-> [m \in HMission |->
                    IF m \in reached(h) THEN db.hmis[e][h][m] ELSE NoHeroMission]]
    IN
    \/ Read(r, ok, "new", db.card[e] # NoCards, <<>>, "hero", "bad")
    \/ Try(r, ok, "hero", TRUE, InitHero(e, mine), "open")
    \/ Try(r, ok, "open", TRUE, RefreshHeroMission(db, e, mine), "list")
    \/ Read(r, ok, "list", TRUE, [hero |-> db.hero[e], hmis |-> told], "good", "broke")

\* out_load_hero_data()
OutLoadHeroData(th) ==
    LET q == Head(queue[th])
        known(h, m) == q.got.hmis[h][m].status # MISSION_STATUS_NULL
        u == [conn[q.by] EXCEPT
                !.hero = [h \in Hero |-> IF q.got.hero[h] > 0 THEN q.got.hero[h] ELSE @[h]],
                !.hmis = [h \in Hero |-> [m \in HMission |->
                            IF known(h, m) THEN q.got.hmis[h][m] ELSE @[h][m]]]]
    IN Answered(th, "lhero") /\ DboutUser(th, u, HeroEvents(u))

------------------------------------------------------------------------------
\* change_hero_mission(): of the winner's hero, those missions count that are
\* about the stage, with its stars if they ask for some.
Counted(u, hero, stage, star) ==
    {m \in HMission : LET d == Design.hmission[hero][m] IN
        /\ u.hero[hero] > 0
        /\ u.hmis[hero][m].status = MISSION_STATUS_READY
        /\ d.stage = stage /\ d.star \in {Wildcard, star}}

CountHero(u, hero, about) ==
    [u EXCEPT !.hmis[hero] = [m \in HMission |->
        IF m \notin about THEN @[m]
        ELSE LET n == @[m].n1 + 1 IN
             IF n >= Design.hmission[hero][m].count
             THEN [status |-> MISSION_STATUS_OK, n1 |-> Design.hmission[hero][m].count]
             ELSE [@[m] EXCEPT !.n1 = n]]]

SaveHeroMission(e, u, hero, about) ==
    IF about = {} THEN <<>>
    ELSE <<[NewRequest("up_hero_mlist", e, [hero |-> hero, list |-> [m \in about |-> u.hmis[hero][m]]])
            EXCEPT !.by = Office]>>

\* __save_hero_mission_list(): INSERT ... ON DUPLICATE KEY UPDATE of the list.
SaveHeroMissionList(e, h, list) ==
    [db EXCEPT !.hmis[e][h] = [m \in HMission |-> IF m \in DOMAIN list THEN list[m] ELSE @[m]]]

InUpdateHeroMission(r, ok) ==
    LET q == At(r) IN
    Write(r, ok, "new", TRUE, SaveHeroMissionList(q.e, q.a.hero, q.a.list), "good", "broke")

OutUpdateHeroMission(th) == Answered(th, "up_hero_mlist") /\ DboutAny(th, conn)

------------------------------------------------------------------------------
\* submit_hero_mission()
SubmitHeroMission(e) ==
    \E h \in Hero, m \in HMission :
        LET mis == conn[e].hmis[h][m] d == Design.hmission[h][m] IN
        /\ conn[e].hero[h] > 0
        /\ mis.status \in {MISSION_STATUS_READY, MISSION_STATUS_OK}
        /\ mis.status = MISSION_STATUS_OK \/ mis.n1 >= d.count
        /\ DbinWrite(e, "shero_mis", [hero |-> h, mis |-> m, hp |-> d.hp])

\* in_submit_hero_mission(): a mission that is OK is finished; then the hero
\* grows, and a reward that adds nothing is an error; then more are open.
InSubmitHeroMission(r, ok) ==
    LET q == At(r) a == q.a IN
    \/ Write(r, ok, "new", db.hmis[q.e][a.hero][a.mis].status = MISSION_STATUS_OK,
             [db EXCEPT !.hmis[q.e][a.hero][a.mis].status = MISSION_STATUS_FINISH], "reward", "bad")
    \/ Write(r, ok, "reward", db.hero[q.e][a.hero] > 0 /\ a.hp > 0,
             Given([db EXCEPT !.hero[q.e][a.hero] = @ + a.hp], <<"hero", q.e, a.hero, a.mis>>), "open", "broke")
    \/ Try(r, ok, "open", TRUE, RefreshHeroMission(db, q.e, {a.hero}), "read")
    \/ Read(r, ok, "read", GetMissionHero(q.e, a.hero) > 0, <<GetMissionHero(q.e, a.hero)>>, "good", "broke")

\* out_submit_hero_mission(): everything is loaded again.
OutSubmitHeroMission(th) ==
    LET q == Head(queue[th]) a == q.a
        u == [conn[q.by] EXCEPT !.hero[a.hero] = q.got[1],
                                !.hmis[a.hero][a.mis].status = MISSION_STATUS_FINISH]
        new == ChangeMission(u, HeroEvents(u))
    IN /\ Answered(th, "shero_mis")
       /\ Dbout(th, [conn EXCEPT ![q.by] = new], <<DbinLoadHero(q.by)>> \o SaveMission(q.by, u, new))
=============================================================================
