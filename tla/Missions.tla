------------------------------ MODULE Missions -------------------------------
(***************************************************************************)
(* mission.cpp: the list of missions of a user.  The main loop keeps the   *)
(* list in the connection, counts what the user does in it (mission_       *)
(* update), turns a mission whose target is reached OK, gives a daily      *)
(* mission back the next day, accepts new ones (mission_refresh) and marks *)
(* a rewarded one (mission_finish).  These are functions of a list.        *)
(*                                                                         *)
(* last_update is kept as the day: the daily reset asks for no more.  A    *)
(* mission the design no longer has is left out, and so are the monthly    *)
(* card and the missions of a guild, whose functions are of the same form. *)
(***************************************************************************)
EXTENDS Integers, FiniteSets

CONSTANTS
    DesignMission,  \* design_mission_t by mid
    CardCount       \* EVIL_CARD_MAX

Mission == DOMAIN DesignMission
Card == 1 .. CardCount
CardList == [Card -> Int]

MISSION_STATUS_NULL == 0
MISSION_STATUS_READY == 1
MISSION_STATUS_OK == 2
MISSION_STATUS_FINISH == 3

\* Missions of these types are told a value, those of the others an offset.
ValueTypes == {"level", "card", "collection", "deck", "chapter", "chapter_stage", "hero_hp"}
OffsetTypes == {"shop", "gate", "ai", "vs", "quick", "friend", "chat", "guild",
                "fight", "fight_ai", "fight_vs", "rank_games"}

Wildcard == 0      \* p2, p3: whatever; pre, hero, card: none

ASSUME MissionAssumption ==
    /\ CardCount \in Nat \ {0} /\ Mission \subseteq Nat \ {0}
    /\ DesignMission \in [Mission ->
          [mtype : ValueTypes \cup OffsetTypes, p1 : Nat, p2 : Nat, p3 : Nat,
           pre : Mission \cup {Wildcard}, hero : Card \cup {Wildcard}, daily : BOOLEAN,
           lv : Nat, guild_lv : Nat, gold : Nat,
           card : Card \cup {Wildcard}, lvup : {0, 1}]]
    /\ \A m \in Mission : DesignMission[m].mtype = "card" => DesignMission[m].p2 \in Card

NoMission == [status |-> MISSION_STATUS_NULL, n1 |-> 0, last |-> 0]
MissionRow == [status : MISSION_STATUS_NULL .. MISSION_STATUS_FINISH, n1 : Int, last : Nat]
MissionList == [Mission -> MissionRow]

\* What the functions read of a user: its level, its guild's, its cards.
Profile == [lv : Nat, guild_lv : Nat, card : CardList]

\* get_collection()
GetCollection(card) == Cardinality({c \in Card : card[c] > 0})

\* mission_from_design_mission(): a mission may be reached when it is new.
MissionFromDesign(m, me, today) ==
    LET d == DesignMission[m]
        n == CASE d.mtype = "level" -> me.lv
               [] d.mtype = "card" -> me.card[d.p2]
               [] d.mtype = "collection" -> GetCollection(me.card)
               [] OTHER -> 0
    IN [status |-> IF n >= d.p1 THEN MISSION_STATUS_OK ELSE MISSION_STATUS_READY,
        n1 |-> n, last |-> IF n >= d.p1 THEN today ELSE 0]

\* mission_finish()
MayFinish(mlist, m) == mlist[m].status = MISSION_STATUS_OK
MissionFinish(mlist, m) == [mlist EXCEPT ![m].status = MISSION_STATUS_FINISH]

\* The missions an event is about.
Concerned(mlist, mtype, p2, p3, guild_lv) ==
    {m \in Mission : LET d == DesignMission[m] IN
        /\ d.mtype = mtype /\ d.guild_lv <= guild_lv
        /\ mlist[m].status = MISSION_STATUS_READY
        /\ d.p2 \in {p2, Wildcard} /\ d.p3 \in {p3, Wildcard}}

\* mission_update(): it counts, mission_refresh() draws the conclusions.
MissionUpdate(mlist, mtype, p1, p2, p3, guild_lv) ==
    LET about == Concerned(mlist, mtype, p2, p3, guild_lv) IN
    IF about = {} THEN mlist
    ELSE [m \in Mission |->
             IF m \notin about THEN mlist[m]
             ELSE [mlist[m] EXCEPT !.n1 = IF mtype \in ValueTypes THEN p1 ELSE @ + p1]]

\* What mission_refresh() makes of a mission the user has.
Refreshed(mis, d, today) ==
    IF mis.status = MISSION_STATUS_READY /\ mis.n1 >= d.p1
    THEN [mis EXCEPT !.status = MISSION_STATUS_OK, !.last = today]
    ELSE IF mis.status = MISSION_STATUS_FINISH /\ d.daily /\ mis.last < today
    THEN [mis EXCEPT !.status = MISSION_STATUS_READY, !.n1 = 0]
    ELSE mis

\* The heroes of a job are neighbours; one of them is enough.
HasHero(card, hero) == \E h \in Card : (h - 1) \div 2 = (hero - 1) \div 2 /\ card[h] > 0

\* mission_refresh(): then those are accepted the user is ready for.
MissionRefresh(mlist, me, today) ==
    LET mine == [m \in Mission |-> Refreshed(mlist[m], DesignMission[m], today)]
        Ready(m) == LET d == DesignMission[m] IN
            /\ me.lv >= d.lv /\ me.guild_lv >= d.guild_lv
            /\ d.pre # Wildcard => mine[d.pre].status = MISSION_STATUS_FINISH
            /\ d.hero # Wildcard => HasHero(me.card, d.hero)
    IN [m \in Mission |->
            IF mine[m].status = MISSION_STATUS_NULL /\ Ready(m) THEN MissionFromDesign(m, me, today)
            ELSE mine[m]]
=============================================================================
