------------------------------ MODULE Chapters ------------------------------
(***************************************************************************)
(* Chapters: a row of marks for the stages of each (evil_chapter), loaded  *)
(* when it is asked for, kept in the connection and replaced as a whole    *)
(* when it changes.  A stage won is marked with its stars and opens the    *)
(* next one.  If the rows are not loaded when a stage is won, the reply to *)
(* their loading brings the stars along.                                   *)
(*                                                                         *)
(* The design does not change, so that a row has the length of its chapter *)
(***************************************************************************)
EXTENDS Campaign

Chapter == DOMAIN Design.chapter
Stage(c) == DOMAIN Design.chapter[c]
CHAPTER_DATA_LOCK == 9
CHAPTER_DATA_START == 8
NoChapters == [c \in Chapter |-> <<>>]
Loaded(u) == u.chap # NoChapters

\* __reset_chapter(): the chapters without a row; the first stage is open.
ResetChapter(chap) ==
    [c \in Chapter |->
        IF chap[c] # <<>> THEN chap[c]
        ELSE [s \in Stage(c) |-> IF c = 1 /\ s = 1 THEN CHAPTER_DATA_START ELSE CHAPTER_DATA_LOCK]]

Open(chap, c, s) ==
    IF c \in Chapter /\ chap[c][s] = CHAPTER_DATA_LOCK THEN [chap EXCEPT ![c][s] = CHAPTER_DATA_START] ELSE chap

\* __update_chapter(): a stage that was locked stays so.
UpdateChapter(chap, c, s, star) ==
    IF c = 0 \/ s = 0 \/ chap[c][s] = CHAPTER_DATA_LOCK THEN chap
    ELSE LET won == [chap EXCEPT ![c][s] = IF @ = CHAPTER_DATA_START \/ star > @ THEN star ELSE @]
         IN IF s < Len(chap[c]) THEN Open(won, c, s + 1) ELSE Open(won, c + 1, 1)

\* refresh_chapter_data() of the copy, and what it sends.
RefreshChapter(u, at) ==
    IF Loaded(u) THEN [u EXCEPT !.chap = UpdateChapter(ResetChapter(@), at.c, at.s, at.star)] ELSE u

AskChapter(e, u, at) ==
    IF ~Loaded(u) /\ at.s > 0 THEN <<NewRequest("chapter_data", e, at)>>
    ELSE IF RefreshChapter(u, at).chap = u.chap THEN <<>>
    ELSE <<NewRequest("chapter_replace", e, [chap |-> RefreshChapter(u, at).chap])>>

NoStage == [c |-> 0, s |-> 0, star |-> 0]

\* chapter_mission_update(): of the stages, and how many have at least i stars;
\* the loop does not reach the last chapter.
ChapterEvents(u) ==
    LET Star(c, s) == IF u.chap[c][s] \in 0 .. 3 THEN u.chap[c][s] ELSE 0
        Won(c, i) == {s \in Stage(c) : u.chap[c][s] \in i .. 3}
        Events(c) == [s \in Stage(c) |-> <<"chapter_stage", Star(c, s), c, s>>]
                     \o [i \in 1 .. 4 |-> <<"chapter", Cardinality(Won(c, i - 1)), c, i - 1>>]
    IN IF Loaded(u) THEN FlattenSeq([c \in 1 .. Cardinality(Chapter) - 1 |-> Events(c)]) ELSE <<>>

------------------------------------------------------------------------------
\* dbin_chapter_data(): the copy that is loaded is shown.
DbinChapterData(e) == ~Loaded(conn[e]) /\ DbinWrite(e, "chapter_data", NoStage)

\* get_chapter(): the rows there are.
GetChapter(e) == db.chap[e]
InGetChapter(r, ok) == Read(r, ok, "new", TRUE, GetChapter(At(r).e), "good", "bad")

\* out_chapter_data(): rows replace what the copy has.
OutChapterData(th) ==
    LET q == Head(queue[th])
        taken == [c \in Chapter |-> IF q.got[c] # <<>> THEN q.got[c] ELSE conn[q.by].chap[c]]
        u == [conn[q.by] EXCEPT !.chap = UpdateChapter(ResetChapter(taken), q.a.c, q.a.s, q.a.star)]
        first == ChangeMission(u, <<>>)
        new == ChangeMission(first, ChapterEvents(first))
    IN /\ Answered(th, "chapter_data")
       /\ Dbout(th, [conn EXCEPT ![q.by] = new],
                (IF u.chap = taken THEN <<>> ELSE <<NewRequest("chapter_replace", q.by, [chap |-> u.chap])>>)
                \o SaveMission(q.by, u, first) \o SaveMission(q.by, first, new))

\* __query_replace_chapter(): one REPLACE of all rows.
ReplaceChapter(e, chap) == [db EXCEPT !.chap[e] = [c \in Chapter |-> IF chap[c] # <<>> THEN chap[c] ELSE @[c]]]
InReplaceChapter(r, ok) ==
    LET q == At(r) IN Write(r, ok, "new", TRUE, ReplaceChapter(q.e, q.a.chap), "good", "broke")

\* out_chapter_update_data()
OutChapterUpdateData(th) ==
    LET u == conn[Head(queue[th]).by] IN Answered(th, "chapter_replace") /\ DboutUser(th, u, ChapterEvents(u))

------------------------------------------------------------------------------
\* dbin_chapter(): a stage that is open in the copy.
DbinChapter(e) ==
    \E c \in Chapter : \E s \in Stage(c) :
        /\ conn[e].game = NoGame /\ Loaded(conn[e]) /\ conn[e].chap[c][s] # CHAPTER_DATA_LOCK
        /\ DbinWrite(e, "chapter", [c |-> c, s |-> s, power |-> Design.chapter[c][s].power])

\* out_chapter(): the deck read is the copy's, whether there is a game or not.
OutChapter(th) ==
    LET q == Head(queue[th])
        u == [conn[q.by] EXCEPT !.deck = q.got]
    IN /\ Answered(th, "chapter")
       /\ DboutOnly(th, Play(u, Alone("chapter", [c |-> q.a.c, s |-> q.a.s], q.by, 1, q.got)))
=============================================================================
