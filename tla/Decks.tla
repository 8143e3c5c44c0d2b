-------------------------------- MODULE Decks --------------------------------
(***************************************************************************)
(* The deck a user plays with (evil_deck), the named decks it may buy room *)
(* for (evil_slot) and those of each hero (evil_hero_slot).                *)
(***************************************************************************)
EXTENDS Shop

Hero == 1 .. Design.HERO_MAX
SlotId == 1 .. Design.MAX_SLOT_NUM - 1
HERO_SLOT_RECOMMAND == 0

NoSlot == <<>>       \* no such row
EmptySlot == [c \in Card |-> 0]
Total(deck) == FoldFunction(+, 0, deck)

\* row_to_card(), row_to_deck(), row_to_hero_slot(): a list as it is read.
RowToList(row, max) == [c \in Card |-> IF row[c] < 0 THEN 0 ELSE Clip(row[c], max)]
RowToCard(row) == RowToList(row, EVIL_NUM_CARD_MAX)
RowToDeck(row) == RowToList(row, Design.EVIL_NUM_DECK_MAX)
RowToHeroSlot(row) == RowToList(row, Design.EVIL_NUM_DECK_MAX)

\* Lists are written as digits: what is not one, as the count a copy is wrong
\* about by more than it has, makes an error of the statement.
Digits(list) == \A c \in Card : list[c] \in 0 .. 9

\* load_card(): of who has none, a list of zeros.
LoadCard(e) == IF db.card[e] = NoCards THEN EmptySlot ELSE db.card[e]

HasCards(card, deck) == \A c \in Card : deck[c] <= card[c]

\* Mutant: the deck is left as it is.
OwnedOrNot(deck, card) == deck

\* check_deck(): one hero, owned, and cards that fit it; what is not owned
\* is taken out of the deck.
Owned(deck, card) == [c \in Card |-> IF c \in Hero \/ deck[c] <= card[c] THEN deck[c] ELSE card[c]]

CheckDeck(deck, card) ==
    LET own == Owned(deck, card) IN
    /\ \E h \in Hero : /\ \A i \in Hero : deck[i] = IF i = h THEN 1 ELSE 0
                       /\ deck[h] <= card[h]
                       /\ \A c \in Card \ Hero : own[c] > 0 => c \in Design.fit_hero[h]
    /\ \A c \in Card \ Hero : deck[c] <= Design.EVIL_NUM_DECK_MAX
    /\ Total(own) >= Design.EVIL_DECK_CARD_MIN

\* get_hero()
GetHero(deck) == CHOOSE h \in Hero : deck[h] > 0 /\ \A i \in 1 .. h - 1 : deck[i] <= 0

\* __get_recommand_card_percent() is 100.
AllRecommended(card, hero) == Design.hero_slot[hero] # NoSlot /\ HasCards(card, Design.hero_slot[hero])

------------------------------------------------------------------------------
(* Cards and decks are loaded after the login; who has none chooses a job. *)

DbinLoadCard(e) == DbinWrite(e, "lcard", <<>>)
InLoadCard(r, ok) == Read(r, ok, "new", db.card[At(r).e] # NoCards, db.card[At(r).e], "good", "bad")
OutLoadCard(th) ==
    LET q == Head(queue[th]) IN
    Answered(th, "lcard") /\ DboutOnly(th, [conn[q.by] EXCEPT !.card = q.got])

DbinLoadDeck(e) == DbinWrite(e, "ldeck", <<>>)
InLoadDeck(r, ok) ==
    LET deck == db.deck[At(r).e] IN
    Read(r, ok, "new", deck.list # NoDeck, RowToDeck(deck.list), "good", "bad")

OutLoadDeck(th) ==
    LET q == Head(queue[th]) IN
    Answered(th, "ldeck") /\ DboutOnly(th, [conn[q.by] EXCEPT !.deck = q.got])

DbinLoadHeroDeck(e) == DbinWrite(e, "lhdeck", <<>>)
InLoadHeroDeck(r, ok) ==
    LET deck == db.deck[At(r).e] IN Read(r, ok, "new", deck.list # NoDeck, deck.list, "good", "bad")
OutLoadHeroDeck(th) ==
    LET q == Head(queue[th]) IN
    Answered(th, "lhdeck") /\ DboutOnly(th, [conn[q.by] EXCEPT !.deck = q.got])

\* For the rows of its heroes (Heroes).
DbinLoadHero(e) == NewRequest("lhero", e, <<>>)

\* dbin_save_card(): a job's first cards.
DbinSaveCard(e) == \E h \in Hero : DbinWrite(e, "scard", [list |-> Design.job[h]])

\* The statements that write a list: INSERT INTO evil_card, REPLACE INTO
\* evil_deck, INSERT INTO evil_hero_slot.
MayInsertCard(e, list) == Digits(list) /\ db.card[e] = NoCards
InsertCard(e, list) ==
    Granted(Given([db EXCEPT !.card[e] = list], <<"job", e>>), CardWorth(list))

ReplaceDeck(e, slot, list) == [db EXCEPT !.deck[e] = [slot |-> slot, list |-> list]]

MayInsertFirstSlot(e, hero, list) == Digits(list) /\ db.hslot[e][hero] = <<>>
InsertFirstSlot(e, hero, list) == [db EXCEPT !.hslot[e][hero] = <<list>>]

\* __add_player_arena(): the rank after the last (Arena).
LastRank(rows) == Max({0} \cup {rows.arena[g] : g \in User})
AddPlayerArena(rows, e) == [rows EXCEPT !.arena[e] = LastRank(rows) + 1]

\* __save_card(): the cards once, with them the deck, the hero's first slot, and
\* a rank of the arena, if that can be (that of __add_player_ranking is
\* Challenge's).
SaveCard(r, ok) ==
    LET q == At(r) list == q.a.list IN
    \/ Write(r, ok, "new", MayInsertCard(q.e, list), InsertCard(q.e, list), "card", "bad")
    \/ Write(r, ok, "card", Digits(list), ReplaceDeck(q.e, 1, list), "deck", "broke")
    \/ Write(r, ok, "deck", MayInsertFirstSlot(q.e, GetHero(list), list),
             InsertFirstSlot(q.e, GetHero(list), list), "arena", "broke")
    \/ Try(r, ok, "arena", db.arena[q.e] = 0, AddPlayerArena(db, q.e), "good")

\* in_save_card()
InSaveCard(r, ok) == SaveCard(r, ok)

\* out_save_card(): then the hero's data are asked for.
OutSaveCard(th) ==
    LET q == Head(queue[th])
        u == [conn[q.by] EXCEPT !.card = q.a.list]
        new == ChangeMission(u, <<>>)
    IN /\ Answered(th, "scard")
       /\ Dbout(th, [conn EXCEPT ![q.by] = new],
                SaveMission(q.by, u, new) \o <<DbinLoadHero(q.by)>>)

------------------------------------------------------------------------------
\* dbin_save_deck()
DbinSaveDeck(e) ==
    \E slot \in SlotId, deck \in Design.decks :
        /\ CheckDeck(deck, conn[e].card)
        /\ DbinWrite(e, "sdeck", [slot |-> slot, list |-> Owned(deck, conn[e].card)])

\* save_deck()
SaveDeck(r, ok, at, slot, list, then) ==
    Write(r, ok, at, Digits(list), ReplaceDeck(At(r).e, slot, list), then, "bad")

\* save_slot(): if there is such a slot.
SaveSlot(e, slot, list) ==
    IF db.slot[e][slot] = NoSlot THEN db ELSE [db EXCEPT !.slot[e][slot] = list]

InSaveDeck(r, ok) ==
    LET q == At(r) a == q.a IN
    \/ SaveDeck(r, ok, "new", a.slot, a.list, "saved")
    \/ Write(r, ok, "saved", Digits(a.list), SaveSlot(q.e, a.slot, a.list), "good", "broke")

\* deck_mission_update(): each mission of the type with the count of its card.
DeckEvents(u) ==
    LET about == {m \in Mission : DesignMission[m].mtype = "deck" /\ u.deck[DesignMission[m].p2] > 0}
    IN SetToSeq({<<"deck", u.deck[DesignMission[m].p2], DesignMission[m].p2, 0>> : m \in about})

\* out_save_deck() checks again.
OutSaveDeck(th) ==
    LET q == Head(queue[th])
        u == [conn[q.by] EXCEPT !.deck = Owned(q.a.list, conn[q.by].card)]
    IN /\ Answered(th, "sdeck")
       /\ IF CheckDeck(q.a.list, conn[q.by].card) THEN DboutUser(th, u, DeckEvents(u))
          ELSE DboutOnly(th, conn[q.by])

------------------------------------------------------------------------------
(* Named slots.                                                            *)

DbinLoadSlot(e) == \E id \in SlotId : DbinWrite(e, "lslot", [slot |-> id])

\* load_slot(): what is shown of it is as the table has it.
LoadSlot(e, slot) == IF db.slot[e][slot] = NoSlot THEN <<>> ELSE <<RowToDeck(db.slot[e][slot])>>
InLoadSlot(r, ok) ==
    LET got == LoadSlot(At(r).e, At(r).a.slot) IN Read(r, ok, "new", got # <<>>, got, "good", "bad")

DbinSlotList(e) == DbinWrite(e, "slotlist", <<>>)

\* load_slot_list(): of who has none, a list of none.
LoadSlotList(e) == {slot \in SlotId : db.slot[e][slot] # NoSlot}
InSlotList(r, ok) == Read(r, ok, "new", TRUE, LoadSlotList(At(r).e), "good", "bad")

DbinSaveSlot(e) ==
    \E id \in SlotId, deck \in Design.decks :
        /\ CheckDeck(deck, conn[e].card)
        /\ DbinWrite(e, "sslot", [slot |-> id, list |-> Owned(deck, conn[e].card)])
InSaveSlot(r, ok) ==
    LET q == At(r) IN
    Write(r, ok, "new", Digits(q.a.list) /\ db.slot[q.e][q.a.slot] # NoSlot,
          SaveSlot(q.e, q.a.slot, q.a.list), "good", "bad")

DbinRenameSlot(e) == \E id \in SlotId : DbinWrite(e, "rslot", [slot |-> id])
InRenameSlot(r, ok) ==
    Write(r, ok, "new", db.slot[At(r).e][At(r).a.slot] # NoSlot, db, "good", "bad")

DeleteSlot(rows, e, slot) == [rows EXCEPT !.slot[e][slot] = NoSlot]

\* dbin_buy_slot(), flag 1 or 2.
DbinBuySlot(e) ==
    \E unit \in Unit, id \in SlotId :
        LET price == Price(unit, Design.slot) IN
        Has(e, price) /\ DbinWrite(e, "buyslot", With([slot |-> id], price))

\* in_buy_slot(): after the last slot; without the money it is taken
\* back, and that this fails is not looked at.
InBuySlot(r, ok) ==
    LET q == At(r) a == q.a IN
    \/ Write(r, ok, "new", /\ db.slot[q.e][a.slot] = NoSlot
                           /\ a.slot > 1 => db.slot[q.e][a.slot - 1] # NoSlot,
             [db EXCEPT !.slot[q.e][a.slot] = EmptySlot], "slot", "bad")
    \/ Write(r, ok, "slot", Affords(q.e, -a.gold, -a.crystal),
             UpdateMoney(db, q.e, -a.gold, -a.crystal), "good", "undo")
    \/ Write(r, ok, "undo", TRUE, DeleteSlot(db, q.e, a.slot), "bad", "broke")

OutBuySlot(th) ==
    LET q == Head(queue[th]) IN
    Answered(th, "buyslot") /\ DboutOnly(th, AddMoney(conn[q.by], -q.a.gold, -q.a.crystal))

------------------------------------------------------------------------------
(* The slots of a hero: a sequence of decks.                               *)

HeroSlots(e, hero) == DOMAIN db.hslot[e][hero]
GetHeroSlot(e, hero, id) == RowToHeroSlot(db.hslot[e][hero][id])

DbinListHeroSlot(e) == \E hero \in Hero : DbinWrite(e, "lhslot", [hero |-> hero])
InListHeroSlot(r, ok) == Read(r, ok, "new", TRUE, <<>>, "good", "bad")
DbinGetHeroSlot(e) ==
    \E hero \in Hero, id \in 1 .. Design.EVIL_HERO_SLOT_MAX : DbinWrite(e, "ghslot", [hero |-> hero, id |-> id])
InGetHeroSlot(r, ok) ==
    LET q == At(r) IN
    Read(r, ok, "new", q.a.id \in HeroSlots(q.e, q.a.hero), <<GetHeroSlot(q.e, q.a.hero, q.a.id)>>, "good", "bad")

\* __insert_hero_slot(): the next one, empty but for the hero, up to a limit.
MayInsertHeroSlot(e, hero) == Len(db.hslot[e][hero]) < Design.EVIL_HERO_SLOT_MAX
InsertHeroSlot(e, hero) ==
    [db EXCEPT !.hslot[e][hero] = Append(@, [EmptySlot EXCEPT ![hero] = 1])]

\* __get_max_hero_slot_id(): the one that was inserted, or a later one.
GetMaxHeroSlotId(e, hero) == Len(db.hslot[e][hero])

DbinInsertHeroSlot(e) == \E hero \in Hero : DbinWrite(e, "ihslot", [hero |-> hero])
InInsertHeroSlot(r, ok) ==
    LET q == At(r) hero == q.a.hero IN
    \/ Write(r, ok, "new", MayInsertHeroSlot(q.e, hero), InsertHeroSlot(q.e, hero), "insert", "bad")
    \/ Read(r, ok, "insert", GetMaxHeroSlotId(q.e, hero) > 0, <<GetMaxHeroSlotId(q.e, hero)>>, "good", "broke")

DbinUpdateHeroSlot(e) ==
    \E hero \in Hero, id \in 1 .. Design.EVIL_HERO_SLOT_MAX, deck \in Design.decks :
        /\ CheckDeck(deck, conn[e].card) /\ deck[hero] = 1
        /\ DbinWrite(e, "uhslot", [hero |-> hero, id |-> id, list |-> Owned(deck, conn[e].card)])

\* __update_hero_slot(): a slot that is not there, is not an error.
UpdateHeroSlot(e, hero, id, list) ==
    IF id \in HeroSlots(e, hero) THEN [db EXCEPT !.hslot[e][hero][id] = list] ELSE db

\* __update_hero_deck(): the deck, if it is that slot's of that hero; returns
\* whether that has changed it.
IsDeckOf(e, hero, id) ==
    db.deck[e].list # NoDeck /\ db.deck[e].slot = id /\ db.deck[e].list[hero] = 1

UpdateHeroDeck(r, ok, at, hero, id, list) ==
    LET e == At(r).e IN
    /\ At(r).at = at
    /\ IF ok /\ IsDeckOf(e, hero, id) THEN db' = [db EXCEPT !.deck[e].list = list] ELSE UNCHANGED db
    /\ Goes(r, IF ok THEN "good" ELSE "broke", <<IsDeckOf(e, hero, id) /\ db.deck[e].list # list>>)
    /\ lapse' = (lapse \/ ~ok)

InUpdateHeroSlot(r, ok) ==
    LET q == At(r) a == q.a IN
    \/ Write(r, ok, "new", Digits(a.list), UpdateHeroSlot(q.e, a.hero, a.id, a.list), "slot", "bad")
    \/ UpdateHeroDeck(r, ok, "slot", a.hero, a.id, a.list)

\* out_update_hero_slot(): with the deck, its copy.
OutUpdateHeroSlot(th) ==
    LET q == Head(queue[th]) IN
    /\ Answered(th, "uhslot")
    /\ DboutOnly(th, IF q.got[1] THEN [conn[q.by] EXCEPT !.deck = q.a.list] ELSE conn[q.by])

DbinChooseHeroSlot(e) ==
    \E hero \in Hero :
        \/ /\ AllRecommended(conn[e].card, hero)
           /\ DbinWrite(e, "chslot", [hero |-> hero, id |-> HERO_SLOT_RECOMMAND, list |-> Design.hero_slot[hero]])
        \/ \E id \in 1 .. Design.EVIL_HERO_SLOT_MAX : DbinWrite(e, "chslot", [hero |-> hero, id |-> id])

\* in_choose_hero_slot(): a recommended deck is saved as it is; another one
\* needs cards enough in it, whether or not the user still has them.
InChooseHeroSlot(r, ok) ==
    LET q == At(r) a == q.a
        slots == db.hslot[q.e][a.hero]
    IN
    \/ /\ a.id = HERO_SLOT_RECOMMAND
       /\ SaveDeck(r, ok, "new", a.id, a.list, "good")
    \/ /\ a.id # HERO_SLOT_RECOMMAND
       /\ \/ Read(r, ok, "new", a.id \in DOMAIN slots /\ Total(slots[a.id]) >= Design.EVIL_DECK_CARD_MIN,
                  <<>>, "choose", "bad")
          \/ SaveDeck(r, ok, "choose", a.id, slots[a.id], "deck")
          \/ Read(r, ok, "deck", TRUE, RowToDeck(db.deck[q.e].list), "good", "broke")

\* out_choose_hero_slot(): the answer about a recommended deck lacks it.
OutChooseHeroSlot(th) ==
    LET q == Head(queue[th]) IN
    /\ Answered(th, "chslot")
    /\ DboutOnly(th, IF q.a.id = HERO_SLOT_RECOMMAND THEN conn[q.by]
                     ELSE [conn[q.by] EXCEPT !.deck = q.got])

\* The answers that are only shown.
OutShown(th) ==
    /\ \E cmd \in {"lslot", "slotlist", "sslot", "rslot", "lhslot", "ghslot", "ihslot"} : Answered(th, cmd)
    /\ DboutOnly(th, conn[Head(queue[th]).by])
=============================================================================
