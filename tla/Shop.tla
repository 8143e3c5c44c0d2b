--------------------------------- MODULE Shop --------------------------------
(***************************************************************************)
(* Buying and selling cards and pieces, drawing from a batch of cards, and *)
(* changing crystal into gold.                                             *)
(***************************************************************************)
EXTENDS Account

Kind == {"card", "piece"}
Price(unit, x) == IF unit = "gold" THEN [gold |-> x, crystal |-> 0] ELSE [gold |-> 0, crystal |-> x]

\* The check of the main loop against the copy of the money.
Has(e, price) == conn[e].gold >= price.gold /\ conn[e].crystal >= price.crystal

------------------------------------------------------------------------------
\* dbin_buy_card(): what has no price is not for sale.
DbinBuyCard(e) ==
    \E kind \in Kind, unit \in Unit, c \in Design.goods, n \in Design.counts :
        LET price == Price(unit, Design.buy[kind][unit] * n) IN
        /\ Design.buy[kind][unit] > 0 /\ Has(e, price)
        /\ DbinWrite(e, "buy", With([kind |-> kind, card |-> c, n |-> n], price))

\* buy_card(), buy_piece(): there must be room, then one update of the item
\* and the money.
BuyCard(r, ok) ==
    LET q == At(r) a == q.a IN
    \/ GetCardCount(r, ok, a.card, 0 .. EVIL_NUM_CARD_MAX - a.n, "buy")
    \/ Write(r, ok, "buy", Affords(q.e, -a.gold, -a.crystal),
             [UpdateMoney(db, q.e, -a.gold, -a.crystal) EXCEPT !.card[q.e][a.card] = @ + a.n],
             "good", "bad")

BuyPiece(r, ok) ==
    LET q == At(r) a == q.a IN
    \/ GetPieceCount(r, ok, "new", a.card, 0 .. EVIL_NUM_PIECE_MAX - a.n, "buy")
    \/ Write(r, ok, "buy", Affords(q.e, -a.gold, -a.crystal),
             Astray([UpdateMoney(db, q.e, -a.gold, -a.crystal) EXCEPT !.piece[q.e][a.card] = @ + a.n],
                    q.e, a.card),
             "good", "bad")

InBuyCard(r, ok) ==
    \/ At(r).a.kind = "card" /\ BuyCard(r, ok)
    \/ At(r).a.kind = "piece" /\ BuyPiece(r, ok)

\* out_buy_card(): the branch for a piece answers and goes on, so that the copy
\* and the missions are told of a card, whichever was bought.
OutBuyCard(th) ==
    LET q == Head(queue[th])
        a == q.a
        u == AddCard(AddMoney(conn[q.by], -a.gold, -a.crystal), a.card, a.n)
    IN /\ Answered(th, "buy")
       /\ DboutUser(th, u, <<<<"shop", a.n, a.card, 0>>, <<"card", u.card[a.card], a.card, 0>>,
                             <<"collection", GetCollection(u.card), 0, 0>>>>)

------------------------------------------------------------------------------
DbinSellCard(e) ==
    \E kind \in Kind, unit \in Unit, c \in Design.goods, n \in Design.counts :
        DbinWrite(e, "sell", With([kind |-> kind, card |-> c, n |-> n],
                                  Price(unit, Design.sell[kind][unit] * n)))

InDeck(e, c) == IF db.deck[e].list = NoDeck THEN 0 ELSE db.deck[e].list[c]

\* sell_card(), sell_piece(): get_card_all_count() or get_piece_count(),
\* then one update, which does not look again.
SellCard(r, ok) ==
    LET q == At(r) a == q.a IN
    \/ Read(r, ok, "new", db.card[q.e][a.card] - InDeck(q.e, a.card) >= a.n, <<>>, "sell", "bad")
    \/ Write(r, ok, "sell", TRUE,
             AstrayAtLimit([UpdateMoney(db, q.e, a.gold, a.crystal) EXCEPT !.card[q.e][a.card] = @ - a.n],
                           q.e, a.card),
             "good", "bad")

SellPiece(r, ok) ==
    LET q == At(r) a == q.a IN
    \/ GetPieceCount(r, ok, "new", a.card, a.n .. EVIL_NUM_PIECE_MAX, "sell")
    \/ Write(r, ok, "sell", TRUE,
             [UpdateMoney(db, q.e, a.gold, a.crystal) EXCEPT !.piece[q.e][a.card] = @ - a.n],
             "good", "bad")

InSellCard(r, ok) ==
    \/ At(r).a.kind = "card" /\ SellCard(r, ok)
    \/ At(r).a.kind = "piece" /\ SellPiece(r, ok)

\* out_sell_card(): of a piece, the card is taken from the copy.
OutSellCard(th) ==
    LET q == Head(queue[th])
        u == AddMoney([conn[q.by] EXCEPT !.deck = NoDeck], q.a.gold, q.a.crystal)
    IN Answered(th, "sell") /\ DboutOnly(th, AddCard(u, q.a.card, -q.a.n))

------------------------------------------------------------------------------
(* A batch is a list of cards of which a pick draws one; those of type 0   *)
(* are paid in gold, of type 1 in crystal.                                 *)

BatchType == {0, 1}
BatchUnit(t) == IF t = 1 THEN "crystal" ELSE "gold"

\* get_random_batch()
GetRandomBatch == [1 .. Design.loc -> Card]

DbinSaveBatch(e, t, list, price) == NewRequest("savebatch", e, With([type |-> t, list |-> list], price))

\* dbin_batch(): a refresh is paid in the copy at once; else the copy is
\* shown, or asked for.
DbinBatch(e) ==
    \/ \E t \in BatchType, list \in GetRandomBatch :
          LET price == Price(BatchUnit(t), Design.refresh) IN
          /\ Has(e, price)
          /\ DbinWriteAll(e, "batch",
                 [AddMoney(conn[e], -price.gold, -price.crystal) EXCEPT !.batch[t] = list],
                 <<DbinSaveBatch(e, t, list, price)>>)
    \/ \E t \in BatchType : conn[e].batch[t] = NoBatch /\ DbinWrite(e, "batch", [type |-> t])

\* in_load_batch()
InLoadBatch(r, ok) == Read(r, ok, "new", TRUE, db.batch[At(r).e][At(r).a.type], "good", "bad")

\* out_batch(): who has none is given one, for nothing.
OutBatch(th) ==
    LET q == Head(queue[th])
        t == q.a.type
    IN /\ Answered(th, "batch")
       /\ \/ q.got # NoBatch /\ DboutOnly(th, [conn[q.by] EXCEPT !.batch[t] = q.got])
          \/ /\ q.got = NoBatch
             /\ \E list \in GetRandomBatch :
                   Dbout(th, [conn EXCEPT ![q.by].batch[t] = list],
                         <<DbinSaveBatch(q.by, t, list, Price("gold", 0))>>)

\* in_save_batch(): the main loop has taken the money from the copy already.
InSaveBatch(r, ok) ==
    LET q == At(r) a == q.a IN
    \/ Write(r, ok, "new", Affords(q.e, -a.gold, -a.crystal),
             UpdateMoney(db, q.e, -a.gold, -a.crystal), "paid", "broke")
    \/ Write(r, ok, "paid", TRUE, [db EXCEPT !.batch[q.e][a.type] = a.list], "good", "broke")

OutSaveBatch(th) == Answered(th, "savebatch") /\ DboutOnly(th, conn[Head(queue[th]).by])

\* dbin_pick(): get_random_loc() chooses.
DbinPick(e) ==
    \E t \in BatchType :
        LET price == Price(BatchUnit(t), Design.pick) IN
        /\ conn[e].batch[t] # NoBatch /\ Has(e, price)
        /\ \E l \in 1 .. Design.loc :
              DbinWrite(e, "pick", With([card |-> conn[e].batch[t][l]], price))

\* in_pick(): of a card that is at its limit there is none, but it is paid.
InPick(r, ok) ==
    LET q == At(r) a == q.a IN
    \/ Write(r, ok, "new", Affords(q.e, -a.gold, -a.crystal),
             UpdateMoney(db, q.e, -a.gold, -a.crystal), "paid", "bad")
    \/ Write(r, ok, "paid", TRUE, UpdateCard(db, q.e, a.card, 1), "good", "broke")

\* out_pick(): the copy of the cards does not learn of the card.
OutPick(th) ==
    LET q == Head(queue[th]) IN
    Answered(th, "pick") /\ DboutOnly(th, AddMoney(conn[q.by], -q.a.gold, -q.a.crystal))

------------------------------------------------------------------------------
\* dbin_money_exchange()
DbinMoneyExchange(e) ==
    \E crystal \in Design.counts :
        /\ conn[e].crystal >= crystal
        /\ DbinWrite(e, "mexchange", [gold |-> crystal * Design.exchange_crystal_gold, crystal |-> -crystal])

InMoneyExchange(r, ok) ==
    LET q == At(r) IN
    Write(r, ok, "new", Affords(q.e, q.a.gold, q.a.crystal),
          UpdateMoney(db, q.e, q.a.gold, q.a.crystal), "good", "bad")

OutMoneyExchange(th) ==
    LET q == Head(queue[th]) IN
    Answered(th, "mexchange") /\ DboutOnly(th, AddMoney(conn[q.by], q.a.gold, q.a.crystal))
=============================================================================
