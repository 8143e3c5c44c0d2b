-------------------------------- MODULE Market -------------------------------
(***************************************************************************)
(* Pieces of cards: the exchange, where users sell them to each other,     *)
(* merging pieces into a card, drawing one from a batch, and the shop of   *)
(* pieces every user is shown.                                             *)
(***************************************************************************)
EXTENDS Decks

DbinLoadPiece(e) == DbinWrite(e, "lpiece", <<>>)
InLoadPiece(r, ok) == Read(r, ok, "new", TRUE, <<>>, "good", "bad")

\* update_piece_ultimate(): reads the count and changes it by as much as fits.
Fits(e, c, n) == Clip(db.piece[e][c] + n, EVIL_NUM_PIECE_MAX) - db.piece[e][c]

UpdatePieceUltimate(r, ok, at, put, e, c, n, then, no) ==
    \/ Read(r, ok, at, TRUE, <<Fits(e, c, n)>>, put, no)
    \/ /\ ok /\ At(r).at = put /\ At(r).got = <<0>>
       /\ UNCHANGED <<db, lapse>> /\ Goes(r, then, <<>>)
    \/ /\ At(r).at = put /\ At(r).got # <<0>>
       /\ LET fit == At(r).got[1] IN
          Write(r, ok, put, db.piece[e][c] + fit \in 0 .. EVIL_NUM_PIECE_MAX,
                [db EXCEPT !.piece[e][c] = @ + fit], then, no)

------------------------------------------------------------------------------
(* The exchange: db.exchange has the offers by number.                     *)

Offer == DOMAIN db.exchange

\* dbin_xcadd(): a price in one of the units.
DbinXcadd(e) ==
    \E c \in Design.goods, n \in Design.counts, unit \in Unit :
        DbinWrite(e, "xcadd", With([card |-> c, n |-> n], Price(unit, Design.offer)))

\* in_add_exchange_piece(): the pieces are taken, then the offer is made.
InAddExchangePiece(r, ok) ==
    LET q == At(r) a == q.a IN
    \/ Write(r, ok, "new", MayUpdatePiece(q.e, a.card, -a.n),
             UpdatePiece(db, q.e, a.card, -a.n), "taken", "bad")
    \/ Write(r, ok, "taken", TRUE,
             [db EXCEPT !.exchange = With(@, [x \in {db.offers + 1} |-> With(a, [eid |-> q.e])]),
                        !.offers = @ + 1],
             "good", "broke")

\* out_xcadd(): the copy of the deck is forgotten.
OutXcadd(th) == Answered(th, "xcadd") /\ DboutOnly(th, [conn[Head(queue[th]).by] EXCEPT !.deck = NoDeck])

DbinXcbuy(e) ==
    \E x \in 1 .. db.offers, n \in Design.counts : DbinWrite(e, "xcbuy", [offer |-> x, n |-> n])

\* Mutant: the buyer's money is not asked for.
BuyExchangeOnCredit(r, ok) ==
    LET q == At(r) n == q.a.n sale == q.got[1]
        gold == sale.gold * n
        crystal == sale.crystal * n
    IN
    \/ Write(r, ok, "buy", db.piece[q.e][sale.card] < EVIL_NUM_PIECE_MAX,
             UpdateMoney(UpdatePiece(db, q.e, sale.card, n), sale.eid, gold, crystal), "count", "bad")
    \/ /\ sale.n > n
       /\ Write(r, ok, "count", q.a.offer \in Offer,
                [db EXCEPT !.exchange[q.a.offer].n = sale.n - n], "good", "broke")
    \/ /\ sale.n <= n
       /\ Write(r, ok, "count", q.a.offer \in Offer,
                [db EXCEPT !.exchange = Restrict(@, Offer \ {q.a.offer})], "good", "broke")

\* buy_exchange(): pieces and money change hands at once, as the offer was
\* when it was read; then what is left of it is written.
BuyExchange(r, ok) ==
    LET q == At(r) n == q.a.n sale == q.got[1]
        gold == sale.gold * n
        crystal == sale.crystal * n
    IN
    \/ Write(r, ok, "buy", Affords(q.e, -gold, -crystal) /\ db.piece[q.e][sale.card] < EVIL_NUM_PIECE_MAX,
             UpdateMoney(UpdateMoney([db EXCEPT !.piece[q.e][sale.card] = @ + n], q.e, -gold, -crystal),
                         sale.eid, gold, crystal), "count", "bad")
    \/ /\ sale.n > n
       /\ Write(r, ok, "count", q.a.offer \in Offer,
                [db EXCEPT !.exchange[q.a.offer].n = sale.n - n], "good", "broke")
    \/ /\ sale.n <= n
       /\ Write(r, ok, "count", q.a.offer \in Offer,
                [db EXCEPT !.exchange = Restrict(@, Offer \ {q.a.offer})], "good", "broke")

\* in_buy_exchange_piece(): get_exchange(), not one's own and not more than
\* there is; get_piece_count(); buy_exchange().
InBuyExchangePiece(r, ok) ==
    LET q == At(r) IN
    \/ /\ q.a.offer \in Offer
       /\ LET sale == db.exchange[q.a.offer] IN
          Read(r, ok, "new", sale.eid # q.e /\ q.a.n <= sale.n, <<sale>>, "pieces", "bad")
    \/ q.a.offer \notin Offer /\ Read(r, ok, "new", FALSE, <<>>, "bad", "bad")
    \/ /\ q.at = "pieces"
       /\ GetPieceCount(r, ok, "pieces", q.got[1].card, 0 .. EVIL_NUM_PIECE_MAX - q.a.n, "buy")
    \/ q.at \in {"buy", "count"} /\ BuyExchange(r, ok)

\* out_xcbuy(): the price of one piece, however many, to both copies.
OutXcbuy(th) ==
    LET q == Head(queue[th])
        sale == q.got[1]
        paid == [conn EXCEPT ![q.by] = AddMoney(@, -sale.gold, -sale.crystal)]
    IN /\ Answered(th, "xcbuy")
       /\ queue' = NextReply(th)
       /\ conn' = [IF ~conn[sale.eid].up THEN paid
                   ELSE [paid EXCEPT ![sale.eid] = AddMoney(@, sale.gold, sale.crystal)]
                  EXCEPT ![q.by].busy = FALSE]
       /\ lapse' = (lapse \/ q.a.n > 1)
       /\ UNCHANGED <<bounds, now, db>>

DbinXclist(e) == DbinWrite(e, "xclist", <<>>)
InListExchange(r, ok) == Read(r, ok, "new", TRUE, <<>>, "good", "bad")

\* admin_xcreset(): the offers made before a time.
AdminXcreset(e) == \E x \in 1 .. db.offers : DbinOffice("xcreset", e, [offer |-> x])

\* get_timeout_exchange(): the offers as they are now.
GetTimeoutExchange(last) == [x \in {y \in Offer : y <= last} |-> db.exchange[x]]

\* in_reset_exchange(): each seller is given the pieces back as far as they
\* fit, and whether or not that succeeds the offer is deleted.
InResetExchange(r, ok) ==
    LET q == At(r)
        left == DOMAIN q.got.offers
        first == CHOOSE x \in left : \A y \in left : x <= y
        sale == q.got.offers[first]
        fit == Fits(sale.eid, sale.card, sale.n)
    IN
    \/ Read(r, ok, "new", TRUE, [offers |-> GetTimeoutExchange(q.a.offer), fit |-> 0], "next", "bad")
    \/ ok /\ q.at = "next" /\ left = {} /\ Goes(r, "good", <<>>) /\ UNCHANGED <<db, lapse>>
    \/ /\ q.at = "next" /\ left # {}
       /\ Goes(r, IF ok /\ fit # 0 THEN "give" ELSE "delete", [q.got EXCEPT !.fit = fit])
       /\ UNCHANGED db /\ lapse' = (lapse \/ ~ok)
    \/ Try(r, ok, "give", db.piece[sale.eid][sale.card] + q.got.fit <= EVIL_NUM_PIECE_MAX,
           [db EXCEPT !.piece[sale.eid][sale.card] = @ + q.got.fit], "delete")
    \/ /\ q.at = "delete"
       /\ IF ok /\ first \in Offer
          THEN /\ db' = [db EXCEPT !.exchange = Restrict(@, Offer \ {first})]
               /\ Goes(r, "next", [q.got EXCEPT !.offers = Restrict(@, left \ {first})])
               /\ UNCHANGED lapse
          ELSE UNCHANGED db /\ Goes(r, "broke", <<>>) /\ lapse' = TRUE

------------------------------------------------------------------------------
(* Merging and drawing pieces.                                             *)

DbinMergePiece(e) ==
    \E c \in DOMAIN Design.merge :
        LET merge == Design.merge[c] IN
        Has(e, merge) /\ DbinWrite(e, "mpiece", With([card |-> c], merge))

\* in_merge_piece(): pieces, card, money; what fails is made good.
InMergePiece(r, ok) ==
    LET q == At(r) a == q.a IN
    \/ Write(r, ok, "new", MayUpdatePiece(q.e, a.card, -a.n), UpdatePiece(db, q.e, a.card, -a.n), "taken", "bad")
    \/ Write(r, ok, "taken", db.card[q.e][a.card] + 1 \in 0 .. EVIL_NUM_CARD_MAX, UpdateCard(db, q.e, a.card, 1),
             "merged", "back")
    \/ Try(r, ok, "back", MayUpdatePiece(q.e, a.card, a.n), UpdatePiece(db, q.e, a.card, a.n), "bad")
    \/ Write(r, ok, "merged", Affords(q.e, -a.gold, -a.crystal),
             UpdateMoney(db, q.e, -a.gold, -a.crystal), "good", "undo")
    \/ Try(r, ok, "undo", MayUpdatePiece(q.e, a.card, a.n), UpdatePiece(db, q.e, a.card, a.n), "undo2")
    \/ Try(r, ok, "undo2", db.card[q.e][a.card] > 0, UpdateCard(db, q.e, a.card, -1), "bad")

\* out_merge_piece(), out_pick_piece(): the copy of the money; not the card.
OutPaid(th) ==
    LET q == Head(queue[th]) IN
    /\ \E cmd \in {"mpiece", "ppiece"} : Answered(th, cmd)
    /\ DboutOnly(th, AddMoney(conn[q.by], -q.a.gold, -q.a.crystal))

DbinPickPiece(e) ==
    \E t \in BatchType :
        LET price == Price(BatchUnit(t), Design.pick) IN
        /\ conn[e].batch[t] # NoBatch /\ Has(e, price)
        /\ \E l \in 1 .. Design.loc :
              DbinWrite(e, "ppiece", With([card |-> conn[e].batch[t][l]], price))

InPickPiece(r, ok) ==
    LET q == At(r) a == q.a IN
    \/ Write(r, ok, "new", Affords(q.e, -a.gold, -a.crystal),
             UpdateMoney(db, q.e, -a.gold, -a.crystal), "paid", "bad")
    \/ UpdatePieceUltimate(r, ok, "paid", "give", q.e, a.card, 1, "good", "broke")

------------------------------------------------------------------------------
(* The shop of pieces: a row of items of g_design, each sold once; it      *)
(* changes with time or for gold.  last is when it changed, plus one.      *)

NoPieceShop == [last |-> 0, refreshed |-> 0, shown |-> 0, items |-> <<>>, bought |-> {}]
RowLength == 1 .. Design.pieces_shown

\* __random_piece_shop()
RandomPieceShop == {items \in [RowLength -> DOMAIN Design.pitem] : IsInjective(items)}

\* update_piece_shop(): with the day the price of a change is reset.
OtherDay(shop) == (shop.last - 1) \div 2 < now \div 2
Due(shop) == shop.last = 0 \/ now - (shop.last - 1) >= Design.pshop_reset_interval
UpdatePieceShop(shop, items) ==
    LET today == IF OtherDay(shop) THEN [shop EXCEPT !.refreshed = 0] ELSE shop IN
    IF Due(shop) THEN [today EXCEPT !.shown = @ + 1, !.items = items, !.bought = {}, !.last = now + 1]
    ELSE today

\* dbin_piece_shop(): loaded once, shown while it is not due.
DbinPieceShop(e) ==
    LET shop == conn[e].shop IN
    \/ shop.last = 0 /\ DbinWrite(e, "pshop", <<>>)
    \/ /\ shop.last # 0
       /\ \E items \in RandomPieceShop :
             LET new == UpdatePieceShop(shop, items) IN
             /\ Due(shop) \/ OtherDay(shop)
             /\ DbinWriteAll(e, "pshop", conn[e], <<NewRequest("upshop", e, [shop |-> new])>>)

InGetPieceShop(r, ok) == Read(r, ok, "new", TRUE, <<db.pshop[At(r).e]>>, "good", "bad")
InUpdatePieceShop(r, ok) ==
    Write(r, ok, "new", TRUE, [db EXCEPT !.pshop[At(r).e] = At(r).a.shop], "good", "bad")

\* out_piece_shop(), of either: updated again, and if that changes it, written.
OutPieceShop(th) ==
    LET q == Head(queue[th])
        shop == IF q.cmd = "pshop" THEN q.got[1] ELSE q.a.shop
    IN /\ Answered(th, "pshop") \/ Answered(th, "upshop")
       /\ \E items \in RandomPieceShop :
             LET new == UpdatePieceShop(shop, items) IN
             IF new # shop THEN Dbout(th, conn, <<NewRequest("upshop", q.by, [shop |-> new])>>)
             ELSE DboutOnly(th, [conn[q.by] EXCEPT !.shop = shop])

\* dbin_refresh_piece_shop(): dearer each time of a day.
RefreshGold(shop) == Clip(2 ^ shop.refreshed * Design.pshop_refresh_gold, Design.pshop_max_refresh_gold)
DbinRefreshPieceShop(e) ==
    LET shop == conn[e].shop IN
    /\ shop.last # 0 /\ conn[e].gold >= RefreshGold(shop)
    /\ \E items \in RandomPieceShop :
          DbinWrite(e, "rpshop", [gold |-> RefreshGold(shop),
              shop |-> [last |-> now + 1, refreshed |-> shop.refreshed + 1, shown |-> shop.shown + 1,
                        items |-> items, bought |-> {}]])

InRefreshPieceShop(r, ok) ==
    LET q == At(r) IN
    \/ Write(r, ok, "new", Affords(q.e, -q.a.gold, 0), UpdateMoney(db, q.e, -q.a.gold, 0), "paid", "bad")
    \/ Write(r, ok, "paid", TRUE, [db EXCEPT !.pshop[q.e] = q.a.shop], "good", "broke")

OutRefreshPieceShop(th) ==
    LET q == Head(queue[th]) IN
    /\ Answered(th, "rpshop")
    /\ DboutOnly(th, AddMoney([conn[q.by] EXCEPT !.shop = q.a.shop], -q.a.gold, 0))

\* g_design->piece_shop_list[]: an entry the design has not is empty.
PieceShopItem(pid) ==
    IF pid \in DOMAIN Design.pitem THEN Design.pitem[pid] ELSE [card |-> 0, n |-> 0, gold |-> 0, crystal |-> 0]

DbinPieceBuy(e) ==
    LET shop == conn[e].shop IN
    /\ shop.last # 0
    /\ \E pos \in RowLength \ shop.bought :
          LET item == PieceShopItem(shop.items[pos]) IN
          Has(e, item) /\ DbinWrite(e, "pbuy", With([pos |-> pos], item))

\* in_piece_buy(): the mark is set first, if it was not; then the money; then
\* the piece, and who has as many as he may have pays for none.
InPieceBuy(r, ok) ==
    LET q == At(r) a == q.a IN
    \/ Write(r, ok, "new", a.pos \notin db.pshop[q.e].bought,
             Given([db EXCEPT !.pshop[q.e].bought = @ \cup {a.pos}],
                   <<"pshop", q.e, db.pshop[q.e].shown, a.pos>>), "marked", "bad")
    \/ Write(r, ok, "marked", Affords(q.e, -a.gold, -a.crystal),
             UpdateMoney(db, q.e, -a.gold, -a.crystal), "paid", "broke")
    \/ Write(r, ok, "paid", MayUpdatePiece(q.e, a.card, a.n), UpdatePiece(db, q.e, a.card, a.n), "good", "broke")

OutPieceBuy(th) ==
    LET q == Head(queue[th]) IN
    /\ Answered(th, "pbuy")
    /\ DboutOnly(th, AddMoney([conn[q.by] EXCEPT !.shop.bought = @ \cup {q.a.pos}], -q.a.gold, -q.a.crystal))
=============================================================================
