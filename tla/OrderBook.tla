----------------------------- MODULE OrderBook -----------------------------
(***************************************************************************)
(* The matching engine github.com/ITJHIT/onchain-orderbook, as exchange/   *)
(* uses it: balances with locks, a book of resting orders, matching at the *)
(* resting price in price-time order, and a batch auction at one price.    *)
(* It is a module of its own, not part of this repository: what it does is *)
(* taken from its callers and their tests.  An operation that may be       *)
(* rejected is the set of its outcomes, empty when it is.                  *)
(***************************************************************************)
EXTENDS Integers, Sequences, FiniteSets, FiniteSetsExt, SequencesExt

CONSTANTS Prices, Quantities

Order(id, account, side, price, qty) ==
    [id |-> id, account |-> account, side |-> side, price |-> price, qty |-> qty]

IsBuy(o) == o.side = "buy"
Earlier(x, y) == x[1] < y[1] \/ (x[1] = y[1] /\ x[2] < y[2])

(* Bids best first, then asks best first; within a level the earlier first. *)
Before(x, y) ==
    \/ IsBuy(x) /\ ~IsBuy(y)
    \/ /\ IsBuy(x) <=> IsBuy(y)
       /\ \/ IF IsBuy(x) THEN x.price > y.price ELSE x.price < y.price
          \/ x.price = y.price /\ Earlier(x.id, y.id)

Snapshot(e) == SetToSortSeq(e.book, Before)

NewEngine(credited) == [bal |-> credited, book |-> {}]

Lock(o) == IF IsBuy(o) THEN [base |-> 0, quote |-> o.price * o.qty]
           ELSE [base |-> o.qty, quote |-> 0]

CanLock(e, o) ==
    LET b == e.bal[o.account] IN
    /\ b.quote - b.lockedQuote >= Lock(o).quote
    /\ b.base - b.lockedBase >= Lock(o).base

lock(e, o) == [e EXCEPT !.bal[o.account].lockedBase = @ + Lock(o).base,
                        !.bal[o.account].lockedQuote = @ + Lock(o).quote]
unlock(e, o) == [e EXCEPT !.bal[o.account].lockedBase = @ - Lock(o).base,
                          !.bal[o.account].lockedQuote = @ - Lock(o).quote]

rest(e, o) == IF o.qty = 0 THEN e ELSE [e EXCEPT !.book = @ \cup {o}]

(* n of a bid and of an ask change hands at a price; their locks go down   *)
(* by what the orders had locked for them.                                 *)
settle(e, bid, ask, price, n) ==
    LET open == unlock(unlock(e, [bid EXCEPT !.qty = n]), [ask EXCEPT !.qty = n])
        paid == [open EXCEPT !.bal[bid.account].quote = @ - price * n,
                             !.bal[bid.account].base = @ + n]
    IN  [paid EXCEPT !.bal[ask.account].quote = @ + price * n,
                     !.bal[ask.account].base = @ - n]

Crosses(bid, ask) == bid.price >= ask.price

RECURSIVE matched(_, _)
matched(e, o) ==
    LET against == {r \in e.book : r.side # o.side /\ IF IsBuy(o) THEN Crosses(o, r) ELSE Crosses(r, o)}
        best    == CHOOSE r \in against : \A x \in against : x = r \/ Before(r, x)
        n       == Min({o.qty, best.qty})
        done    == settle(e, IF IsBuy(o) THEN o ELSE best, IF IsBuy(o) THEN best ELSE o, best.price, n)
    IN  IF o.qty = 0 \/ against = {} THEN rest(e, o)
        ELSE matched(rest([done EXCEPT !.book = @ \ {best}], [best EXCEPT !.qty = @ - n]),
                     [o EXCEPT !.qty = @ - n])

(* ApplyPositioned.                                                        *)
Place(e, o) == IF CanLock(e, o) THEN {matched(lock(e, o), o)} ELSE {}
Cancel(e, account, id) ==
    {[unlock(e, o) EXCEPT !.book = @ \ {o}] : o \in {r \in e.book : r.id = id /\ r.account = account}}

StagePlace(e, o) == IF CanLock(e, o) THEN {lock(e, o)} ELSE {}

(* Restore: every stored order is placed anew.                             *)
RECURSIVE Restore(_, _)
Restore(e, orders) ==
    IF orders = <<>> THEN {e}
    ELSE IF CanLock(e, Head(orders))
    THEN Restore(rest(lock(e, Head(orders)), Head(orders)), Tail(orders))
    ELSE {}

Total(orders, qty) == MapThenSumSet(LAMBDA o : qty[o], orders)

(* ClearBatch: as much as can trade at one price does, the better prices   *)
(* of either side first; how orders of one price share it is left open.    *)
ClearBatch(e, staged) ==
    LET all  == e.book \cup staged
        bids == {o \in all : IsBuy(o)}
        asks == all \ bids
        own  == [o \in all |-> o.qty]
        volume(p) == Min({Total({b \in bids : b.price >= p}, own),
                          Total({a \in asks : a.price =< p}, own)})
        most == Max({volume(p) : p \in Prices})
        better(x, y) == x.side = y.side /\ IF IsBuy(x) THEN x.price > y.price ELSE x.price < y.price
        fills(p) == {f \in [all -> {0} \cup Quantities] :
                        /\ \A o \in all : /\ f[o] =< o.qty
                                          /\ f[o] > 0 => IF IsBuy(o) THEN o.price >= p ELSE o.price =< p
                        /\ \A x, y \in all : better(x, y) /\ f[y] > 0 => f[x] = x.qty
                        /\ Total(bids, f) = most
                        /\ Total(asks, f) = most}
        trade(o, d, p, n) ==
            LET u    == unlock(d, [o EXCEPT !.qty = n])
                sign == IF IsBuy(o) THEN 1 ELSE -1
            IN  rest([u EXCEPT !.bal[o.account].quote = @ - sign * p * n,
                               !.bal[o.account].base = @ + sign * n],
                     [o EXCEPT !.qty = @ - n])
        traded(f, p) == FoldSet(LAMBDA o, d : trade(o, d, p, f[o]), [e EXCEPT !.book = {}], all)
    IN  IF most = 0 THEN {[engine |-> [e EXCEPT !.book = all], price |-> 0, volume |-> 0]}
        ELSE UNION {{[engine |-> traded(f, p), price |-> p, volume |-> most] : f \in fills(p)} :
                       p \in {q \in Prices : volume(q) = most}}
=============================================================================
