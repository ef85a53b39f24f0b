------------------------------ MODULE Exchange ------------------------------
(***************************************************************************)
(* exchange/ and its place in the state transition (applyTxsAt): the book  *)
(* in the storage of the exchange account, loaded into the engine and      *)
(* saved again per transaction, or once per block in batch-auction mode,   *)
(* and native transfers beside it.  A block that fails changes nothing.    *)
(* Nonces and the block reward are left out: an order has no value of its  *)
(* own, and the reward is credited after Finish.                           *)
(***************************************************************************)
EXTENDS OrderBook, TLC

CONSTANTS
    Accounts,
    Modes,          \* the ExchangeModes a chain may have
    Alloc,          \* native coin and base asset at genesis
    BaseAlloc,
    MaxInt64,
    Blocks,         \* mode -> the transaction lists that blocks may have
    MaxHeight       \* bound: mode -> blocks of a behaviour

ASSUME ExchangeAssumption ==
    /\ Modes \subseteq {"Continuous", "BatchAuction"}
    /\ Alloc \in [Accounts -> Nat] /\ BaseAlloc \in [Accounts -> Nat]

VARIABLES
    ExchangeMode,
    st,      \* [balance, holdings, slots, size, lastAuction]
    height,
    crossed  \* history: coins that batch blocks moved out of the accounts
             \* their session had read, less what they moved into them

exchangeVars == <<ExchangeMode, st, height, crossed>>

NoOrder == [id |-> <<>>]
NoAuction == [price |-> 0, volume |-> 0, height |-> 0]

(* A genesis as CreditBase leaves it.                                      *)
ExchangeInit ==
    /\ ExchangeMode \in Modes
    /\ st = [balance     |-> Alloc,
             holdings    |-> [a \in Accounts |-> [base |-> BaseAlloc[a], lockedBase |-> 0, lockedQuote |-> 0]],
             slots       |-> [i \in 1..MaxHeight[ExchangeMode] * 2 |-> NoOrder],
             size        |-> 0,
             lastAuction |-> NoAuction]
    /\ height = 0
    /\ crossed = 0

-----------------------------------------------------------------------------
(* Mutant: only the accounts that are named are credited.                  *)
LoadNamed(s, extra) ==
    LET orders == SubSeq(s.slots, 1, s.size)
        addrs  == extra \cup {orders[i].account : i \in 1..s.size}
        credit(a) == [base |-> IF a \in extra THEN s.holdings[a].base ELSE 0,
                      quote |-> IF a \in extra THEN s.balance[a] ELSE 0,
                      lockedBase |-> 0, lockedQuote |-> 0]
    IN  Restore(NewEngine([a \in addrs |-> credit(a)]), orders)

(* Load: the accounts on the book and those named, credited with what the  *)
(* state has for them, and the orders restored.                            *)
Load(s, extra) ==
    LET orders == SubSeq(s.slots, 1, s.size)
        addrs  == extra \cup {orders[i].account : i \in 1..s.size}
        credit(a) == [base |-> s.holdings[a].base, quote |-> s.balance[a],
                      lockedBase |-> 0, lockedQuote |-> 0]
    IN  IF \E a \in addrs : s.balance[a] > MaxInt64 \/ s.holdings[a].base > MaxInt64 THEN {}
        ELSE Restore(NewEngine([a \in addrs |-> credit(a)]), orders)

(* Mutant: slots that the book shrank out of are left as they are.         *)
storedKeeping(s, book) == [i \in DOMAIN s.slots |-> IF i =< Len(book) THEN book[i] ELSE s.slots[i]]

stored(s, book) ==
    [i \in DOMAIN s.slots |->
        CASE i =< Len(book) -> book[i]
          [] i > Len(book) /\ i =< s.size -> NoOrder
          [] OTHER -> s.slots[i]]

(* Mutant: only what is free is written back as the balance.               *)
savedBalanceFree(b) == b.quote - b.lockedQuote

savedBalance(b) == b.quote

(* Mutant: locks are added to the ones on record.                          *)
savedHoldingsAdding(s, a, b) ==
    [base |-> b.base, lockedBase |-> b.lockedBase,
     lockedQuote |-> IF b.lockedQuote = 0 THEN s.holdings[a].lockedQuote ELSE b.lockedQuote]

savedHoldings(s, a, b) ==
    [base |-> b.base, lockedBase |-> b.lockedBase, lockedQuote |-> b.lockedQuote]

Save(s, e) ==
    LET book == Snapshot(e) IN
    [s EXCEPT
        !.slots = stored(s, book),
        !.size = Len(book),
        !.balance = [a \in Accounts |->
                        IF a \in DOMAIN e.bal THEN savedBalance(e.bal[a]) ELSE @[a]],
        !.holdings = [a \in Accounts |->
                        IF a \in DOMAIN e.bal THEN savedHoldings(s, a, e.bal[a]) ELSE @[a]]]

-----------------------------------------------------------------------------
(* A transaction is a transfer, an order, a cancellation, or calldata that *)
(* Decode refuses; the last three are addressed to the exchange.           *)
IsExchangeTx(tx) == tx.kind # "transfer"

OrderOf(tx, position) == Order(position, tx.from, tx.side, tx.price, tx.qty)

(* ApplyPositioned of what Decode makes of the calldata.                   *)
applied(e, tx, position) ==
    CASE tx.kind = "place" -> Place(e, OrderOf(tx, position))
      [] tx.kind = "cancel" -> Cancel(e, tx.from, tx.id)
      [] OTHER -> {}

(* Apply, in continuous mode.                                              *)
Apply(s, tx, position) ==
    UNION {{Save(s, d) : d \in applied(e, tx, position)} : e \in Load(s, {tx.from})}

(* BatchSession.Apply: a cancel takes effect now, a placement is staged.   *)
sessionApply(session, tx, position) ==
    CASE tx.kind = "place" ->
           {[session EXCEPT !.engine = e, !.staged = @ \cup {OrderOf(tx, position)}, !.touched = TRUE] :
               e \in StagePlace(session.engine, OrderOf(tx, position))}
      [] tx.kind = "cancel" ->
           {[session EXCEPT !.engine = e, !.touched = TRUE] :
               e \in Cancel(session.engine, tx.from, tx.id)}
      [] OTHER -> {}

lastAuction(s, summary, h) ==
    IF summary.volume > 0 THEN [price |-> summary.price, volume |-> summary.volume, height |-> h]
    ELSE s.lastAuction

Finish(s, session, h) ==
    IF ~session.touched THEN {s}
    ELSE {[Save(s, c.engine) EXCEPT !.lastAuction = lastAuction(s, c, h)] :
             c \in ClearBatch(session.engine, session.staged)}

transfer(s, tx) ==
    IF s.balance[tx.from] < tx.value THEN {}
    ELSE {[s EXCEPT !.balance = [[@ EXCEPT ![tx.from] = @ - tx.value]
                                     EXCEPT ![tx.to] = @ + tx.value]]}

(* What applyTxsAt goes on with after a transaction: the state, and the    *)
(* session in batch-auction mode.                                          *)
step(x, tx, position) ==
    CASE ~IsExchangeTx(tx) -> {[x EXCEPT !.s = d] : d \in transfer(x.s, tx)}
      [] IsExchangeTx(tx) /\ ExchangeMode = "Continuous" ->
           {[x EXCEPT !.s = d] : d \in Apply(x.s, tx, position)}
      [] IsExchangeTx(tx) /\ ExchangeMode = "BatchAuction" ->
           {[x EXCEPT !.session = d] : d \in sessionApply(x.session, tx, position)}

senders(txs) == {txs[i].from : i \in {j \in 1..Len(txs) : IsExchangeTx(txs[j])}}

(* NewBatchSession, if any transaction of the block needs one.             *)
opened(s, txs) ==
    IF ExchangeMode = "Continuous" \/ senders(txs) = {} THEN {[touched |-> FALSE]}
    ELSE {[engine |-> e, staged |-> {}, touched |-> FALSE] : e \in Load(s, senders(txs))}

applyTxsAt(s, txs, h) ==
    LET after[i \in 0..Len(txs)] ==
          IF i = 0 THEN {[s |-> s, session |-> o] : o \in opened(s, txs)}
          ELSE UNION {step(x, txs[i], <<h, i>>) : x \in after[i - 1]}
    IN  UNION {Finish(x.s, x.session, h) : x \in after[Len(txs)]}

(* What a block's transfers take across the edge of the set of accounts    *)
(* that its batch session reads: the senders of its calls and the accounts *)
(* with an order on the book.                                              *)
crossing(s, txs) ==
    LET inside(a) == a \in senders(txs) \/ \E i \in 1..s.size : s.slots[i].account = a
        out(i) == CASE IsExchangeTx(txs[i]) -> 0
                    [] inside(txs[i].from) /\ ~inside(txs[i].to) -> txs[i].value
                    [] ~inside(txs[i].from) /\ inside(txs[i].to) -> -txs[i].value
                    [] OTHER -> 0
    IN  IF ExchangeMode = "Continuous" \/ senders(txs) = {} THEN 0
        ELSE MapThenSumSet(out, 1..Len(txs))

AddBlock(txs) ==
    /\ height < MaxHeight[ExchangeMode]
    /\ height' = height + 1
    /\ st' \in applyTxsAt(st, txs, height')
    /\ crossed' = crossed + crossing(st, txs)
    /\ UNCHANGED ExchangeMode

ExchangeNext == \E txs \in Blocks[ExchangeMode] : AddBlock(txs)

ExchangeSpec == ExchangeInit /\ [][ExchangeNext]_exchangeVars

-----------------------------------------------------------------------------
resting == SubSeq(st.slots, 1, st.size)

sumOver(S, f(_)) == MapThenSumSet(f, S)

coins == sumOver(Accounts, LAMBDA a : st.balance[a])

(* Whatever orders match, rest and are cancelled, base asset is neither    *)
(* made nor lost, and coins are made or lost by one thing only: Finish     *)
(* writes the balances its session read at the start of the block over     *)
(* what native transfers of the same block did to them, so a batch block   *)
(* that transfers from an account its session has read to one it has not   *)
(* adds the amount to the supply, and the reverse takes it away.  Trades,  *)
(* locks, cancellations and transfers inside or outside the session's      *)
(* accounts, and every block in continuous mode, leave the total alone.    *)
Conserved ==
    /\ coins = sumOver(Accounts, LAMBDA a : Alloc[a]) + crossed
    /\ sumOver(Accounts, LAMBDA a : st.holdings[a].base) = sumOver(Accounts, LAMBDA a : BaseAlloc[a])

(* The locks that BaseOf and LockedQuoteOf report are those of the orders  *)
(* that rest, for every account, also one whose orders were filled,        *)
(* cancelled or lowered by the transactions of others.                     *)
LocksMatchBook ==
    \A a \in Accounts :
        LET mine == {i \in 1..st.size : resting[i].account = a} IN
        /\ st.holdings[a].lockedBase = sumOver(mine, LAMBDA i : Lock(resting[i]).base)
        /\ st.holdings[a].lockedQuote = sumOver(mine, LAMBDA i : Lock(resting[i]).quote)

(* What the state root covers is the book and nothing of how it came to    *)
(* be: orders in canonical order with no bid that crosses an ask, and      *)
(* nothing in the slots past its size ("two nodes that reached the same    *)
(* book by different paths would commit to different roots").              *)
SlotsAreBook ==
    /\ \A i \in DOMAIN st.slots : i > st.size => st.slots[i] = NoOrder
    /\ \A i, j \in 1..st.size :
          i < j => /\ Before(resting[i], resting[j])
                   /\ ~(IsBuy(resting[i]) /\ ~IsBuy(resting[j]) /\ Crosses(resting[i], resting[j]))

(* The stored book can be loaded again ("re-resting the orders             *)
(* re-establishes exactly the locks they held") as long as nobody on it    *)
(* has spent what its orders lock, or has more than an int64.              *)
BookLoads ==
    (\A a \in {resting[i].account : i \in 1..st.size} :
        /\ st.holdings[a].base \in st.holdings[a].lockedBase..MaxInt64
        /\ st.balance[a] \in st.holdings[a].lockedQuote..MaxInt64)
    => Load(st, {}) # {}

(* No block makes or loses coins: "a trade moves real chain balance, not a *)
(* parallel ledger that has to be reconciled".                             *)
NeverReconciled == coins = sumOver(Accounts, LAMBDA a : Alloc[a])

(* The stored book can always be loaded again.                             *)
AlwaysLoads == Load(st, {}) # {}
=============================================================================
