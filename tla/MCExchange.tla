----------------------------- MODULE MCExchange -----------------------------
EXTENDS Exchange

MCModes == {"Continuous", "BatchAuction"}
MCMaxHeight == [m \in MCModes |-> IF m = "Continuous" THEN 4 ELSE 2]

Orders ==
    {[kind |-> "place", from |-> a, side |-> s, price |-> p, qty |-> q] :
        a \in Accounts, s \in {"buy", "sell"}, p \in Prices, q \in Quantities}
Cancels(m) ==
    {[kind |-> "cancel", from |-> a, id |-> <<h, i>>] :
        a \in Accounts, h \in 1..(MCMaxHeight[m] - 1), i \in 1..2}
Malformed == {[kind |-> "malformed", from |-> a] : a \in Accounts}
Sends ==
    {[kind |-> "transfer", from |-> a, to |-> b, value |-> 3] : a \in Accounts, b \in Accounts}

listsOf(txs, n) == UNION {[1..k -> txs] : k \in 1..n}
calls(m) == Orders \cup Cancels(m) \cup Malformed

(* Blocks of one transaction, and batches of up to two, of any kinds.      *)
TxLists ==
    [m \in MCModes |-> listsOf(calls(m) \cup Sends, IF m = "Continuous" THEN 1 ELSE 2)]

FourEach == [a \in Accounts |-> 4]
TwoEach == [a \in Accounts |-> 2]
=============================================================================
