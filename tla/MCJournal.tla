----------------------------- MODULE MCJournal -----------------------------
EXTENDS Journal

CONSTANTS a, b

Both == {a, b}
OnlyB == {b}

table(balances, nonces, codes, storages) ==
    [p \in AccountParts |->
       CASE p = "balance" -> balances
         [] p = "nonce" -> nonces
         [] p = "code" -> codes
         [] p = "storage" -> storages]

of(x, y) == [i \in Both |-> IF i = a THEN x ELSE y]

(* A sender beside a contract of either VM, and beside nothing.            *)
Tables == {table(of(2, 2), of(0, 1), of(NoCode, Tagged), of(0, 1)),
           table(of(2, 0), of(0, 1), of(NoCode, Native), of(0, 1)),
           table(of(1, 0), of(0, 0), of(NoCode, NoCode), of(0, 0))}
=============================================================================
