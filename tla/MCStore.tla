------------------------------ MODULE MCStore ------------------------------
(* A persistent node and every table of blocks on top of genesis of each   *)
(* kind in Kinds.                                                          *)
EXTENDS Store

CONSTANT Kinds

Row(prev, height, difficulty) ==
    [prev |-> prev, height |-> height, coinbase |-> 1, difficulty |-> difficulty, seed |-> 0,
     attestations |-> <<>>, wellFormed |-> TRUE]

RECURSIVE SealedGrowsFrom(_, _)
SealedGrowsFrom(kind, w) ==
    IF Len(w) = kind.rows + 1 THEN sealed = w
    ELSE \E p \in 1..Len(w), d \in kind.difficulties :
            SealedGrowsFrom(kind, Append(w, Row(p, w[p].height + 1, d)))

(* With the default chain id it makes no difference which blocks have      *)
(* transactions.                                                           *)
MCInit ==
    /\ \E kind \in Kinds :
          /\ SealedGrowsFrom(kind, <<Row(NoHash, 0, 1)>>)
          /\ defaultID = kind.defaultID
          /\ carriesTxs \in IF kind.defaultID THEN {{}} ELSE SUBSET (2..(kind.rows + 1))
    /\ StoreInit

MCSpec == MCInit /\ [][StoreNext]_storeVars

Default == [defaultID |-> TRUE, rows |-> 4, difficulties |-> {0, 1}]
Heavier == [defaultID |-> TRUE, rows |-> 3, difficulties |-> {0, 1, 2}]
OtherID == [defaultID |-> FALSE, rows |-> 2, difficulties |-> {0, 1, 2}]
AllKinds == {Default, Heavier, OtherID}
SmallKinds == {Heavier, OtherID}
MCStake == <<1>>
=============================================================================
