----------------------------- MODULE MCChainPoW -----------------------------
(* A PoW node and every table of Rows blocks on top of genesis with        *)
(* difficulties in Difficulties, some of them malformed or misnumbered.    *)
EXTENDS Chain

CONSTANTS Rows, Difficulties

GenesisRow ==
    [prev |-> NoHash, height |-> 0, coinbase |-> 1, difficulty |-> 1, seed |-> 0,
     attestations |-> <<>>, wellFormed |-> TRUE]

Shapes == {p \in [2..(Rows + 1) -> 1..Rows] : \A b \in DOMAIN p : p[b] < b}

Depth(p, b) ==
    LET d[c \in 1..(Rows + 1)] == IF c = Genesis THEN 0 ELSE d[p[c]] + 1 IN d[b]

(* `bad` names at most one block that is malformed or one height too high. *)
Table(p, diff, bad) ==
    [b \in 1..(Rows + 1) |->
        IF b = Genesis THEN GenesisRow
        ELSE [prev |-> p[b], coinbase |-> 1, seed |-> 0, attestations |-> <<>>,
              height |-> Depth(p, b) + (IF bad = <<b, "height">> THEN 1 ELSE 0),
              difficulty |-> diff[b],
              wellFormed |-> bad # <<b, "wellFormed">>]]

Faults == ((2..(Rows + 1)) \X {"height", "wellFormed"}) \cup {<<0, "none">>}

MCInit ==
    /\ \E p \in Shapes, diff \in [2..(Rows + 1) -> Difficulties], bad \in Faults :
          sealed = Table(p, diff, bad)
    /\ Init

MCSpec == MCInit /\ [][Next]_vars

MCStake == <<1>>
=============================================================================
