----------------------------- MODULE MCChainPoS -----------------------------
(* A PoS node and every table of Rows blocks on top of genesis, built row  *)
(* by row, of each kind in Kinds: any parent, proposers and seeds as the   *)
(* kind has them, and at most one vote of each of its voters per block.    *)
EXTENDS Chain, FiniteSetsExt, SequencesExt

CONSTANTS Rows, Kinds

(* What a validator may vote for in the next row of w: an earlier block at *)
(* its own height, or one of the hash and height pairs in targets.         *)
Votes(kind, w) ==
    {[height |-> w[b].height, hash |-> b] : b \in 2..Len(w)}
        \cup {t \in kind.targets : t.hash =< Len(w)}

Ballots(kind, w) ==
    LET none == [height |-> 0, hash |-> NoHash]
        list(choice) ==
            LET voting == SetToSortSeq({v \in kind.voters : choice[v] # none}, <)
            IN  [i \in 1..Len(voting) |->
                    [from |-> voting[i], height |-> choice[voting[i]].height,
                     hash |-> choice[voting[i]].hash]]
    IN  {list(choice) : choice \in [kind.voters -> Votes(kind, w) \cup {none}]}

(* A vote for the block's own height or above makes AddBlock reject the    *)
(* block; tables are spared all but the first such height.                 *)
NextRows(kind, w) ==
    {r \in [prev : 1..Len(w), height : 1..Len(w), coinbase : kind.proposers, difficulty : {0},
            seed : kind.seeds, attestations : Ballots(kind, w), wellFormed : {TRUE}] :
        /\ r.height = w[r.prev].height + 1
        /\ \A i \in 1..Len(r.attestations) : r.attestations[i].height =< r.height}

GenesisRow(seed) ==
    [prev |-> NoHash, height |-> 0, coinbase |-> 1, difficulty |-> 0, seed |-> seed,
     attestations |-> <<>>, wellFormed |-> TRUE]

RECURSIVE SealedGrowsFrom(_, _)
SealedGrowsFrom(kind, w) ==
    IF Len(w) = Rows + 1 THEN sealed = w
    ELSE \E r \in NextRows(kind, w) : SealedGrowsFrom(kind, Append(w, r))

MCInit ==
    /\ \E kind \in Kinds : \E seed \in kind.seeds : SealedGrowsFrom(kind, <<GenesisRow(seed)>>)
    /\ Init

MCSpec == MCInit /\ [][Next]_vars

(* Two accepted blocks on one parent mean that somebody double-proposed    *)
(* (AddBlock's comment on weight: the proposer selection "guarantees at    *)
(* most one legitimately-signed block per height; the only way a real fork *)
(* arises is a validator equivocating (double-proposing)").                *)
ForksAreDoubleProposals ==
    (\E b, c \in blocks \ {Genesis} : b # c /\ sealed[b].prev = sealed[c].prev)
        => \E v \in Validator : DoublePropose(v)

(* A finalized checkpoint has two thirds of the stake behind it, each      *)
(* validator counted once (recordAttestations: a hash is finalized "once a *)
(* target crosses 2/3 of the EFFECTIVE (non-jailed) validator set's total  *)
(* stake").                                                                *)
QuorumOfValidators ==
    finalizedHash # NoHash => BackingStake(finalizedHash) * 3 >= EffectiveStake(jailed) * 2

Equal3 == <<1, 1, 1>>

(* No votes: every fork there is.  Votes of two validators, enough for a   *)
(* checkpoint.  A proposer that votes, also for a block that nobody has.   *)
(* A validator that votes for one block under two heights.                 *)
Proposals == [proposers |-> {1, 2, 3}, seeds |-> {0, 1}, voters |-> {}, targets |-> {}]
Attestations == [proposers |-> {1, 2}, seeds |-> {0}, voters |-> {2, 3}, targets |-> {}]
Incrimination ==
    [proposers |-> {1, 2}, seeds |-> {0}, voters |-> {1},
     targets |-> {[height |-> 1, hash |-> UnknownHash]}]
Repetition ==
    [proposers |-> {1}, seeds |-> {0}, voters |-> {2}, targets |-> {[height |-> 2, hash |-> 2]}]
AllKinds == {Proposals, Attestations, Incrimination, Repetition}
=============================================================================
