----------------------------- MODULE MCReplicas -----------------------------
(* Two nodes and every table on top of genesis of each kind in Kinds: any  *)
(* parent, proposers, difficulties, votes and malformed blocks as the kind *)
(* has them, seed 0.                                                       *)
EXTENDS Replicas

CONSTANT Kinds

GenesisRow ==
    [prev |-> 0, height |-> 0, coinbase |-> 1, difficulty |-> 0, seed |-> 0,
     attestations |-> <<>>, wellFormed |-> TRUE]

NextRows(kind, w) ==
    {r \in [prev : 1..Len(w), height : 1..Len(w), coinbase : kind.proposers,
            difficulty : kind.difficulties, seed : {0}, attestations : kind.votes,
            wellFormed : kind.wellFormed] : r.height = w[r.prev].height + 1}

RECURSIVE SealedGrowsFrom(_, _)
SealedGrowsFrom(kind, w) ==
    IF Len(w) = kind.rows + 1 THEN sealed = w
    ELSE \E r \in NextRows(kind, w) : SealedGrowsFrom(kind, Append(w, r))

MCInit ==
    /\ \E kind \in Kinds : mode = kind.mode /\ SealedGrowsFrom(kind, <<GenesisRow>>)
    /\ Init

MCSpec == MCInit /\ [][Next]_vars

Equal3 == <<1, 1, 1>>

Vote(v, b) == [from |-> v, height |-> 1, hash |-> b]

(* Trees of work; proposals of which some are malformed; more of them, so  *)
(* that evidence against a proposer can come before and after its blocks;  *)
(* and blocks with votes that make block 2 final, or block 3.              *)
Work == [mode |-> "PoW", rows |-> 4, proposers |-> {1}, difficulties |-> {1, 2},
         votes |-> {<<>>}, wellFormed |-> {TRUE}]
Proposals == [mode |-> "PoS", rows |-> 4, proposers |-> {1, 2}, difficulties |-> {0},
              votes |-> {<<>>}, wellFormed |-> {TRUE, FALSE}]
MoreProposals == [Proposals EXCEPT !.rows = 5, !.wellFormed = {TRUE}]
Voted == [Proposals EXCEPT !.wellFormed = {TRUE},
              !.votes = {<<>>, <<Vote(1, 2), Vote(2, 2)>>, <<Vote(2, 3), Vote(3, 3)>>}]
AllKinds == {Work, Proposals, MoreProposals, Voted}
=============================================================================
