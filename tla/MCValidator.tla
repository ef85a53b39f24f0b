---------------------------- MODULE MCValidator ----------------------------
(* Two validators of equal stake, the second of which may equivocate, and  *)
(* every table of Rows blocks whose proposers are the selected ones, with  *)
(* or without the second jailed.                                           *)
EXTENDS Validator

CONSTANT Rows

Equal2 == <<1, 1>>

Ballots(w) ==
    {<<>>} \cup {<<[from |-> Me, height |-> w[b].height, hash |-> b]>> :
                    b \in {c \in 2..Len(w) : w[c].height % CheckpointInterval = 0}}

NextRows(w) ==
    {r \in [prev : 1..Len(w), height : 1..Len(w), coinbase : Validator, difficulty : {0},
            seed : {0, 1}, attestations : Ballots(w), wellFormed : {TRUE}] :
        /\ r.height = w[r.prev].height + 1
        /\ SelectProposer(r.coinbase, {}, w[r.prev].seed) \/ r.coinbase = Me
        /\ \A i \in 1..Len(r.attestations) : r.attestations[i].height < r.height}

RECURSIVE SealedGrowsFrom(_)
SealedGrowsFrom(w) ==
    IF Len(w) = Rows + 1 THEN sealed = w
    ELSE \E r \in NextRows(w) : SealedGrowsFrom(Append(w, r))

MCInit ==
    /\ \E s \in {0, 1} :
          SealedGrowsFrom(<<[prev |-> NoHash, height |-> 0, coinbase |-> 1, difficulty |-> 0,
                             seed |-> s, attestations |-> <<>>, wellFormed |-> TRUE]>>)
    /\ ValidatorInit

MCSpec == MCInit /\ [][ValidatorNext]_validatorVars /\ WF_validatorVars(MaybeAttest)
=============================================================================
