---------------------------- MODULE MCFinality ----------------------------
(* One table of nine blocks on two branches that part at genesis, in      *)
(* every order of arrival.  Three validators of equal stake; validator 1   *)
(* proposed both first blocks.  Validators 2 and 3 first vote for the      *)
(* first branch at height 1, then for the second branch at height 2: never *)
(* twice in a round.                                                       *)
EXTENDS Chain

VARIABLE settled    \* the blocks that were finalized and canonical at once

Row(prev, height, coinbase, attestations) ==
    [prev |-> prev, height |-> height, coinbase |-> coinbase, difficulty |-> 0, seed |-> 0,
     attestations |-> attestations, wellFormed |-> TRUE]

BothFor(height, hash) ==
    <<[from |-> 2, height |-> height, hash |-> hash],
      [from |-> 3, height |-> height, hash |-> hash]>>

TwoBranches ==
    <<Row(NoHash, 0, 1, <<>>),
      Row(1, 1, 1, <<>>), Row(1, 1, 1, <<>>),
      Row(2, 2, 2, <<>>), Row(3, 2, 2, <<>>),
      Row(4, 3, 2, BothFor(1, 2)), Row(6, 4, 2, BothFor(2, 5)),
      Row(5, 3, 2, <<>>), Row(8, 4, 2, <<>>), Row(9, 5, 2, <<>>)>>

MCInit ==
    /\ sealed = TwoBranches
    /\ Init
    /\ settled = {}

MCNext ==
    /\ Next
    /\ settled' = settled \cup ({finalizedHash'} \cap headState')

MCSpec == MCInit /\ [][MCNext]_<<vars, settled>>

(* Finality is irreversible: a block that was final while it was canonical *)
(* stays canonical (ErrConflictsWithFinalized: no conflicting branch "can  *)
(* ever become canonical again").                                          *)
FinalityIrreversible == settled \subseteq headState

Equal3 == <<1, 1, 1>>
=============================================================================
