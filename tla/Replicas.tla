------------------------------ MODULE Replicas ------------------------------
(***************************************************************************)
(* Two nodes, A and B, of one network: two chain.Chain instances with the  *)
(* same configuration that are offered blocks of the same table, each in   *)
(* its own order and as often as gossip and sync repeat them               *)
(* (AcceptExternalBlock).  A node keeps nothing of a block it turns away,  *)
(* so a block may be accepted later that was refused before.               *)
(***************************************************************************)
EXTENDS Integers, Sequences

CONSTANTS Stake, CheckpointInterval, MaxBlocks

ASSUME ReplicasAssumption ==
    /\ Stake \in Seq(Nat \ {0}) /\ Len(Stake) > 0
    /\ CheckpointInterval \in Nat \ {0}
    /\ MaxBlocks \in Nat \ {0}

VARIABLES
    mode,    \* the ConsensusMode of their genesis
    sealed,
    blocksA, tdA, headA, headStateA, heightIndexA, attestedRoundA, checkpointStakeA,
    finalizedHashA, finalizedHeightA, jailedA, proposedAtHeightA,
    blocksB, tdB, headB, headStateB, heightIndexB, attestedRoundB, checkpointStakeB,
    finalizedHashB, finalizedHeightB, jailedB, proposedAtHeightB

A(m) == INSTANCE Chain WITH Mode <- m,
        blocks <- blocksA, td <- tdA, head <- headA, headState <- headStateA,
        heightIndex <- heightIndexA, attestedRound <- attestedRoundA,
        checkpointStake <- checkpointStakeA, finalizedHash <- finalizedHashA,
        finalizedHeight <- finalizedHeightA, jailed <- jailedA,
        proposedAtHeight <- proposedAtHeightA

B(m) == INSTANCE Chain WITH Mode <- m,
        blocks <- blocksB, td <- tdB, head <- headB, headState <- headStateB,
        heightIndex <- heightIndexB, attestedRound <- attestedRoundB,
        checkpointStake <- checkpointStakeB, finalizedHash <- finalizedHashB,
        finalizedHeight <- finalizedHeightB, jailed <- jailedB,
        proposedAtHeight <- proposedAtHeightB

nodeA == <<blocksA, tdA, headA, headStateA, heightIndexA, attestedRoundA, checkpointStakeA,
           finalizedHashA, finalizedHeightA, jailedA, proposedAtHeightA>>
nodeB == <<blocksB, tdB, headB, headStateB, heightIndexB, attestedRoundB, checkpointStakeB,
           finalizedHashB, finalizedHeightB, jailedB, proposedAtHeightB>>
vars == <<mode, sealed, nodeA, nodeB>>

Modes == {"PoW", "PoS"}
NoHash == 0

Init == \E m \in Modes : mode = m /\ A(m)!Init /\ B(m)!Init

AcceptA(b) == (\E m \in Modes : mode = m /\ A(m)!AddBlock(b)) /\ UNCHANGED <<mode, nodeB>>
AcceptB(b) == (\E m \in Modes : mode = m /\ B(m)!AddBlock(b)) /\ UNCHANGED <<mode, nodeA>>

Next == \E b \in 2..Len(sealed) : AcceptA(b) \/ AcceptB(b)

Spec == Init /\ [][Next]_vars

-----------------------------------------------------------------------------
(* Neither node would accept anything more of what exists, however often   *)
(* it is offered.                                                          *)
Quiescent ==
    \A m \in Modes : mode = m => \A b \in 2..Len(sealed) : ~A(m)!IsValid(b) /\ ~B(m)!IsValid(b)

(* What a node holds determines what it believes: nodes that accepted the  *)
(* same blocks, in whatever orders, jail the same validators, weigh every  *)
(* block alike and have equally heavy heads.                               *)
SameBlocksSameView ==
    blocksA = blocksB =>
        /\ jailedA = jailedB
        /\ tdA = tdB
        /\ tdA[headA] = tdB[headB]

(* Once everything has been delivered to both nodes they hold the same     *)
(* blocks: AddBlock's verdict depends on the order of arrival by way of    *)
(* the jail and of finality only.                                          *)
DeliveredAgree ==
    /\ Quiescent
    /\ mode = "PoS" => jailedA = {} \/ jailedB = {}
    /\ finalizedHashA = NoHash /\ finalizedHashB = NoHash
    => blocksA = blocksB

(* The exclusion of jailed validators is the same everywhere once          *)
(* everything has been delivered (EffectiveStake: "jailed itself is        *)
(* derived identically on every node").                                    *)
SameExclusions == Quiescent => jailedA = jailedB
=============================================================================
