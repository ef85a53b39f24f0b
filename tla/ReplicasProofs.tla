--------------------------- MODULE ReplicasProofs ---------------------------
(***************************************************************************)
(* Two nodes agree, for every registry, interval, table and order of       *)
(* arrival.  What is proved of one chain.Chain in ChainProofs is taken for *)
(* each of the two; Mode is the mode their genesis has, whichever it is.   *)
(***************************************************************************)
EXTENDS Replicas, TLAPS

CONSTANT Mode

CA == INSTANCE ChainProofs WITH
        blocks <- blocksA, td <- tdA, head <- headA, headState <- headStateA,
        heightIndex <- heightIndexA, attestedRound <- attestedRoundA,
        checkpointStake <- checkpointStakeA, finalizedHash <- finalizedHashA,
        finalizedHeight <- finalizedHeightA, jailed <- jailedA,
        proposedAtHeight <- proposedAtHeightA

CB == INSTANCE ChainProofs WITH
        blocks <- blocksB, td <- tdB, head <- headB, headState <- headStateB,
        heightIndex <- heightIndexB, attestedRound <- attestedRoundB,
        checkpointStake <- checkpointStakeB, finalizedHash <- finalizedHashB,
        finalizedHeight <- finalizedHeightB, jailed <- jailedB,
        proposedAtHeight <- proposedAtHeightB

(* The node of Replicas is the one that ChainProofs speaks of.             *)
LEMMA InitA == A(Mode)!Init => CA!Init
BY DEF CA!Init, A!Init, CA!Genesis, A!Genesis, CA!rebuildIndex, A!rebuildIndex,
       CA!IsTable, A!IsTable, CA!Block, A!Block, CA!Hash, A!Hash, CA!BlockHash, A!BlockHash,
       CA!NoHash, A!NoHash, CA!UnknownHash, A!UnknownHash, CA!Validator, A!Validator,
       CA!Attestation, A!Attestation

LEMMA ValidA == ASSUME NEW b PROVE A(Mode)!IsValid(b) <=> CA!IsValid(b)
BY DEF CA!IsValid, A!IsValid, CA!respectsFinality, A!respectsFinality, CA!chainTo, A!chainTo,
       CA!SelectProposer, A!SelectProposer, CA!EffectiveStake, A!EffectiveStake,
       CA!cumulativeStake, A!cumulativeStake, CA!verifyAttestations, A!verifyAttestations,
       CA!NoHash, A!NoHash, CA!Genesis, A!Genesis

LEMMA AddBlockA == ASSUME NEW b, A(Mode)!AddBlock(b) PROVE CA!AddBlock(b)
BY ValidA DEF CA!AddBlock, A!AddBlock, CA!weight, A!weight, CA!Finality, A!Finality,
       CA!Reorg, A!Reorg, CA!recordAttestations, A!recordAttestations, CA!tallies, A!tallies,
       CA!recordAttestation, A!recordAttestation, CA!tally, A!tally, CA!VoteOf, A!VoteOf,
       CA!CheckpointRound, A!CheckpointRound, CA!Voted, A!Voted, CA!Finalizes, A!Finalizes,
       CA!EffectiveStake, A!EffectiveStake, CA!cumulativeStake, A!cumulativeStake,
       CA!Proposal, A!Proposal, CA!Proposed, A!Proposed, CA!Equivocators, A!Equivocators,
       CA!rebuildIndex, A!rebuildIndex, CA!chainTo, A!chainTo, CA!Genesis, A!Genesis

LEMMA StepA ==
    ASSUME mode = Mode, [Next]_vars
    PROVE  [CA!Next]_(CA!vars) /\ mode' = mode
<1>1. CASE UNCHANGED vars
  BY <1>1 DEF vars, nodeA, CA!vars
<1>2. ASSUME NEW b \in 2..Len(sealed), AcceptA(b) PROVE CA!Next /\ mode' = mode
  <2>1. A(Mode)!AddBlock(b) /\ mode' = mode
    BY <1>2 DEF AcceptA
  <2> QED BY <2>1, AddBlockA DEF CA!Next
<1>3. ASSUME NEW b \in 2..Len(sealed), AcceptB(b) PROVE UNCHANGED CA!vars /\ mode' = mode
  <2>1. UNCHANGED <<mode, nodeA>> /\ sealed' = sealed
    BY <1>3 DEF AcceptB, B!AddBlock
  <2> QED BY <2>1 DEF nodeA, CA!vars
<1> QED BY <1>1, <1>2, <1>3 DEF Next

LEMMA ViewOfA ==
    ASSUME Mode \in Modes PROVE Spec /\ mode = Mode => []CA!View(blocksA, tdA, headA, jailedA)
<1>1. Init /\ mode = Mode => CA!Init
  <2> SUFFICES ASSUME Init, mode = Mode PROVE CA!Init
    OBVIOUS
  <2>1. A(Mode)!Init
    BY DEF Init
  <2> QED BY <2>1, InitA
<1>2. mode = Mode /\ [Next]_vars => [CA!Next]_(CA!vars) /\ (mode = Mode)'
  BY StepA
<1>3. Spec /\ mode = Mode => CA!Spec
  BY <1>1, <1>2, PTL DEF Spec, CA!Spec
<1>4. CA!Spec => []CA!View(blocksA, tdA, headA, jailedA)
  BY CA!ViewInvariance, ReplicasAssumption DEF Modes
<1> QED BY <1>3, <1>4, PTL

(* The same for the other node.                                            *)
LEMMA InitB == B(Mode)!Init => CB!Init
BY DEF CB!Init, B!Init, CB!Genesis, B!Genesis, CB!rebuildIndex, B!rebuildIndex,
       CB!IsTable, B!IsTable, CB!Block, B!Block, CB!Hash, B!Hash, CB!BlockHash, B!BlockHash,
       CB!NoHash, B!NoHash, CB!UnknownHash, B!UnknownHash, CB!Validator, B!Validator,
       CB!Attestation, B!Attestation

LEMMA ValidB == ASSUME NEW b PROVE B(Mode)!IsValid(b) <=> CB!IsValid(b)
BY DEF CB!IsValid, B!IsValid, CB!respectsFinality, B!respectsFinality, CB!chainTo, B!chainTo,
       CB!SelectProposer, B!SelectProposer, CB!EffectiveStake, B!EffectiveStake,
       CB!cumulativeStake, B!cumulativeStake, CB!verifyAttestations, B!verifyAttestations,
       CB!NoHash, B!NoHash, CB!Genesis, B!Genesis

LEMMA AddBlockB == ASSUME NEW b, B(Mode)!AddBlock(b) PROVE CB!AddBlock(b)
BY ValidB DEF CB!AddBlock, B!AddBlock, CB!weight, B!weight, CB!Finality, B!Finality,
       CB!Reorg, B!Reorg, CB!recordAttestations, B!recordAttestations, CB!tallies, B!tallies,
       CB!recordAttestation, B!recordAttestation, CB!tally, B!tally, CB!VoteOf, B!VoteOf,
       CB!CheckpointRound, B!CheckpointRound, CB!Voted, B!Voted, CB!Finalizes, B!Finalizes,
       CB!EffectiveStake, B!EffectiveStake, CB!cumulativeStake, B!cumulativeStake,
       CB!Proposal, B!Proposal, CB!Proposed, B!Proposed, CB!Equivocators, B!Equivocators,
       CB!rebuildIndex, B!rebuildIndex, CB!chainTo, B!chainTo, CB!Genesis, B!Genesis

LEMMA StepB ==
    ASSUME mode = Mode, [Next]_vars
    PROVE  [CB!Next]_(CB!vars) /\ mode' = mode
<1>1. CASE UNCHANGED vars
  BY <1>1 DEF vars, nodeB, CB!vars
<1>2. ASSUME NEW b \in 2..Len(sealed), AcceptB(b) PROVE CB!Next /\ mode' = mode
  <2>1. B(Mode)!AddBlock(b) /\ mode' = mode
    BY <1>2 DEF AcceptB
  <2> QED BY <2>1, AddBlockB DEF CB!Next
<1>3. ASSUME NEW b \in 2..Len(sealed), AcceptA(b) PROVE UNCHANGED CB!vars /\ mode' = mode
  <2>1. UNCHANGED <<mode, nodeB>> /\ sealed' = sealed
    BY <1>3 DEF AcceptA, A!AddBlock
  <2> QED BY <2>1 DEF nodeB, CB!vars
<1> QED BY <1>1, <1>2, <1>3 DEF Next

LEMMA ViewOfB ==
    ASSUME Mode \in Modes PROVE Spec /\ mode = Mode => []CB!View(blocksB, tdB, headB, jailedB)
<1>1. Init /\ mode = Mode => CB!Init
  <2> SUFFICES ASSUME Init, mode = Mode PROVE CB!Init
    OBVIOUS
  <2>1. B(Mode)!Init
    BY DEF Init
  <2> QED BY <2>1, InitB
<1>2. mode = Mode /\ [Next]_vars => [CB!Next]_(CB!vars) /\ (mode = Mode)'
  BY StepB
<1>3. Spec /\ mode = Mode => CB!Spec
  BY <1>1, <1>2, PTL DEF Spec, CB!Spec
<1>4. CB!Spec => []CB!View(blocksB, tdB, headB, jailedB)
  BY CB!ViewInvariance, ReplicasAssumption DEF Modes
<1> QED BY <1>3, <1>4, PTL

-----------------------------------------------------------------------------
(* A view is of the table and the configuration, which the nodes share.    *)
LEMMA ViewsAlike ==
    ASSUME NEW S, NEW w, NEW h, NEW out, CB!View(S, w, h, out) PROVE CA!View(S, w, h, out)
BY DEF CA!View, CB!View, CA!Tree, CB!Tree, CA!Weights, CB!Weights, CA!Jail, CB!Jail,
       CA!Drawn, CB!Drawn, CA!EvidenceIn, CB!EvidenceIn, CA!EvidenceOf, CB!EvidenceOf,
       CA!VotesIn, CB!VotesIn, CA!AttestedTwice, CB!AttestedTwice,
       CA!CheckpointRound, CB!CheckpointRound, CA!weight, CB!weight,
       CA!IsTable, CB!IsTable, CA!Block, CB!Block, CA!Attestation, CB!Attestation,
       CA!Validator, CB!Validator, CA!Hash, CB!Hash, CA!BlockHash, CB!BlockHash,
       CA!NoHash, CB!NoHash, CA!UnknownHash, CB!UnknownHash, CA!Genesis, CB!Genesis,
       CA!SelectProposer, CB!SelectProposer, CA!EffectiveStake, CB!EffectiveStake,
       CA!cumulativeStake, CB!cumulativeStake, CA!verifyAttestations, CB!verifyAttestations

LEMMA FitsAlike ==
    ASSUME NEW b, NEW S, NEW out PROVE CB!Fits(b, S, out) <=> CA!Fits(b, S, out)
BY DEF CA!Fits, CB!Fits, CA!SelectProposer, CB!SelectProposer,
       CA!EffectiveStake, CB!EffectiveStake, CA!cumulativeStake, CB!cumulativeStake,
       CA!verifyAttestations, CB!verifyAttestations

(* Both nodes' views, at any time.                                         *)
Views == /\ CA!View(blocksA, tdA, headA, jailedA) /\ CA!View(blocksB, tdB, headB, jailedB)
         /\ mode = Mode

LEMMA ViewsInvariance == Spec /\ mode = Mode => []Views
<1>1. CASE Mode \in Modes
  <2>1. CB!View(blocksB, tdB, headB, jailedB) => CA!View(blocksB, tdB, headB, jailedB)
    BY ViewsAlike
  <2>2. mode = Mode /\ [Next]_vars => (mode = Mode)'
    BY StepA
  <2> QED BY <1>1, <2>1, <2>2, ViewOfA, ViewOfB, PTL DEF Views, Spec
<1>2. CASE Mode \notin Modes
  <2>1. ~(Init /\ mode = Mode)
    BY <1>2 DEF Init
  <2> QED BY <2>1, PTL DEF Spec
<1> QED BY <1>1, <1>2

(* AddBlock leaves a node with a view that depends on the blocks it has    *)
(* accepted and not on their order: two nodes of one network with the same *)
(* blocks jail the same validators and have equally heavy heads.           *)
THEOREM SameBlocksAgree == Spec /\ mode = Mode => []SameBlocksSameView
<1>1. ASSUME Mode \in Modes PROVE Views => SameBlocksSameView
  BY <1>1, CA!SameView, ReplicasAssumption DEF Views, SameBlocksSameView, Modes
<1>2. CASE Mode \in Modes
  BY <1>1, <1>2, ViewsInvariance, PTL
<1>3. CASE Mode \notin Modes
  <2>1. ~(Init /\ mode = Mode)
    BY <1>3 DEF Init
  <2> QED BY <2>1, PTL DEF Spec
<1> QED BY <1>2, <1>3

(* Two nodes that were both offered everything have accepted the same      *)
(* blocks, in whatever orders, unless both jailed somebody or one has      *)
(* something final: nothing else makes AddBlock's verdicts depend on the   *)
(* order of arrival.                                                       *)
THEOREM DeliveryAgrees == Spec /\ mode = Mode => []DeliveredAgree
<1>1. ASSUME Mode \in Modes, Views, Quiescent, mode = "PoS" => jailedA = {} \/ jailedB = {},
             finalizedHashA = NoHash, finalizedHashB = NoHash
      PROVE  blocksA = blocksB
  <2>1. \A b \in 2..Len(sealed) : ~CA!IsValid(b) /\ ~CB!IsValid(b)
    BY <1>1, ValidA, ValidB DEF Quiescent, Views
  <2>2. \A b \in 2..Len(sealed) : ~CA!Fits(b, blocksA, jailedA) /\ ~CA!Fits(b, blocksB, jailedB)
    BY <1>1, <2>1, CA!FitsIsValid, CB!FitsIsValid, FitsAlike, ReplicasAssumption
       DEF Modes, NoHash, CA!NoHash, CB!NoHash
  <2>3. /\ CA!View(blocksA, tdA, headA, jailedA) /\ CA!View(blocksB, tdB, headB, jailedB)
        /\ jailedA = {} \/ jailedB = {}
    BY <1>1 DEF Views, Modes, CA!View, CA!Jail
  <2>4. jailedA = {} => blocksB \subseteq blocksA /\ jailedB = {}
    BY <1>1, <2>2, <2>3, CA!TakesAll, ReplicasAssumption DEF Modes
  <2>5. jailedB = {} => blocksA \subseteq blocksB /\ jailedA = {}
    BY <1>1, <2>2, <2>3, CA!TakesAll, ReplicasAssumption DEF Modes
  <2> QED BY <2>3, <2>4, <2>5
<1>2. ASSUME Mode \in Modes PROVE Views => DeliveredAgree
  BY <1>1, <1>2 DEF DeliveredAgree
<1>3. CASE Mode \in Modes
  BY <1>2, <1>3, ViewsInvariance, PTL
<1>4. CASE Mode \notin Modes
  <2>1. ~(Init /\ mode = Mode)
    BY <1>4 DEF Init
  <2> QED BY <2>1, PTL DEF Spec
<1> QED BY <1>3, <1>4
=============================================================================
