-------------------------- MODULE ValidatorProofs --------------------------
(***************************************************************************)
(* A validator that follows the code is never incriminated: for every      *)
(* registry, interval, table of blocks, order of arrival and interleaving  *)
(* of MaybeAttest's three locks with the blocks of peers.                  *)
(***************************************************************************)
EXTENDS Validator, ChainProofs

Mine == {cast[i] : i \in 1..Len(cast)}

(* The votes are of this validator and at checkpoints.                     *)
MyVote(a) ==
    /\ a \in Attestation
    /\ a.from = Me
    /\ a.height % CheckpointInterval = 0

(* MaybeAttest between its locks: it holds at most one vote, for a height  *)
(* above the last one it has recorded.                                     *)
AttestingInv ==
    /\ lastAttestedHeight \in Nat
    /\ submitted \in BOOLEAN
    /\ \A tx \in attesting : MyVote(tx.vote) /\ tx.vote.height > lastAttestedHeight
    /\ \A x, y \in attesting : x = y
    /\ submitted => attesting # {}

(* The votes cast are for heights that grow, up to the height recorded,    *)
(* but for the last one while MaybeAttest has not yet recorded it.         *)
CastInv ==
    /\ cast \in Seq(Attestation)
    /\ \A i \in 1..Len(cast) : MyVote(cast[i])
    /\ \A i, j \in 1..Len(cast) : i < j => cast[i].height < cast[j].height
    /\ ~submitted => \A i \in 1..Len(cast) : cast[i].height <= lastAttestedHeight
    /\ submitted =>
         \A tx \in attesting : \A i \in 1..Len(cast) : cast[i].height <= tx.vote.height

(* What the chain and the pool have of this validator is what it made.     *)
OwnInv ==
    /\ made \subseteq blocks \ {Genesis}
    /\ \A b \in blocks \ {Genesis} : sealed[b].coinbase = Me => b \in made
    /\ \A b, c \in made : sealed[b].prev = sealed[c].prev => b = c
    /\ \A a \in CastVotes : a.from = Me => a \in Mine
    /\ Len(mempool) \in Nat
    /\ \A i \in 1..Len(mempool) : mempool[i].vote \in Mine

VInv == Inv /\ AttestingInv /\ CastInv /\ OwnInv

(* Two checkpoints of one round are the same height.                       *)
LEMMA OneCheckpointPerRound ==
    ASSUME NEW x \in Nat, NEW y \in Nat,
           x % CheckpointInterval = 0, y % CheckpointInterval = 0,
           CheckpointRound(x) = CheckpointRound(y)
    PROVE  x = y
<1>1. CheckpointInterval \in Nat \ {0}
  BY IntervalAssumption
<1>2. \A a \in Nat : a = CheckpointInterval * (a \div CheckpointInterval) + (a % CheckpointInterval)
  BY <1>1, SMT
<1>3. x \div CheckpointInterval = y \div CheckpointInterval
  BY DEF CheckpointRound
<1> HIDE DEF CheckpointRound
<1>4. x = CheckpointInterval * (y \div CheckpointInterval) + 0
  BY <1>2, <1>3
<1>5. y = CheckpointInterval * (y \div CheckpointInterval) + 0
  BY <1>2
<1> QED BY <1>4, <1>5

(* The chain's own steps, as the chain's invariant knows them.             *)
LEMMA ChainStep == VInv /\ [ValidatorNext]_validatorVars => [Next]_vars /\ Inv'
<1> SUFFICES ASSUME VInv, [ValidatorNext]_validatorVars PROVE [Next]_vars /\ Inv'
  OBVIOUS
<1>1. [Next]_vars
  BY Zenon DEF ValidatorNext, validatorVars, AcceptExternalBlock, ProposeBlock, MaybeAttest,
     ReadHead, SubmitVote, RecordHeight, Next
<1>2. Inv
  BY DEF VInv
<1> QED BY <1>1, <1>2, StepTree, StepEvidence DEF Inv

LEMMA InitValidator == ValidatorInit => VInv
<1> SUFFICES ASSUME ValidatorInit PROVE VInv
  OBVIOUS
<1>1. Inv
  BY InitTree, InitEvidence DEF ValidatorInit, Inv
<1>2. cast = <<>> /\ Len(cast) = 0 /\ mempool = <<>> /\ Len(mempool) = 0
  BY DEF ValidatorInit
<1>3. 1..0 = {}
  BY SMT
<1>4. AttestingInv
  BY DEF ValidatorInit, AttestingInv
<1>5. CastInv
  BY <1>2, <1>3 DEF ValidatorInit, CastInv
<1>6. OwnInv
  <2>1. blocks \ {Genesis} = {} /\ made = {}
    BY DEF ValidatorInit, Init
  <2>2. CastVotes = {}
    BY <2>1 DEF CastVotes
  <2> QED BY <1>2, <1>3, <2>1, <2>2 DEF OwnInv
<1> QED BY <1>1, <1>4, <1>5, <1>6 DEF VInv

(* No accepted block is on top of the head: it would outweigh it.          *)
LEMMA HeadHasNoChild ==
    ASSUME Inv, NEW b \in blocks \ {Genesis}
    PROVE  sealed[b].prev # head
<1>1. td \in [BlockHash -> Nat] /\ head \in blocks /\ blocks \subseteq BlockHash
  BY TableTypes DEF Inv, TreeInv, TypeOK
<1>2. Mode = "PoS"
  BY ValidatorAssumption
<1>3. td[b] = td[sealed[b].prev] + 1 /\ td[b] <= td[head]
  BY <1>2 DEF Inv, TreeInv, Rooted, HeaviestHead, weight
<1>4. td[head] \in Nat
  BY <1>1
<1> QED BY <1>3, <1>4, SMT

(* What an accepted block adds to the votes in the chain.                  *)
LEMMA VotesOfStep ==
    ASSUME NEW b \in 2..Len(sealed), AddBlock(b)
    PROVE  \A a \in CastVotes' :
              \/ a \in CastVotes
              \/ \E i \in 1..Len(sealed[b].attestations) : a = sealed[b].attestations[i]
BY DEF AddBlock, CastVotes

LEMMA AddedBlock ==
    ASSUME NEW b \in 2..Len(sealed), AddBlock(b)
    PROVE  /\ blocks' \ {Genesis} = (blocks \ {Genesis}) \cup {b}
           /\ sealed' = sealed
<1>1. b # Genesis
  BY SMT DEF Genesis
<1> QED BY <1>1 DEF AddBlock

LEMMA StepExternal ==
    ASSUME VInv, NEW b \in 2..Len(sealed), AcceptExternalBlock(b)
    PROVE  AttestingInv' /\ CastInv' /\ OwnInv'
<1>1. UNCHANGED nodeVars /\ AddBlock(b)
  BY DEF AcceptExternalBlock
<1>2. AttestingInv' /\ CastInv'
  BY <1>1 DEF VInv, AttestingInv, CastInv, nodeVars, MyVote
<1>3. blocks' \ {Genesis} = (blocks \ {Genesis}) \cup {b} /\ sealed' = sealed
  BY <1>1, AddedBlock
<1>4. Mine' = Mine /\ made' = made /\ mempool' = mempool
  BY <1>1 DEF Mine, nodeVars
<1>5. \A a \in CastVotes' : a.from = Me => a \in Mine'
  <2> SUFFICES ASSUME NEW a \in CastVotes', a.from = Me PROVE a \in Mine
    BY <1>4
  <2>1. CASE a \in CastVotes
    BY <2>1 DEF VInv, OwnInv
  <2>2. CASE \E i \in 1..Len(sealed[b].attestations) : a = sealed[b].attestations[i]
    BY <2>2 DEF AcceptExternalBlock, IsMine, Mine
  <2> QED BY <1>1, <2>1, <2>2, VotesOfStep
<1> QED BY <1>2, <1>3, <1>4, <1>5 DEF VInv, OwnInv, AcceptExternalBlock

LEMMA StepPropose ==
    ASSUME VInv, NEW b \in 2..Len(sealed), ProposeBlock(b)
    PROVE  AttestingInv' /\ CastInv' /\ OwnInv'
<1>1. /\ UNCHANGED <<lastAttestedHeight, attesting, submitted, cast>>
      /\ AddBlock(b) /\ made' = made \cup {b} /\ mempool' = <<>>
      /\ sealed[b].prev = head /\ sealed[b].coinbase = Me
  BY DEF ProposeBlock
<1>2. AttestingInv' /\ CastInv'
  BY <1>1 DEF VInv, AttestingInv, CastInv, MyVote
<1>3. blocks' \ {Genesis} = (blocks \ {Genesis}) \cup {b} /\ sealed' = sealed
  BY <1>1, AddedBlock
<1>4. Mine' = Mine
  BY <1>1 DEF Mine
<1>5. \A a \in CastVotes' : a.from = Me => a \in Mine'
  <2> SUFFICES ASSUME NEW a \in CastVotes', a.from = Me PROVE a \in Mine
    BY <1>4
  <2>1. CASE a \in CastVotes
    BY <2>1 DEF VInv, OwnInv
  <2>2. ASSUME NEW i \in 1..Len(sealed[b].attestations), a = sealed[b].attestations[i]
        PROVE  a \in Mine
    <3>1. sealed[b].attestations = [k \in 1..Len(mempool) |-> mempool[k].vote]
      BY DEF ProposeBlock
    <3>2. Len(mempool) \in Nat
      BY DEF VInv, OwnInv
    <3>3. Len(sealed[b].attestations) = Len(mempool)
      BY <3>1, <3>2
    <3>4. a = mempool[i].vote /\ i \in 1..Len(mempool)
      BY <2>2, <3>1, <3>3
    <3> QED BY <3>4 DEF VInv, OwnInv
  <2> QED BY <1>1, <2>1, <2>2, VotesOfStep
<1>6. \A c \in made : sealed[c].prev # head
  <2> TAKE c \in made
  <2>1. c \in blocks \ {Genesis} /\ Inv
    BY DEF VInv, OwnInv
  <2> QED BY <2>1, HeadHasNoChild
<1>7. \A c, d \in made' : sealed'[c].prev = sealed'[d].prev => c = d
  BY <1>1, <1>3, <1>6, Zenon DEF VInv, OwnInv
<1>8. made' \subseteq blocks' \ {Genesis}
  BY <1>1, <1>3, Zenon DEF VInv, OwnInv
<1>9. \A c \in blocks' \ {Genesis} : sealed'[c].coinbase = Me => c \in made'
  BY <1>1, <1>3, Zenon DEF VInv, OwnInv
<1>10. Len(mempool') = 0 /\ 1..0 = {}
  BY <1>1
<1> QED BY <1>2, <1>5, <1>7, <1>8, <1>9, <1>10 DEF OwnInv

(* A step of MaybeAttest that casts nothing leaves the rest as it was.     *)
LEMMA OwnKept ==
    ASSUME VInv, UNCHANGED <<vars, mempool, cast, made>>
    PROVE  OwnInv'
<1>1. CastVotes' = CastVotes /\ Mine' = Mine
  BY DEF CastVotes, Mine, vars
<1> QED BY <1>1 DEF VInv, OwnInv, vars

LEMMA StepRead ==
    ASSUME VInv, ReadHead
    PROVE  AttestingInv' /\ CastInv' /\ OwnInv'
<1> DEFINE vote == [from |-> Me, height |-> sealed[head].height, hash |-> head]
<1>1. sealed[head].height \in Nat /\ head \in Hash
  BY TableTypes DEF VInv, Inv, TreeInv, TypeOK, Hash
<1>2. MyVote(vote) /\ vote.height > lastAttestedHeight
  BY <1>1, ValidatorAssumption DEF ReadHead, isNewCheckpoint, MyVote, Attestation
<1>3. attesting' = {[nonce |-> projectSender, vote |-> vote]}
  BY DEF ReadHead
<1> HIDE DEF vote
<1>4. UNCHANGED <<vars, mempool, lastAttestedHeight, submitted, cast, made>> /\ attesting = {}
  BY DEF ReadHead
<1>5. AttestingInv'
  BY <1>2, <1>3, <1>4 DEF VInv, AttestingInv, MyVote
<1>6. ~submitted
  BY <1>4 DEF VInv, AttestingInv
<1>7. CastInv'
  BY <1>4, <1>6 DEF VInv, CastInv, MyVote
<1> QED BY <1>4, <1>5, <1>7, OwnKept

LEMMA StepSubmit ==
    ASSUME VInv, SubmitVote
    PROVE  AttestingInv' /\ CastInv' /\ OwnInv'
<1>1. ~submitted /\ UNCHANGED <<vars, lastAttestedHeight, made>>
  BY DEF SubmitVote
<1>2. CASE attesting' = {} /\ UNCHANGED <<mempool, cast, submitted>>
  <2>1. AttestingInv' /\ CastInv'
    BY <1>1, <1>2 DEF VInv, AttestingInv, CastInv, MyVote
  <2> QED BY <1>1, <1>2, <2>1, OwnKept
<1>3. ASSUME NEW tx \in attesting,
             mempool' = Append(mempool, tx), cast' = Append(cast, tx.vote),
             submitted' = TRUE, UNCHANGED attesting
      PROVE  AttestingInv' /\ CastInv' /\ OwnInv'
  <2>1. /\ MyVote(tx.vote) /\ tx.vote.height > lastAttestedHeight
        /\ lastAttestedHeight \in Nat /\ \A y \in attesting : y = tx
    BY DEF VInv, AttestingInv
  <2>2. AttestingInv'
    BY <1>1, <1>3 DEF VInv, AttestingInv, MyVote
  <2>3. cast \in Seq(Attestation) /\ tx.vote \in Attestation /\ tx.vote.height \in Nat
    BY <2>1 DEF VInv, CastInv, MyVote, Attestation
  <2>4. /\ cast' \in Seq(Attestation) /\ Len(cast') = Len(cast) + 1 /\ Len(cast) \in Nat
        /\ \A i \in 1..Len(cast) : cast'[i] = cast[i]
        /\ cast'[Len(cast) + 1] = tx.vote
    BY <1>3, <2>3
  <2>5. \A i \in 1..Len(cast) : MyVote(cast[i]) /\ cast[i].height < tx.vote.height
    <3> TAKE i \in 1..Len(cast)
    <3>1. MyVote(cast[i]) /\ cast[i].height <= lastAttestedHeight
      BY <1>1 DEF VInv, CastInv
    <3>2. cast[i].height \in Nat
      BY <3>1 DEF MyVote, Attestation
    <3> QED BY <2>1, <2>3, <3>1, <3>2, SMT
  <2>6. \A i \in 1..Len(cast') : i \in 1..Len(cast) \/ i = Len(cast) + 1
    BY <2>4
  <2>7. \A i \in 1..Len(cast') : MyVote(cast'[i])
    BY <2>1, <2>4, <2>5, <2>6, Zenon
  <2>8. \A i, j \in 1..Len(cast') : i < j => cast'[i].height < cast'[j].height
    <3> TAKE i, j \in 1..Len(cast')
    <3> HAVE i < j
    <3>1. i \in 1..Len(cast)
      BY <2>4
    <3>2. CASE j \in 1..Len(cast)
      BY <2>4, <3>1, <3>2 DEF VInv, CastInv
    <3>3. CASE j = Len(cast) + 1
      BY <2>4, <2>5, <3>1, <3>3
    <3> QED BY <2>6, <3>2, <3>3
  <2>9. \A y \in attesting' : \A i \in 1..Len(cast') : cast'[i].height <= y.vote.height
    <3> TAKE y \in attesting'
    <3> TAKE i \in 1..Len(cast')
    <3>1. y = tx
      BY <1>3, <2>1
    <3>2. CASE i \in 1..Len(cast)
      <4>1. cast'[i] = cast[i] /\ cast[i].height < tx.vote.height /\ MyVote(cast[i])
        BY <2>4, <2>5, <3>2
      <4>2. cast[i].height \in Nat
        BY <4>1 DEF MyVote, Attestation
      <4> QED BY <2>3, <3>1, <4>1, <4>2, SMT
    <3>3. CASE i = Len(cast) + 1
      BY <2>3, <2>4, <3>1, <3>3
    <3> QED BY <2>6, <3>2, <3>3
  <2>10. CastInv'
    <3> USE DEF CastInv
    <3>1. ~submitted' => \A i \in 1..Len(cast') : cast'[i].height <= lastAttestedHeight'
      BY <1>3
    <3>2. \A i \in 1..Len(cast') : MyVote(cast[i])'
      BY <2>7 DEF MyVote
    <3> QED BY <2>4, <2>8, <2>9, <3>1, <3>2
  <2>11. \A a \in Mine : a \in Mine'
    <3> TAKE a \in Mine
    <3>1. PICK i \in 1..Len(cast) : a = cast[i]
      BY DEF Mine
    <3>2. i \in 1..Len(cast') /\ a = cast'[i]
      BY <2>4, <3>1
    <3> QED BY <3>2 DEF Mine
  <2>12. tx.vote \in Mine'
    <3>1. Len(cast) + 1 \in 1..Len(cast')
      BY <2>4
    <3> QED BY <2>4, <3>1 DEF Mine
  <2>13. CastVotes' = CastVotes
    BY <1>1 DEF CastVotes, vars
  <2>14. Len(mempool') \in Nat /\ \A i \in 1..Len(mempool') : mempool'[i].vote \in Mine'
    BY <1>3, <2>11, <2>12 DEF VInv, OwnInv
  <2>15. OwnInv'
    BY <1>1, <2>11, <2>13, <2>14, Zenon DEF VInv, OwnInv, vars
  <2> QED BY <2>2, <2>10, <2>15
<1> QED BY <1>2, <1>3 DEF SubmitVote

LEMMA StepRecord ==
    ASSUME VInv, RecordHeight
    PROVE  AttestingInv' /\ CastInv' /\ OwnInv'
<1>1. PICK tx \in attesting : lastAttestedHeight' = tx.vote.height
  BY DEF RecordHeight
<1>2. /\ submitted /\ attesting' = {} /\ submitted' = FALSE
      /\ UNCHANGED <<vars, mempool, cast, made>>
  BY DEF RecordHeight
<1>3. tx.vote.height \in Nat
  BY DEF VInv, AttestingInv, MyVote, Attestation
<1>4. AttestingInv'
  BY <1>1, <1>2, <1>3 DEF AttestingInv
<1>5. \A i \in 1..Len(cast) : cast[i].height <= lastAttestedHeight'
  BY <1>1, <1>2 DEF VInv, CastInv
<1>6. CastInv'
  BY <1>2, <1>5 DEF VInv, CastInv, MyVote
<1> QED BY <1>2, <1>4, <1>6, OwnKept

LEMMA ValidatorInvariance == ValidatorSpec => []VInv
<1>1. VInv /\ [ValidatorNext]_validatorVars => VInv'
  <2> SUFFICES ASSUME VInv, [ValidatorNext]_validatorVars PROVE VInv'
    OBVIOUS
  <2>1. Inv'
    BY ChainStep
  <2>2. ASSUME UNCHANGED validatorVars PROVE AttestingInv' /\ CastInv' /\ OwnInv'
    <3>1. UNCHANGED nodeVars /\ UNCHANGED vars
      BY <2>2 DEF validatorVars
    <3>2. AttestingInv' /\ CastInv'
      BY <3>1 DEF VInv, AttestingInv, CastInv, nodeVars, MyVote
    <3> QED BY <3>1, <3>2, OwnKept DEF nodeVars
  <2>3. ASSUME NEW b \in 2..Len(sealed), AcceptExternalBlock(b)
        PROVE  AttestingInv' /\ CastInv' /\ OwnInv'
    BY <2>3, StepExternal
  <2>4. ASSUME NEW b \in 2..Len(sealed), ProposeBlock(b)
        PROVE  AttestingInv' /\ CastInv' /\ OwnInv'
    BY <2>4, StepPropose
  <2>5. ASSUME ReadHead PROVE AttestingInv' /\ CastInv' /\ OwnInv'
    BY <2>5, StepRead
  <2>6. ASSUME SubmitVote PROVE AttestingInv' /\ CastInv' /\ OwnInv'
    BY <2>6, StepSubmit
  <2>7. ASSUME RecordHeight PROVE AttestingInv' /\ CastInv' /\ OwnInv'
    BY <2>7, StepRecord
  <2>8. \/ \E b \in 2..Len(sealed) : AcceptExternalBlock(b) \/ ProposeBlock(b)
        \/ ReadHead \/ SubmitVote \/ RecordHeight
        \/ UNCHANGED validatorVars
    BY DEF ValidatorNext, MaybeAttest
  <2>9. AttestingInv' /\ CastInv' /\ OwnInv'
    BY <2>2, <2>3, <2>4, <2>5, <2>6, <2>7, <2>8
  <2> QED BY <2>1, <2>9 DEF VInv
<1> QED BY <1>1, InitValidator, PTL DEF ValidatorSpec

(* Strictly growing heights are distinct heights.                          *)
LEMMA CastOnce == VInv => SubmittedOnce
<1> SUFFICES ASSUME VInv, NEW i \in 1..Len(cast), NEW j \in 1..Len(cast),
                    cast[i].height = cast[j].height
             PROVE  i = j
  BY DEF SubmittedOnce
<1>1. /\ i < j => cast[i].height < cast[j].height
      /\ j < i => cast[j].height < cast[i].height
      /\ cast[i] \in Attestation /\ cast[j] \in Attestation
  BY DEF VInv, CastInv, MyVote
<1>2. cast[i].height \in Nat /\ cast[j].height \in Nat
  BY <1>1 DEF Attestation
<1>3. i \in Nat /\ j \in Nat
  BY DEF VInv, CastInv
<1> QED BY <1>1, <1>2, <1>3, SMT

(* MaybeAttest submits a vote for a height once, although it decides and   *)
(* submits under one lock each and records under a third.                  *)
THEOREM VotesSubmittedOnce == ValidatorSpec => []SubmittedOnce
BY ValidatorInvariance, CastOnce, PTL

(* A validator that runs this code gives no evidence against itself and    *)
(* stays out of its own chain's jail, whatever blocks its peers send and   *)
(* whenever they come.                                                     *)
THEOREM HonestIsNeverJailed == ValidatorSpec => []NeverIncriminated
<1>1. VInv => NeverIncriminated
  <2> SUFFICES ASSUME VInv PROVE NeverIncriminated
    OBVIOUS
  <2>1. ~AttestedTwice(Me, Mine)
    <3> SUFFICES ASSUME NEW x \in Mine, NEW y \in Mine,
                        CheckpointRound(x.height) = CheckpointRound(y.height), x.hash # y.hash
                 PROVE  FALSE
      BY DEF AttestedTwice
    <3>1. PICK i \in 1..Len(cast) : x = cast[i]
      BY DEF Mine
    <3>2. PICK j \in 1..Len(cast) : y = cast[j]
      BY DEF Mine
    <3>3. MyVote(x) /\ MyVote(y)
      BY <3>1, <3>2 DEF VInv, CastInv
    <3>4. x.height \in Nat /\ y.height \in Nat
      BY <3>3 DEF MyVote, Attestation
    <3>5. x.height = y.height
      BY <3>3, <3>4, OneCheckpointPerRound DEF MyVote
    <3>6. i = j
      BY <3>1, <3>2, <3>5, CastOnce DEF SubmittedOnce
    <3> QED BY <3>1, <3>2, <3>6
  <2>2. ~DoubleAttest(Me)
    <3>1. \A a \in CastVotes : a.from = Me => a \in Mine
      BY DEF VInv, OwnInv
    <3> QED BY <2>1, <3>1, Zenon DEF DoubleAttest, AttestedTwice
  <2>3. \A b, c \in made : sealed[b].prev = sealed[c].prev => b = c
    BY DEF VInv, OwnInv
  <2>4. ~DoublePropose(Me)
    <3>1. \A b \in blocks \ {Genesis} : sealed[b].coinbase = Me => b \in made
      BY DEF VInv, OwnInv
    <3> QED BY <2>3, <3>1, Zenon DEF DoublePropose
  <2>5. Me \notin jailed
    <3>1. Mode # "PoW"
      BY ValidatorAssumption
    <3>2. JailedHasEvidence
      BY <3>1 DEF VInv, Inv, EvidenceInv
    <3> QED BY <2>2, <2>4, <3>2 DEF JailedHasEvidence
  <2> QED BY <2>1, <2>3, <2>5 DEF NeverIncriminated, Mine
<1> QED BY <1>1, ValidatorInvariance, PTL
=============================================================================
