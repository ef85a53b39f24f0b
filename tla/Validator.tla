----------------------------- MODULE Validator -----------------------------
(***************************************************************************)
(* A PoS validator (node/node.go): a chain, the validator's own pooled     *)
(* votes, and the tick loop of cmd/l1/main.go, which calls ProposeBlock    *)
(* and then MaybeAttest.  MaybeAttest reads under the node's lock, submits *)
(* under it a second time and records under it a third time; peers' blocks *)
(* come in between.  The table has the blocks this validator will come to  *)
(* propose: such a row exists only once ProposeBlock has made it.          *)
(***************************************************************************)
EXTENDS Chain, FiniteSets

CONSTANTS
    Me,         \* the validator whose keys this node has
    maxMempool

ASSUME ValidatorAssumption == Mode = "PoS" /\ Me \in Validator /\ maxMempool \in Nat \ {0}

VARIABLES
    mempool,             \* the pooled votes: [nonce, vote]
    lastAttestedHeight,
    attesting,           \* what MaybeAttest has read: a set of at most one
    submitted,           \* MaybeAttest has submitted it and not yet recorded it
    cast,                \* the votes it has submitted, in order
    made                 \* the blocks it has proposed

nodeVars == <<mempool, lastAttestedHeight, attesting, submitted, cast, made>>
validatorVars == <<vars, nodeVars>>

IsMine(b, i) == sealed[b].attestations[i].from = Me

(* projectSender: the account's nonce in the head state, and what is       *)
(* pooled.  Votes are the only transactions of this account.               *)
accountNonce ==
    Cardinality(UNION {{<<b, i>> : i \in {j \in 1..Len(sealed[b].attestations) : IsMine(b, j)}} :
                          b \in headState})
projectSender == accountNonce + Len(mempool)

ValidatorInit ==
    /\ Init
    /\ mempool = <<>>
    /\ lastAttestedHeight = 0
    /\ attesting = {}
    /\ submitted = FALSE
    /\ cast = <<>>
    /\ made = {}

AcceptExternalBlock(b) ==
    /\ sealed[b].coinbase # Me
    /\ \A i \in 1..Len(sealed[b].attestations) :
          IsMine(b, i) => \E j \in 1..Len(cast) : cast[j] = sealed[b].attestations[i]
    /\ AddBlock(b)
    /\ UNCHANGED nodeVars

(* All that is pooled goes into the block, which fails as a whole unless   *)
(* the nonces follow on the account's.                                     *)
ProposeBlock(b) ==
    /\ attesting = {}
    /\ b \notin made
    /\ sealed[b].prev = head
    /\ sealed[b].coinbase = Me
    /\ SelectProposer(Me, jailed, sealed[head].seed)
    /\ sealed[b].attestations = [i \in 1..Len(mempool) |-> mempool[i].vote]
    /\ \A i \in 1..Len(mempool) : mempool[i].nonce = accountNonce + i - 1
    /\ AddBlock(b)
    /\ made' = made \cup {b}
    /\ mempool' = <<>>
    /\ UNCHANGED <<lastAttestedHeight, attesting, submitted, cast>>

(* Mutant: every new height is attested.                                   *)
isNewCheckpointAny(height) == height # 0 /\ height > lastAttestedHeight

(* Mutant: the height that was attested last is not looked at.             *)
isNewCheckpointAlways(height) == height # 0 /\ height % CheckpointInterval = 0

isNewCheckpoint(height) ==
    height # 0 /\ height % CheckpointInterval = 0 /\ height > lastAttestedHeight

(* MaybeAttest up to RUnlock, and the vote made of what was read.          *)
ReadHead ==
    /\ attesting = {}
    /\ isNewCheckpoint(sealed[head].height)
    /\ attesting' = {[nonce |-> projectSender,
                      vote |-> [from |-> Me, height |-> sealed[head].height, hash |-> head]]}
    /\ UNCHANGED <<vars, mempool, lastAttestedHeight, submitted, cast, made>>

(* SubmitTx; on an error MaybeAttest returns.                              *)
SubmitVote ==
    /\ ~submitted
    /\ \E tx \in attesting :
          IF tx.nonce = projectSender /\ Len(mempool) < maxMempool
          THEN /\ mempool' = Append(mempool, tx)
               /\ cast' = Append(cast, tx.vote)
               /\ submitted' = TRUE
               /\ UNCHANGED attesting
          ELSE attesting' = {} /\ UNCHANGED <<mempool, cast, submitted>>
    /\ UNCHANGED <<vars, lastAttestedHeight, made>>

RecordHeight ==
    /\ submitted
    /\ \E tx \in attesting : lastAttestedHeight' = tx.vote.height
    /\ attesting' = {}
    /\ submitted' = FALSE
    /\ UNCHANGED <<vars, mempool, cast, made>>

MaybeAttest == ReadHead \/ SubmitVote \/ RecordHeight

ValidatorNext ==
    \/ \E b \in 2..Len(sealed) : AcceptExternalBlock(b) \/ ProposeBlock(b)
    \/ MaybeAttest

(* The tick loop comes to MaybeAttest again and again.                     *)
ValidatorSpec == ValidatorInit /\ [][ValidatorNext]_validatorVars /\ WF_validatorVars(MaybeAttest)

-----------------------------------------------------------------------------
(* A node that follows the code never gives evidence against itself, while *)
(* other validators equivocate and the head reorganizes between its locks: *)
(* it makes one block per parent and one vote per round, and its chain     *)
(* does not jail it.                                                       *)
NeverIncriminated ==
    /\ Me \notin jailed
    /\ ~AttestedTwice(Me, {cast[i] : i \in 1..Len(cast)})
    /\ \A b, c \in made : sealed[b].prev = sealed[c].prev => b = c

(* A vote is submitted once ("Prevents resubmitting an attestation every   *)
(* tick before the first one has even been mined into a block"), however   *)
(* often MaybeAttest is called and whatever comes between its locks.       *)
SubmittedOnce == \A i, j \in 1..Len(cast) : cast[i].height = cast[j].height => i = j

(* "MaybeAttest checks whether the canonical head has crossed a NEW PoS    *)
(* checkpoint height [...] and, if so, builds, signs, and submits a        *)
(* checkpoint attestation": the first checkpoint that is crossed is voted  *)
(* for.                                                                    *)
CrossedIsAttested ==
    sealed[head].height >= CheckpointInterval ~> \E i \in 1..Len(cast) : cast[i].height > 0
=============================================================================
