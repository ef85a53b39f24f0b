------------------------------- MODULE Chain -------------------------------
(***************************************************************************)
(* One node's chain.Chain (chain/chain.go): the block store, heaviest-     *)
(* branch fork choice and, in PoS mode, proposer selection, checkpoint     *)
(* finality and jailing.  AddBlock is the only operation that changes it.  *)
(*                                                                         *)
(* A hash commits to its block and, through PrevHash, to all of the        *)
(* block's history, so the blocks that exist form a table `sealed`, fixed  *)
(* along a behaviour, whose rows refer to earlier rows only.  A block hash *)
(* is its row number.  Which rows a node is offered, and in which order,   *)
(* is left open: every subset and every order is a behaviour.              *)
(***************************************************************************)
EXTENDS Integers, Sequences, Functions

CONSTANTS
    Mode,                \* consensus.Mode: "PoW" or "PoS"
    Stake,               \* the registry: validator i, in registry order, has Stake[i]
    CheckpointInterval,  \* pos.CheckpointInterval
    MaxBlocks            \* bound: rows of a table, genesis included

Validator == 1..Len(Stake)

NoHash == 0        \* core.Hash{}, the zero hash
UnknownHash == -1  \* the hash of no block at all
Genesis == 1
BlockHash == 1..MaxBlocks
Hash == BlockHash \cup {NoHash, UnknownHash}

(* The decoded calldata of an attestation transaction.                     *)
Attestation == [from : Validator, height : Nat, hash : Hash]

(* What AddBlock reads of a block.  `seed` is the number ProposerSeed      *)
(* derives from the block's hash for the slot after it; `wellFormed` is    *)
(* the verdict of the checks that depend on the block and its ancestry     *)
(* alone, and so are the same on every node: base fee, proof of work or    *)
(* proposer signature, attestation calldata and signatures, transaction    *)
(* root, chain id, execution, gas used, gas limit and state root.          *)
Block ==
    [prev : Hash, height : Nat, coinbase : Validator, difficulty : Nat,
     seed : Nat, attestations : Seq(Attestation), wellFormed : BOOLEAN]

IsTable(w) ==
    /\ w \in Seq(Block)
    /\ Len(w) \in 1..MaxBlocks
    /\ w[Genesis].height = 0
    /\ \A b \in 2..Len(w) :
         /\ w[b].prev \in 1..(b - 1)
         /\ \A i \in 1..Len(w[b].attestations) : w[b].attestations[i].hash < b

ASSUME ModeAssumption == Mode \in {"PoW", "PoS"}
ASSUME StakeAssumption == Stake \in Seq(Nat \ {0}) /\ Len(Stake) > 0
ASSUME IntervalAssumption == CheckpointInterval \in Nat \ {0}
ASSUME BoundAssumption == MaxBlocks \in Nat \ {0}

VARIABLES
    sealed,           \* the blocks that exist
    blocks,           \* the hashes of the blocks this node has accepted
    td,               \* cumulative weight per hash, 0 when absent
    head,
    headState,        \* the blocks whose effects the canonical state contains
    heightIndex,      \* canonical height -> hash
    attestedRound,    \* [round, from, hash]: the one vote recorded per round and validator
    checkpointStake,  \* stake tallied per target hash
    finalizedHash,
    finalizedHeight,
    jailed,
    proposedAtHeight  \* [prev, from, hash]: the first proposal per parent and validator

tally == [attestedRound |-> attestedRound, checkpointStake |-> checkpointStake,
          finalizedHash |-> finalizedHash, finalizedHeight |-> finalizedHeight,
          jailed |-> jailed]
vars == <<sealed, blocks, td, head, headState, heightIndex, attestedRound,
          checkpointStake, finalizedHash, finalizedHeight, jailed, proposedAtHeight>>

-----------------------------------------------------------------------------
(* The walk along PrevHash from b to genesis, as a set.                    *)
chainTo[b \in DOMAIN sealed] ==
    IF b = Genesis THEN {b} ELSE {b} \cup chainTo[sealed[b].prev]

(* The height -> hash map over a branch.                                   *)
rebuildIndex(path) ==
    [h \in {sealed[a].height : a \in path} |->
        CHOOSE a \in path : sealed[a].height = h]

(* The stake of the first i validators of the registry, less those in out. *)
cumulativeStake(out) ==
    LET cum[i \in 0..Len(Stake)] ==
          IF i = 0 THEN 0
          ELSE IF i \in out THEN cum[i - 1] ELSE cum[i - 1] + Stake[i]
    IN  cum

EffectiveStake(out) == cumulativeStake(out)[Len(Stake)]

(* Mutant: the end of a validator's stake range belongs to it as well.     *)
SelectProposerInclusive(v, out, seed) ==
    LET total == EffectiveStake(out) IN
    /\ total > 0
    /\ cumulativeStake(out)[v - 1] =< seed % total
    /\ seed % total =< cumulativeStake(out)[v]

(* v is the validator whose stake range holds seed mod total.              *)
SelectProposer(v, out, seed) ==
    LET total == EffectiveStake(out) IN
    /\ total > 0
    /\ cumulativeStake(out)[v - 1] =< seed % total
    /\ seed % total < cumulativeStake(out)[v]

(* Mutant: the walk stops at the finalized height without a look at the    *)
(* hash it finds there.                                                    *)
respectsFinalityByHeight(b) ==
    \/ Mode = "PoW"
    \/ finalizedHash = NoHash
    \/ \E a \in chainTo[sealed[b].prev] : sealed[a].height = finalizedHeight

(* The walk down from b's parent meets the finalized height at exactly the *)
(* finalized block.                                                        *)
respectsFinality(b) ==
    \/ Mode = "PoW"
    \/ finalizedHash = NoHash
    \/ \E a \in chainTo[sealed[b].prev] :
          a = finalizedHash /\ sealed[a].height = finalizedHeight

verifyAttestations(b) ==
    \A i \in 1..Len(sealed[b].attestations) :
        LET a == sealed[b].attestations[i] IN
        a.height % CheckpointInterval = 0 /\ a.height < sealed[b].height

(* Mutant: only blocks on top of the head are taken.                       *)
IsValidOnHead(b) ==
    /\ b \notin blocks
    /\ sealed[b].prev = head
    /\ sealed[b].height = sealed[head].height + 1
    /\ sealed[b].wellFormed

(* Mutant: the proposer need not be the one of the slot.                   *)
IsValidAnyProposer(b) ==
    /\ b \notin blocks
    /\ sealed[b].prev \in blocks
    /\ sealed[b].height = sealed[sealed[b].prev].height + 1
    /\ respectsFinality(b)
    /\ Mode = "PoS" => verifyAttestations(b)
    /\ sealed[b].wellFormed

(* The checks of AddBlock that precede the commit.                         *)
IsValid(b) ==
    /\ b \notin blocks
    /\ sealed[b].prev \in blocks
    /\ sealed[b].height = sealed[sealed[b].prev].height + 1
    /\ respectsFinality(b)
    /\ Mode = "PoS" =>
         /\ SelectProposer(sealed[b].coinbase, jailed, sealed[sealed[b].prev].seed)
         /\ verifyAttestations(b)
    /\ sealed[b].wellFormed

weight(b) == IF Mode = "PoS" THEN 1 ELSE sealed[b].difficulty

-----------------------------------------------------------------------------
CheckpointRound(height) == height \div CheckpointInterval

VoteOf(a) == [round |-> CheckpointRound(a.height), from |-> a.from, hash |-> a.hash]

Voted(t, round, v) == \E r \in t.attestedRound : r.round = round /\ r.from = v

(* Mutant: a simple majority of the effective stake finalizes.             *)
FinalizesByMajority(t, a, stake) ==
    a.height > t.finalizedHeight /\ stake * 2 >= EffectiveStake(t.jailed)

Finalizes(t, a, stake) ==
    /\ a.height > t.finalizedHeight
    /\ stake * 3 >= EffectiveStake(t.jailed) * 2

(* Mutant: votes are tallied without asking whether the round was voted.   *)
recordAttestationNoDedup(t, a) ==
    [t EXCEPT !.attestedRound = @ \cup {VoteOf(a)},
              !.checkpointStake[a.hash] = @ + Stake[a.from]]

(* The body of recordAttestations' loop.                                   *)
recordAttestation(t, a) ==
    LET vote  == VoteOf(a)
        stake == t.checkpointStake[a.hash] + Stake[a.from]
        final == Finalizes(t, a, stake)
    IN  IF Voted(t, vote.round, a.from)
        THEN IF vote \in t.attestedRound THEN t
             ELSE [t EXCEPT !.jailed = @ \cup {a.from}]
        ELSE IF a.from \in t.jailed THEN t
        ELSE [attestedRound   |-> t.attestedRound \cup {vote},
              checkpointStake |-> [t.checkpointStake EXCEPT ![a.hash] = stake],
              finalizedHash   |-> IF final THEN a.hash ELSE t.finalizedHash,
              finalizedHeight |-> IF final THEN a.height ELSE t.finalizedHeight,
              jailed          |-> t.jailed]

(* The tallies after each of the first i attestations of b.                *)
tallies(b) ==
    LET after[i \in 0..Len(sealed[b].attestations)] ==
          IF i = 0 THEN tally
          ELSE recordAttestation(after[i - 1], sealed[b].attestations[i])
    IN  after

recordAttestations(b) == tallies(b)[Len(sealed[b].attestations)]

(* Both halves of detectEquivocation: the registry of first proposals, and *)
(* the proposers that a second one for the same parent jails.              *)
Proposal(b) == [prev |-> sealed[b].prev, from |-> sealed[b].coinbase, hash |-> b]

(* Mutant: proposals are kept per height instead of per parent.            *)
ProposedAtSameHeight(b) ==
    \E p \in proposedAtHeight :
        sealed[p.hash].height = sealed[b].height /\ p.from = sealed[b].coinbase

Proposed(b) ==
    \E p \in proposedAtHeight : p.prev = sealed[b].prev /\ p.from = sealed[b].coinbase

Equivocators(b) ==
    IF Proposed(b) /\ Proposal(b) \notin proposedAtHeight THEN {sealed[b].coinbase} ELSE {}

-----------------------------------------------------------------------------
(* NewChainWithAlloc.                                                      *)
Init ==
    /\ IsTable(sealed)
    /\ blocks = {Genesis}
    /\ td = [b \in BlockHash |-> IF b = Genesis THEN sealed[b].difficulty ELSE 0]
    /\ head = Genesis
    /\ headState = {Genesis}
    /\ heightIndex = rebuildIndex({Genesis})
    /\ attestedRound = {}
    /\ checkpointStake = [h \in Hash |-> 0]
    /\ finalizedHash = NoHash
    /\ finalizedHeight = 0
    /\ jailed = {}
    /\ proposedAtHeight = {}

(* The commit of an accepted block: tallies and evidence first, whichever  *)
(* branch the block is on, then the reorg decision.                        *)
Finality(b) ==
    IF Mode = "PoS"
    THEN LET t == recordAttestations(b) IN
         /\ attestedRound' = t.attestedRound
         /\ checkpointStake' = t.checkpointStake
         /\ finalizedHash' = t.finalizedHash
         /\ finalizedHeight' = t.finalizedHeight
         /\ jailed' = t.jailed \cup Equivocators(b)
         /\ proposedAtHeight' =
              IF Proposed(b) THEN proposedAtHeight ELSE proposedAtHeight \cup {Proposal(b)}
    ELSE UNCHANGED <<attestedRound, checkpointStake, finalizedHash, finalizedHeight,
                     jailed, proposedAtHeight>>

(* Mutant: the longest branch wins, whatever it weighs.                    *)
ReorgByHeight(b) ==
    IF sealed[b].height > sealed[head].height
    THEN /\ head' = b
         /\ headState' = chainTo[b]
         /\ heightIndex' = rebuildIndex(chainTo[b])
    ELSE UNCHANGED <<head, headState, heightIndex>>

(* Mutant: an equally heavy branch takes over.                             *)
ReorgOnTie(b) ==
    IF td'[b] >= td[head]
    THEN /\ head' = b
         /\ headState' = chainTo[b]
         /\ heightIndex' = rebuildIndex(chainTo[b])
    ELSE UNCHANGED <<head, headState, heightIndex>>

(* Mutant: the index is written over, not made anew.                       *)
ReorgKeepIndex(b) ==
    IF td'[b] > td[head]
    THEN /\ head' = b
         /\ headState' = chainTo[b]
         /\ LET new == rebuildIndex(chainTo[b]) IN
            heightIndex' = [h \in DOMAIN new \cup DOMAIN heightIndex |->
                              IF h \in DOMAIN new THEN new[h] ELSE heightIndex[h]]
    ELSE UNCHANGED <<head, headState, heightIndex>>

Reorg(b) ==
    IF td'[b] > td[head]
    THEN /\ head' = b
         /\ headState' = chainTo[b]
         /\ heightIndex' = rebuildIndex(chainTo[b])
    ELSE UNCHANGED <<head, headState, heightIndex>>

AddBlock(b) ==
    /\ IsValid(b)
    /\ blocks' = blocks \cup {b}
    /\ td' = [td EXCEPT ![b] = td[sealed[b].prev] + weight(b)]
    /\ Finality(b)
    /\ Reorg(b)
    /\ UNCHANGED sealed

Next == \E b \in 2..Len(sealed) : AddBlock(b)

Spec == Init /\ [][Next]_vars

-----------------------------------------------------------------------------
(* The state is of the types of the Chain struct, and the canonical views  *)
(* name accepted blocks only.                                              *)
TypeOK ==
    /\ IsTable(sealed)
    /\ blocks \subseteq DOMAIN sealed
    /\ td \in [BlockHash -> Nat]
    /\ head \in blocks
    /\ headState \subseteq blocks
    /\ DOMAIN heightIndex \subseteq Nat
    /\ \A h \in DOMAIN heightIndex : heightIndex[h] \in blocks
    /\ attestedRound \subseteq [round : Nat, from : Validator, hash : Hash]
    /\ checkpointStake \in [Hash -> Nat]
    /\ finalizedHash \in Hash
    /\ finalizedHeight \in Nat
    /\ jailed \subseteq Validator
    /\ proposedAtHeight \subseteq [prev : Hash, from : Validator, hash : BlockHash]

(* The node implements the fork choice it promises, HeaviestChain: the     *)
(* running totals in td and the single comparison in AddBlock stand for    *)
(* the weight of whole branches and the maximum over all blocks.           *)
Promise ==
    INSTANCE HeaviestChain WITH
        parent   <- [b \in DOMAIN sealed |-> sealed[b].prev],
        own      <- [b \in DOMAIN sealed |->
                        IF b = Genesis THEN sealed[b].difficulty ELSE weight(b)],
        accepted <- blocks

ImplementsPromise == Promise!Spec

(* Every accepted block's parent was accepted, one height below it, and    *)
(* its cumulative weight is its parent's plus its own: what chainTo,       *)
(* deriveState and the reorg comparison of AddBlock take for granted.      *)
Rooted ==
    /\ td[Genesis] = sealed[Genesis].difficulty
    /\ \A b \in blocks \ {Genesis} :
         /\ sealed[b].prev \in blocks
         /\ sealed[b].height = sealed[sealed[b].prev].height + 1
         /\ td[b] = td[sealed[b].prev] + weight(b)

(* Fork choice: no accepted block outweighs the head, although AddBlock    *)
(* compares each arrival with the head of the moment only.                 *)
HeaviestHead == \A b \in blocks : td[b] =< td[head]

(* GetByHeight serves exactly the branch of the head: one block per height *)
(* from genesis to the head, each the parent of the next, and these are    *)
(* the blocks whose effects State() shows.                                 *)
CanonicalIndex ==
    /\ DOMAIN heightIndex = 0..sealed[head].height
    /\ heightIndex[0] = Genesis
    /\ heightIndex[sealed[head].height] = head
    /\ \A h \in 1..sealed[head].height :
          sealed[heightIndex[h]].prev = heightIndex[h - 1]
    /\ headState = {heightIndex[h] : h \in DOMAIN heightIndex}

(* What a validator can be held to: two accepted blocks of theirs on one   *)
(* parent, or two votes of theirs for one round in accepted blocks.        *)
DoublePropose(v) ==
    \E b, c \in blocks \ {Genesis} :
        /\ b # c
        /\ sealed[b].prev = sealed[c].prev
        /\ sealed[b].coinbase = v /\ sealed[c].coinbase = v

CastVotes ==
    UNION {{sealed[b].attestations[i] : i \in 1..Len(sealed[b].attestations)} :
              b \in blocks \ {Genesis}}

AttestedTwice(v, cast) ==
    \E x, y \in cast :
        /\ x.from = v /\ y.from = v
        /\ CheckpointRound(x.height) = CheckpointRound(y.height)
        /\ x.hash # y.hash

DoubleAttest(v) == AttestedTwice(v, CastVotes)

(* Jailing is evidence, no more and no less: AddBlock jails exactly the    *)
(* validators that equivocated somewhere in the accepted blocks, whatever  *)
(* the order of arrival, and never one that did not.                       *)
JailedIffEvidence ==
    Mode = "PoS" =>
        \A v \in Validator : v \in jailed <=> DoublePropose(v) \/ DoubleAttest(v)

(* The stake lottery is decisive: on top of any accepted block exactly one *)
(* validator may propose, and never a jailed one, as long as anyone is     *)
(* left.                                                                   *)
OneProposerPerSlot ==
    Mode = "PoS" /\ EffectiveStake(jailed) > 0 =>
        \A b \in blocks :
            \E v \in Validator \ jailed :
                \A w \in Validator : SelectProposer(w, jailed, sealed[b].seed) <=> w = v

(* Two accepted blocks on one parent mean that somebody equivocated: the   *)
(* slot was filled twice by one validator, or opened again when the one    *)
(* that had filled it was jailed.                                          *)
ForksNeedEquivocation ==
    Mode = "PoS" /\ (\E b, c \in blocks \ {Genesis} : b # c /\ sealed[b].prev = sealed[c].prev)
        => jailed # {}

(* The validators with votes for h in accepted blocks, and their stake,    *)
(* each counted once.                                                      *)
Backers(h) == {a.from : a \in {c \in CastVotes : c.hash = h}}

BackingStake(h) == SumFunctionOnSet(Stake, Backers(h))

(* Somebody has voted for h in two rounds: verifyAttestations ties no hash *)
(* to a height, and recordAttestations tells votes apart by round alone.   *)
BackedTwice(h) ==
    \E x, y \in CastVotes :
        /\ x.from = y.from /\ x.hash = h /\ y.hash = h
        /\ CheckpointRound(x.height) # CheckpointRound(y.height)

(* A checkpoint is final by votes that are there for all to see, each      *)
(* validator's stake counted once: those who voted for it in accepted      *)
(* blocks have two thirds of what the effective stake is now, whichever    *)
(* branches carry the votes and whoever was jailed before, in between or   *)
(* since (a vote that is recorded keeps counting when its validator is     *)
(* jailed).  The exception is a hash that somebody voted for in two        *)
(* rounds, which recordAttestations counts twice.                          *)
FinalizedHasQuorum ==
    finalizedHash # NoHash /\ ~BackedTwice(finalizedHash) =>
        BackingStake(finalizedHash) * 3 >= EffectiveStake(jailed) * 2

(* The tally of a target is the stake of the votes recorded for it: no     *)
(* vote is counted that recordAttestations did not record, and none twice, *)
(* whichever blocks carry it.                                              *)
RecordedStake(votes, h) ==
    SumFunctionOnSet([r \in votes |-> Stake[r.from]], {r \in votes : r.hash = h})

TallyIsRecorded == checkpointStake = [h \in Hash |-> RecordedStake(attestedRound, h)]

(* What is final stays canonical for as long as it is the finalized        *)
(* checkpoint: a new head has that checkpoint at its height, and if the    *)
(* old head had it too then GetByHeight answers the same at every height   *)
(* up to it, reorg or not.                                                 *)
FinalizedPrefix ==
    [][finalizedHash # NoHash /\ head' # head =>
         /\ heightIndex'[finalizedHeight] = finalizedHash
         /\ finalizedHash \in headState =>
              \A h \in 0..finalizedHeight : heightIndex'[h] = heightIndex[h]]_vars

(* Finality and jailing are permanent: the finalized height never goes     *)
(* back, its hash changes only with it, and nobody leaves the jail.        *)
Permanent ==
    [][/\ finalizedHeight' >= finalizedHeight
       /\ finalizedHash' # finalizedHash => finalizedHeight' > finalizedHeight
       /\ jailed \subseteq jailed']_vars

-----------------------------------------------------------------------------
(* The inductive strengthening of the invariants above.                    *)

(* The canonical views are those of the head.                              *)
HeadViews == headState = chainTo[head] /\ heightIndex = rebuildIndex(chainTo[head])

(* The recorded votes are one per round and validator, all of them cast;   *)
(* a cast vote that was not recorded belongs to a jailed validator.        *)
Recorded(t, cast) ==
    /\ \A r, s \in t.attestedRound : r.round = s.round /\ r.from = s.from => r = s
    /\ \A r \in t.attestedRound : \E a \in cast : r = VoteOf(a)
    /\ \A a \in cast : VoteOf(a) \in t.attestedRound \/ a.from \in t.jailed

(* The same for proposals: one per parent and validator.                   *)
ProposalsRecorded ==
    /\ \A p, q \in proposedAtHeight : p.prev = q.prev /\ p.from = q.from => p = q
    /\ \A p \in proposedAtHeight : p.hash \in blocks \ {Genesis} /\ p = Proposal(p.hash)
    /\ \A b \in blocks \ {Genesis} :
          Proposal(b) \in proposedAtHeight \/ sealed[b].coinbase \in jailed

(* The tally of the finalized hash is still two thirds of what is          *)
(* effective: it only grows, and the total only falls.                     *)
TalliedQuorum ==
    finalizedHash # NoHash =>
        checkpointStake[finalizedHash] * 3 >= EffectiveStake(jailed) * 2

JailedHasEvidence == \A v \in jailed : DoublePropose(v) \/ DoubleAttest(v)

TreeInv == TypeOK /\ Genesis \in blocks /\ Rooted /\ HeaviestHead /\ HeadViews

EvidenceInv ==
    IF Mode = "PoW" THEN finalizedHash = NoHash
    ELSE Recorded(tally, CastVotes) /\ ProposalsRecorded /\ JailedHasEvidence
=============================================================================
