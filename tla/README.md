# TLA+ model of l1chain

A verification development for the Go blockchain node in this repository: TLA+
modules that model its parts, TLC runs that check them on small instances, and
TLAPS proofs of the main safety results for every value of the constants.

## 1. The system

A node keeps a tree of blocks and a canonical branch of it. Blocks come from its
own mining (PoW) or proposing (PoS) loop and from peers; every one of them goes
through `chain.AddBlock`, under the node's write lock.

| Part | State | Operations | What is hard about it |
|---|---|---|---|
| `chain/chain.go` | block map, cumulative weight, head, head state, height index; PoS: votes per round, stake per target, finalized checkpoint, jailed set, proposals per parent | `AddBlock` | arrival order; reorgs; tallies and jailing that are global while blocks are on branches; verdicts that depend on the jailed set of the moment |
| `pos/` | registry fixed at genesis | `SelectProposer`, `EffectiveStake`, attestation coding | range boundaries of the stake lottery |
| `chain/transition.go`, `evm_wiring.go` | accounts, code, storage | `applyTxsAt` and the contract and EVM paths | one failing transaction fails the block; gas and tips |
| `chain/feemarket.go`, `blockbuilder.go` | none | `ComputeBaseFee`, `BuildBlockTxs` | integer edges; gas limit against nonce order |
| `node/node.go` | chain, mempool, last attested height | `SubmitTx`, `MineBlock`, `ProposeBlock`, `MaybeAttest`, `AcceptExternalBlock` | stale pool; reads before an unlock |
| `store/` | key-value pairs | `Save`, `Load` | a crash between two writes; replay |
| `p2p/gossip.go`, `sync.go` | semaphore of running syncs | `handleBlock`, range responder, `syncFrom` | lost and repeated blocks; forks below the local head |
| `exchange/` | order book in contract storage | `Apply`, batch session `Apply`/`Finish` | balances written back at the end of a block |
| `state/`, `trie/` | Merkle Patricia trie | get, put, delete, proofs | canonical shape |
| `vm/`, `evm/` | call scopes, journal | call, revert, snapshot | nested reverts |

`consensus/`, `core/`, `wallet/`, `rpc/`, `cmd/` are hashing, encoding, keys,
request handling and the loop that calls the node operations every tick.

How they interact: the tick loop and peers' blocks meet at the node's lock (`Node`,
`Validator`); what they hand to `AddBlock` decides head and finality (`Chain`,
`Replicas`) and is executed by the state transition (`Ledger`, `Exchange`) on a state
kept in tries (`StateTrie`), with the two virtual machines on top of it (`StackVM`,
`Journal`); after each block the branch is saved (`Store`) and announced (`Sync`).

## 2. Modules

| Module | Models | Source |
|---|---|---|
| `Chain` | one node's `chain.Chain`, both consensus modes | `chain/chain.go`, `pos/` |
| `HeaviestChain` | what that component promises about its head (abstract) | |
| `Replicas` | two nodes that are offered the same blocks in their own orders | `chain/chain.go` |
| `Store` | a persistent PoW node: `Chain`, its database, crashes and restarts | `store/`, `node.New` |
| `FeeMarket` | base fee, tips, gas accounting, at their width | `chain/feemarket.go` |
| `Ledger` | the state transition: every kind of transaction, rewards | `chain/transition.go`, `evm_wiring.go` |
| `BlockBuilder` | the choice of pooled transactions for a block | `chain/blockbuilder.go` |
| `Node` | mempool, mining, accepting blocks of peers; composes the three above | `node/node.go` |
| `Validator` | proposing and attesting over `Chain` | `node/node.go` |
| `Sync` | gossip and catch-up between nodes | `p2p/gossip.go`, `p2p/sync.go` |
| `Snapshots` | what revertible state promises (abstract) | |
| `StackVM` | the stack machine, instruction by instruction | `vm/stackvm.go` |
| `Journal` | the EVM adapter's undo log | `evm/adapter/`, `applyEVMTx` |
| `Trie`, `StateTrie` | the Merkle Patricia trie, and the state and proofs over it | `trie/`, `state/` |
| `OrderBook` | the matching engine, external, from how it is used | |
| `Exchange` | the book in contract storage, both matching modes | `exchange/` |
| `ChainProofs`, `ReplicasProofs`, `StoreProofs`, `ValidatorProofs`, `NodeProofs`, `SyncProofs`, `JournalProofs` | lemmas, inductive invariants, theorems | |
| `SumLemmas` | induction and sums over finite sets, for the proofs about balances and stakes | |
| `MC...` | instances for TLC, one per specification that is run | |

Operators whose comment begins with *Mutant* are variants of the definition after
them with a plausible mistake. Nothing uses them; substituting one for its
original must break the property `PROJECT.json` pairs it with.

### Chain

*Blocks.* A hash commits to a block's contents and, through `PrevHash`, to its
whole history; an attestation can only name a hash that existed before its
block did. So the blocks that exist form a table `sealed`: a sequence of
records whose parent and vote targets are earlier rows (or the zero hash, or the
hash of no block). A block's hash is its row. The table is chosen in the initial
state and never changes; a node accepts rows of it in any order the checks allow.

*Fields.* A row keeps what `AddBlock` tells apart: `prev`, `height`, `coinbase`,
`difficulty`, the list of decoded attestations, `seed` (the number `ProposerSeed`
derives from the block's hash for the slot on top of it) and `wellFormed`. The
last one is the joint verdict of the checks that depend on the block, its
ancestry and the genesis configuration alone and are therefore the same on every
node and at every time: base fee, proof of work or proposer signature,
attestation coding and signatures, transaction root, chain id, execution, gas and
state root. All checks that read the node's mutable state are modelled one by
one: known parent, height, duplicate, finality, selected proposer, alignment and
age of attestations.

*State.* One variable per field of the struct. `attestedRound` and
`proposedAtHeight` are maps of maps in the code and sets of records here;
`headState` is the set of blocks whose effects the canonical state contains,
which is what `deriveState` replays.

*The action.* `AddBlock(b)` is the whole handler: the checks (`IsValid`), the
commit of block and weight, then in PoS the loop over the block's attestations
(`recordAttestations`, a fold of the loop body `recordAttestation`, in order, with
jailing and finalization taking effect between two votes of the same block) and
`detectEquivocation`, then the reorg decision with `rebuildIndex`. A rejected
block changes nothing in the code and is a stuttering step here.

Integers are naturals. `checkpointStake*3` and `effectiveTotal*2` wrap in the
code when the total stake exceeds a third of 2^64; the model is exact below.

### HeaviestChain

The node gathers blocks parents first; its head is always a block whose branch
weighs at least as much as any other it has, and it leaves the head only for a
strictly heavier one. `branchWeight` adds the weights of the whole branch, where
`Chain` keeps running totals and makes one comparison per arrival.

### Replicas

Two instances of `Chain` over one table. `AcceptA(b)` and `AcceptB(b)` are
`AcceptExternalBlock` on either node. `Quiescent` says that neither node would
accept anything more, however often everything is offered again.

### Store

`Chain` together with the three things `store/` keeps: the blocks stored
(`dbBlocks`), the height index (`dbHeights`) and the head (`dbHead`). `Accept(b)` is
`AcceptExternalBlock`, or `commitBlock` without its mempool: `AddBlock`, and then
`Save` under the same lock. `Save` is one action per database transaction
(`PutBlock`, `SetCanonical`, `SetHead`), because the process may stop (`Crash`) or the
write fail (`SaveFails`) before each of them; `cursor` is the loop's position and
`torn` says that a `Save` has begun on this database and none was completed since.
`Restart` is `New`: a fresh genesis if no head is stored, the chain rebuilt by `Load`
(`Loads`, `Replayed`, `Reload`), or its error (`pc = "failed"`). `Load` runs before
`SetChainID`; `defaultID` says whether that makes a difference, `carriesTxs` for which
blocks. The exchange mode is set even later, by the caller of `New`, and is not
modelled. `GenesisTimestamp` is taken to be configured, so that a second fresh start
makes the same genesis. A PoS node refuses to start on a database that has a head.

### FeeMarket, Ledger, BlockBuilder, Node

`FeeMarket` keeps the width: a `uint64` has `Word` values, and what the code multiplies
or adds without a check wraps. `Ledger` is `applyTxsAt` as operators: a transaction maps
a state of balances, nonces and code to a result with an error, the gas used and
the tip, one operator per dispatch of `applyTxAtSession` (transfer, contract creation
and call, EVM deployment and call, order, attestation), with gas reserved first and
refunded after, and the reward at the end of the block. What a contract's code does
(gas needed, success, what it pays and whom, whether it ends in a self-destruction) is a
field of the transaction that calls it. `Finalise` deletes a contract that destroyed itself
in the transaction that created it, with all it holds; the field `lost` of a state adds up
what went that way, for the audit alone.
`BlockBuilder` is `BuildBlockTxs`: queues per sender, a pass over what needs no gas, and
a choice by tip under the gas limit.

`Node` has the canonical branch, each block with the state after it, and the mempool.
`SubmitTx`, `MineBlock` (build, execute, commit, remove from the pool) and `External`
(`AcceptExternalBlock`, for a block of a peer that extends the branch or replaces its
end) are whole handlers under one lock. Which of two branches wins is `Chain`'s
question; here a replacement is one block longer than what it takes back.

### Validator

`ProposeBlock` and `MaybeAttest` over `Chain`. `MaybeAttest` takes the node's lock three
times: it reads the head and the nonce (`ReadHead`), submits the vote (`SubmitVote`) and
records the height (`RecordHeight`). Blocks of peers are accepted in between. The table
also has the rows this validator will come to propose; such a row is accepted from
outside only once it has been made.

### Sync

Nodes with equal weights per block, announcements under way, and the running
catch-up syncs with their slots. `handleBlock` accepts, drops a block it has, or starts
a sync if a slot is free; a sync is the goroutine in phases: request from the local
height, the responder's stream (at most `maxBlocksPerSync`), one block after the
other, the announced block once more, release of the slot. A responder has slots of its
own (`inbound`): with all of them taken it resets the stream (`Refuse`), and it gives one
back when its handler returns (`Release`). A request to a node that is silent ends by the
deadline (`Timeout`). While the network is `Faulty`, announcements are lost, streams are
truncated and break. `Resync` starts a sync with no announced block.

### StackVM, Journal, Snapshots

`Snapshots` is the promise: a stack of whole states, where opening a frame keeps the
state it began with, a failure brings back exactly that one and a success keeps what the
frame wrote. Which of the two happens is not free: `ok` says whether the code that ended
last succeeded, and only a frame that did is kept. `StackVM` keeps it by
scopes that buffer writes and read through; a step is one instruction (all of them, with
their gas, operand and limit checks), a call opens a scope and a return commits it or
drops it. `Journal` keeps it by an undo log: one action per method of the adapter that
writes, each appending how to undo it, then `Settle` (the end of `applyEVMTx`) and
`Finalise`. Both are shown to implement `Snapshots` with the stack of states as the
mapping, and with the outcome of the call for `ok` (in `Journal` the history variable
`ended`, because the interpreter that decides it is external).

### Trie, StateTrie

`get`, `put`, `delete` with all the cases of splitting and merging nodes, `genProof` and
`VerifyProof`, as recursive operators on nodes. A node stands for its hash. All keys are
hashes of one length, so no path ends inside another and branch values do not
occur. `StateTrie` has one action per setter and a client that asks for storage
proofs, keeps them, and shows them later, whole or with the account half of a new one.

### OrderBook, Exchange

`OrderBook` is external. `Exchange.AddBlock(txs)` runs the transactions of a block on
balances, holdings, order slots and the last auction, transfers among them: in continuous mode `Load`,
`Apply` and `Save` around every order, in batch mode one session that loads with the
first order and is written back by `Finish`. A failing transaction fails the block. `crossed`
is a history variable: what transfers moved between accounts a session had read and others.

## 3. What TLC checks

| Run | Instance | States | Properties |
|---|---|---|---|
| `pow_fork_choice` | one PoW node; every tree of 4 blocks, weights 0 to 2, at most one block malformed or misnumbered | 97,482 | `HeaviestHead`, `CanonicalIndex`, `ImplementsPromise` |
| `pos` | one PoS node, 3 equal validators, interval 1, every tree of 4 blocks of four kinds: any proposers and seeds; two proposers with votes of two validators; two proposers with votes of a proposer, also for a block nobody has; one proposer with votes for one block under two heights | 602,626 | `OneProposerPerSlot`, `JailedIffEvidence`, `FinalizedHasQuorum`, `TallyIsRecorded`, `ForksNeedEquivocation`, `FinalizedPrefix` |
| `finality_reversed` | a table of nine blocks | (violation) | `FinalityIrreversible` |
| `replicas` | two nodes, one table of 4 or 5 blocks, PoW and PoS, with and without votes | 542,139 | `SameBlocksSameView`, `DeliveredAgree` |
| `store` | a persistent node; every tree of 4 blocks with weights 0 and 1, of 3 with 0 to 2, and of 2 under another chain id than the default | 1,102,617 | `RunningIsSaved`, `ChainRestored`, `FailureExplained`, `PersistedWeightGrows` |
| `node` | ten workloads, see below | 35,701 | `SupplyAudit`, `NoReplay`, `BuildsWhatItCanMine`, `PooledIsMined` |
| `sync` | two followers of a miner, 6 blocks; the same with one of them silent, 5 blocks; two miners that fork, 4 blocks | 47,499 | `RefusedOnlyAtForks`, `CatchesUp`, `SlotsComeFree` |
| `vm` | messages to 3 accounts with programs that call one another and themselves, and programs that use every instruction | 33,706 | `VMConserves`, `OnInstructions`, `ImplementsSnapshots`, `VMTerminates` |
| `journal` | 2 addresses, journal of 4, 3 nested frames, three account tables | 212,272 | `JournalImplementsSnapshots`, `CommittedIsOriginal`, `ErrorChangesNothing`, `BalancesKept` |
| `state_trie` | 4 addresses, 2 of them contracts, 3 slots, binary paths of length 3; and a client with proofs | 31,888 | `RootIsCanonical`, `ReadsLastWrite`, `ProofsAreAccepted`, `ProofsShowTheState` |
| `exchange` | 2 accounts, prices and quantities 1 and 2; 4 blocks of one transaction, or 2 batch blocks of up to two, of any kinds | 47,354 | `Conserved`, `LocksMatchBook`, `SlotsAreBook`, `BookLoads` |
| `validator_honest` | 2 equal validators, interval 2, trees of 4 blocks, pool of 2 | 48,044 | `NeverIncriminated`, `SubmittedOnce` |

What they show, beyond the names:

* `ForksNeedEquivocation`: two accepted blocks on one parent mean that somebody has
  been jailed. `TallyIsRecorded`: the stake counted for a target is the sum over the
  votes recorded for it, whatever was jailed between two votes. `FinalizedHasQuorum`: those
  who voted for the finalized checkpoint have two thirds of the stake effective now, each
  counted once, unless somebody voted for its hash in two rounds (below).
* `SameBlocksSameView`: two nodes with the same blocks agree on weights, jailed set and
  the weight of the head. `DeliveredAgree`: nodes that would accept nothing more of what
  exists have the same blocks, unless both have jailed somebody or one has finalized a
  checkpoint. Neither condition can be left out: that of the jail is `SameExclusions`
  (below), and a node that finalizes block 2 of two siblings before the other arrives
  never takes that one, while a node that has both jails their proposer and refuses the
  votes' block.
* `FailureExplained`: `New` fails on a database the node wrote only if a cut-short `Save`
  left a mixture of two branches, or if `Load` met transactions of another chain id.
* `SupplyAudit` adds up all balances against genesis, rewards, burnt fees and what
  self-destructed contracts held, after every block; `BuildsWhatItCanMine` says that a pool with nothing in it that `SubmitTx` fails
  to look at always gives a block the node accepts; `PooledIsMined` that a full block, or
  a base fee risen above a cap, or somebody else's transaction that never fits or never
  pays, puts nothing off for ever.
* `RefusedOnlyAtForks`: when a block of a stream lacks its parent, it is the first one, at
  the height the sync asked for, and the block below it on the node's own branch is
  another than its parent: a fork, never a gap that the sync itself left.
* `CatchesUp`: followers that missed any of the first blocks, or had no slot left here or at
  the responder, end at the miner's head, when every node answers. `SlotsComeFree` holds
  beside a silent node, too.
* `RootIsCanonical` compares the root after any history with the trie built from the
  contents alone; `ProofsShowTheState` covers proofs of earlier states and for other slots, and
  a slot half of an earlier state under an account half of this one.
* `BookLoads`: the stored book can be loaded whenever every account on it still has what
  its orders lock, and no more than an `int64`.
* `Conserved`: base asset never changes in total; coins change only by a batch block with
  transfers between accounts its session has read and others, and by exactly their
  amounts, because `Finish` undoes one end of them (below).

### Bounds

Four blocks on genesis are enough for two competing branches of two blocks each,
for a shorter heavier branch against a longer one, for an equivocation whose
evidence completes late, and for two votes on different branches followed by a
block the finalized checkpoint excludes. With three equal validators two are exactly
two thirds, and jailing one changes both the lottery and the quorum. The number of
crashes, failed writes and restarts in `store` is not bounded.

The workloads of `node`: `Solo` (eight transactions of every kind, a forgery among them,
a pool of three), two `Live` ones (more gas than a block holds, at a fee that rises above the
caps, beside a transaction that never fits a block, and beside one that never pays),
`Destroy` (contracts that pay others and destroy themselves), `Network` and `NetworkFree`
(blocks of peers, reorganisations of one block, initial fee 3 or unset), and four small
ones behind the counterexamples below. A block's gas limit is 6, so two calls fill it; `Word` is 4096, above any amount that occurs.
`maxReorg`, `maxBody`, `maxExternal` and `maxIdle` bound reorganisations, peers' blocks and
empty blocks. In `sync` one slot at either end and streams of two blocks make slots run out and
answers fall short. The stack machine's word has two bytes (`WordBytes`), so that the longer
pushes overflow it; its stack has 8 places, calls nest to depth 2, memory is 4 bytes: every limit is met by a program. The journal's
amounts come next to `Uint64` = 4, so additions overflow. In the trie three nibbles
allow every split and merge: leaf, extension and branch above each other. In the
exchange `MaxInt64` is 7, one below the sum of the coins.

Deadlock is not an error where the cfg says so: a finite table is used up, a message
ends, a node has nothing more to mine below the bounds, a store fails to start.

### Fairness

* `Node`, for the `Live` workloads: `MineBlock` is called again and again; it is the tick
  loop of `cmd/l1/main.go` (lines 500 to 549), which does nothing else.
* `Sync`: an announcement that is not lost is handled, the goroutine of a sync runs, a
  responder's handler returns (both have a deadline), and miners go on mining. Losing and
  breaking is not fair: after the faulty phase it does not happen, and mining waits until the network is quiet (a block time is long
  against a round trip).
* `StackVM`: the interpreter goes on while it is running.
* `Validator`: the tick loop comes to `MaybeAttest` again and again.

### Disagreements between code and comments

Where the code does something other than a comment says, the property states the
comment and TLC finds a counterexample. `finality_reversed` is a run; the others have a
cfg of their own, to be run by hand with `tlc -config <cfg> <module>`.

* `finality_reversed` (`FinalityIrreversible`). `chain/chain.go:52` says that no branch
  that conflicts with a finalized checkpoint "can ever become canonical again".
  `recordAttestations` accepts any target above the finalized height, on whatever
  branch. Nine blocks: validators 2 and 3 vote for height 1 of one branch, then for
  height 2 of the other (different rounds, so no equivocation); the second target
  becomes final, `respectsFinality` now rejects the first branch, and the head moves to
  the second one. What does hold, and is proved, is `FinalizedPrefix`: as long as a
  checkpoint is the finalized one nothing below it changes.
* `MCChainPoSForks.cfg` (`ForksAreDoubleProposals`). `chain/chain.go:637` says that the only
  way a fork arises is a double proposal. The proposer of a slot depends on the jailed
  set when the block arrives: once the proposer of an accepted block is jailed for a
  double vote, the same slot accepts a block of the next validator. What holds, and is
  proved, is `ForksNeedEquivocation`.
* `MCChainPoS.cfg` with `QuorumOfValidators` as its invariant. `chain/chain.go:530` says that
  a target is final once it has two thirds of the effective validators' stake. The registry of votes is kept per round, and
  the tally per hash: a validator that votes for one hash under two heights is counted
  twice. What holds, and is proved, is `FinalizedHasQuorum`.
* `MCReplicasJail.cfg` (`SameExclusions`). `pos/validator.go:89` says that the jailed set is
  derived identically on every node. It is a function of the accepted blocks (proved:
  `JailIsEvidence`), but which blocks are accepted depends on whether they arrive before
  or after the evidence against their proposer. Two nodes that have been offered the
  same five blocks keep different jailed sets.
* `MCStoreFails.cfg` (`AlwaysRecovers`). `node/node.go:167` says that the chain is loaded from
  a stored head. `Save` rewrites the index in place and the head last, in separate
  transactions; a crash in between, after a reorg, leaves the old head over entries of
  the new branch, and `Load` rejects the mixture on every later start. With
  `FailsOnlyTorn` as the cfg's invariant instead: `node/node.go:104` says that the chain id
  is threaded into the chain so that every flow agrees, but `Load` replays with the
  default one, so a node with another does not start on a database that holds a block
  with transactions. That these are the only two reasons is proved
  (`FailuresAreExplained`).
* `MCNodeRefused.cfg` (`NeverBadNonce`; put `NeverPricedOut` or `NeverUnaffordable` in its place
  for the other two). `MineBlock` can fail on what the pool holds, at every further
  call. `AcceptExternalBlock` does not touch the pool, so a nonce that a peer's block
  used is selected again, against `chain/blockbuilder.go:37`. `isFeePriced` looks at the head
  state only, so a transfer to an address that gets code in the same block is let
  through as free, against `chain/blockbuilder.go:34`. `projectSender` subtracts values and
  not gas, so a transfer of the rest of the balance is admitted behind a call, against
  `node/node.go:433`.
* `MCNodeOrder.cfg` (`ProgressPastOrders`). `chain/transition.go:110` says that a rejected order
  must still consume its nonce, so that the mempool makes progress. The error is
  returned from `applyTxAtSession` and fails the whole block, the nonce with it.
* `MCSyncPartition.cfg` (`ConvergesByResync`). `p2p/gossip.go:286` calls `Resync` the trigger for
  reconnecting after a partition. It asks for the blocks above the local height; when
  both sides mined, the answer begins above the fork and its first block has an
  unknown parent, however often it is asked for.
* `MCValidatorMissed.cfg` (`CrossedIsAttested`). `node/node.go:627` says that `MaybeAttest` acts
  when the head has crossed a checkpoint. It acts when the head is exactly at one; a
  head that moves past it between two ticks is not attested to.
* `MCExchangeSpent.cfg` (`AlwaysLoads`). `exchange/exchange.go:261` says that re-resting the
  orders re-establishes exactly their locks. A plain transfer may spend the coin that a
  resting bid locks (`chain/transition.go:166` looks at the balance alone); after it the
  book does not load. `BookLoads` says that nothing else prevents it.
* `MCExchangeOverwritten.cfg` (`NeverReconciled`).
  `exchange/exchange.go:26` says that a trade moves real chain balance. A batch session
  reads balances with its first order and `Finish` writes them back after the last
  transaction, over what transfers of the same block moved in between: coins are made or
  lost. `Conserved` says that this is the only way, and how many.

A base fee of 0 stays 0 (`chain/feemarket.go:47`), although line 37 promises a rise
whenever usage is above target, and `node.New` leaves the initial fee unset:
`NetworkFree` is that configuration, and `FeeFollowsTarget` needs a positive fee.

## 4. What is proved

| Theorem | Statement | Module |
|---|---|---|
| `TypeCorrect` | `Spec => []TypeOK` | `ChainProofs` |
| `ForkChoice` | `Spec => [](Rooted /\ HeaviestHead)` | |
| `IndexIsCanonical` | `Spec => []CanonicalIndex` | |
| `LotteryIsDecisive` | `Spec => []OneProposerPerSlot` | |
| `JailIsEvidence` | `Spec => []JailedIffEvidence` | |
| `QuorumKept` | `Spec => []FinalizedHasQuorum` | |
| `TallyMatchesVotes` | `Spec => []TallyIsRecorded` | |
| `FinalizedStaysCanonical` | `Spec => FinalizedPrefix` | |
| `FinalityIsPermanent` | `Spec => Permanent` | |
| `ForksProveEquivocation` | `Spec => []ForksNeedEquivocation` | |
| `ChainImplementsPromise` | `Spec => ImplementsPromise` | |
| `SameBlocksAgree` | `Spec /\ mode = Mode => []SameBlocksSameView` | `ReplicasProofs` |
| `DeliveryAgrees` | `Spec /\ mode = Mode => []DeliveredAgree` | |
| `NodeInvariance` | `NodeSpec => []NodeInv` | `NodeProofs` |
| `NeverReplayed` | `NodeSpec => []NoReplay` | |
| `SupplyAudited` | `NodeSpec => []SupplyAudit` | |
| `FeeFollowsTarget` | the next base fee moves towards the target, by one to an eighth up, by at most an eighth down, and stays positive | |
| `FeeStaysInRange` | the bound under which nothing wraps is kept from block to block | |
| `BranchFeesFollowGas` | `NodeSpec => []FeesFollowGas`: what the two say holds along every branch of a node | |
| `VotesSubmittedOnce` | `ValidatorSpec => []SubmittedOnce` | `ValidatorProofs` |
| `HonestIsNeverJailed` | `ValidatorSpec => []NeverIncriminated` | |
| `SavedIsCanonical` | `StoreSpec => []RunningIsSaved` | `StoreProofs` |
| `RestartsAreSound` | `StoreSpec => []ChainRestored` | |
| `StoredHeadNeverLighter` | `StoreSpec => PersistedWeightGrows` | |
| `FailuresAreExplained` | `StoreSpec => []FailureExplained` | |
| `SyncsStopAtForks` | `SyncSpec => []RefusedOnlyAtForks` | `SyncProofs` |
| `StreamsInOrder` | `SyncSpec => []StreamsAreBranches` | |
| `JournalInvariant` | `JournalSpec => []JournalInv` | `JournalProofs` |
| `JournalRefinesSnapshots` | `JournalSpec => JournalImplementsSnapshots` | |
| `CommittedValues` | `JournalSpec => []CommittedIsOriginal` | |
| `ErrorsUndoAll` | `JournalSpec => []ErrorChangesNothing` | |
| `BalancesConserved` | `JournalSpec => []BalancesKept` | |

Assumptions. About `Chain`: every registry of positive stakes, every checkpoint
interval, every finite table and both modes (`ModeAssumption`, `StakeAssumption`,
`IntervalAssumption`, `BoundAssumption`). `Store` adds `PoWAssumption`, `Validator` adds
`ValidatorAssumption` (PoS, a validator of the registry); `Replicas` makes those of
`Chain` for both nodes (`ReplicasAssumption`), `Sync` asks for positive limits and for
miners that are nodes (`SyncAssumption`), and `Journal` for finitely many addresses and
for balances within uint64 before the transaction (`JournalAssumption`). The theorems about
`Node` hold for every set of users and signed transactions, every gas limit below the word
size and every genesis allocation of uint64 balances (`FeeAssumption`,
`LedgerAssumption`, `TxAssumption`, `OrderAssumption`, `NodeAssumption`); that there are
finitely many addresses is `AddressAssumption` (an address has 20 bytes). TLC evaluates
each of them in the runs of the modules that declare them. The fee theorems are for an
even gas limit and a positive fee whose product with the target fits the word;
`FeeStaysInRange` derives that for the next block from a supply below half the word.

### Chain

* The inductive invariant is `Inv`: `TreeInv` (types, `Rooted`, `HeaviestHead`, and
  `HeadViews`: head state and index are those of the head's branch), `EvidenceInv`
  and `TalliedQuorum` (the tally of the finalized hash is two thirds).
* `HeaviestHead` alone is not inductive: a new block is compared with the head
  only, and the claim for the others needs the old maximum, and `Rooted` for the
  weight of its parent. `CanonicalIndex` needs a fact about data, `BranchIsPath`: the
  walk along `PrevHash` meets exactly one block at each height.
* `JailedIffEvidence` is not inductive either. That somebody who equivocated is jailed
  follows only if the registry of first votes and first proposals remembers
  enough: `Recorded` and `ProposalsRecorded` say it holds at most one entry per
  key, only entries that accepted blocks contain, and every such entry whose
  validator is not jailed. The last part is the delicate one: votes of jailed
  validators are not recorded at all.
* `TalliedQuorum` rests on `StakeAntitone`: excluding more validators never increases the
  effective total, so a quorum survives later jailing. `QuorumKept` goes from the tally to
  the validators behind it: the tally is the sum over the recorded votes
  (`TallyMatchesVotes`), these are among the votes in accepted blocks, and if nobody voted
  for the hash in two rounds no two of them are one validator's, so the sum is at most the
  stake of the voters (`SumPlaced`).
* `TallyMatchesVotes`: `Tallied` says of the tallies inside the loop what
  `TallyIsRecorded` says between blocks, and that the votes are finitely many. A pass of
  the loop either records a vote and adds its stake, or does neither; the vote it records
  was not there before because no vote of that round and validator was, so the sum over
  the recorded votes gets one term more (`OneVoteMore`).
* `LotteryIsDecisive` rests on `Lottery`: the ranges of the cumulative walk are
  disjoint, cover every value below the total, and are empty for excluded
  validators. It also shows that the fallback after the loop of `SelectProposer`
  is unreachable, as its comment says.
* `ForksProveEquivocation`: as long as nobody is jailed the lottery gives one slot to
  one validator, and two blocks of that validator on one parent are evidence.
* The refinement maps the table's `prev` and the block weights to `parent` and `own`;
  `TotalIsBranchWeight` shows that `td` is the sum over the branch.

### Replicas

The view of a node is a function of the blocks it has accepted; that is `SameBlocksAgree`,
for nodes that reached the same blocks in any two orders. From `Inv`, the jailed set is
the set of those with evidence in the blocks, and the weights are the solution of the
recursion along parents, which is unique (`SameView`, by induction on the row). Head and
index are not claimed equal: of equally heavy heads the earlier one is kept.
`DeliveryAgrees` needs to know more of what was accepted than `Inv` says. `VerdictInv`
records that every accepted block passed the checks that depend on the block alone, and
that the first jailing, if there was one, rests on a set of blocks that were drawn while
the jail was empty (`Drawn`: their proposer is the lottery's choice with nobody
excluded). So if one node has jailed nobody, all of the other's blocks up to its first
jailing pass the checks on the first node as well, parents first (`TakesDrawn`, by
induction on the row); they hold the evidence, so neither has jailed anybody, and then
each holds the other's blocks. `mode` never changes and the theorems are stated for each
value `Mode` of it: the proofs take `ChainProofs` twice, instantiated for either node.

### Validator

`VInv` adds three things to `Inv`. `AttestingInv`: what `MaybeAttest` holds between its locks
is for a height above the last one recorded. `CastInv`: the heights of the votes cast
strictly grow, and do not exceed the height recorded except between `SubmitVote` and
`RecordHeight`. `OwnInv`: whatever the chain and the pool have of this validator, it made.
It makes one block per parent because it proposes on its head, and no accepted block
is a child of the head (`HeadHasNoChild`, from `Rooted` and `HeaviestHead`: in PoS a child
weighs more). One vote per height is one vote per round, and by `JailIsEvidence`'s
invariant a chain jails for evidence only. The theorem does not use fairness.

### Store

`SInv` adds to `Inv` what is true of the database at every moment, a cut-short `Save`
included: each index entry is a stored block of its height (`IndexTyped`); the stored head
is a block of the chain with index entries all the way down (`HeadStored`); up to the
cursor the index is the chain's (`SavedSoFar`), and all of it when nothing is torn
(`Saved`); the head, and so a stored head, outweighs its parent (`Outweighs`). The last
one is why the replay ends at the stored head although blocks of weight 0 on the way
do not move it.
`LoadRebuilds` shows, by induction on the height, that replaying a linked index gives
the weights of its blocks and a head as heavy as the last of them; `PathIsBranch` that such
an index is the branch of its last entry. `FailuresAreExplained` is the converse:
`BranchLoads` shows that an index that is the branch of the stored head loads.

### Sync

`SyncInv` says that every chain is closed under parents and no block is higher than its head
(`Linked`), that the blocks mined form a tree with heights that count the
distance to the genesis (`Table`), that announcements and syncs are about blocks that
exist and nodes of the network, and `StreamsAreBranches`: what is left of a stream runs up
one branch. A stream is taken from the responder's index at one moment and consumed
while both chains move on; that it stays in order needs only that blocks are never
changed, and that the walk from a head meets each height once, each block the parent of
the next (`BranchAtPath`). So only the next block of a stream can lack its parent, and if
it does the sync ends.
`SyncsStopAtForks` needs more of a stream than its order. `StreamsFit`: its next block is at the
height asked for, or a child of a block the node has; and the height asked for is at most
one above the head. Both stay true while other syncs and announcements move the node's
chain (`FitsStays`), because a node never loses a block and its head never gets lower. So a
next block without its parent is the first of the answer, and since the node's branch is of
its own blocks (`BranchInChain`) it has another block below that height. The theorems do
not use fairness.

### Node

`NodeInv` says that the branch is one (`Branch`): a genesis without transactions, and
blocks each of which `Follows` the one before it. It has the base fee that `ComputeBaseFee`
derives, its transactions carry on from the nonces of the parent's state in order and
leave the nonces of its own, its gas is within the limit, and the money in its state, what
was deleted included, is the parent's and the reward without the gas at the base fee. That
its state is otherwise the result of executing its transactions is not part of it. Neither `NoReplay` nor `SupplyAudit` is inductive by
itself: a block of a peer takes the branch back to any earlier block and goes on from the
state there, so what is kept must be said of every block and its parent. A prefix of a
branch is a branch (`BranchPrefix`), and what `AddBlock` executes and compares makes it one
block longer (`BranchGrows`), for blocks of this node and of peers alike.

Under `BlockExecuted` lies the state transition. `TxApplied` shows for each kind of
transaction, whatever its code does, that without an error the nonce was the account's and
moves by one, and that what left the accounts is the tip, the gas at the base fee and what
`Finalise` deleted:
reserve, transfer and refund cancel out and nothing wraps while the whole supply fits a
word. `TxsApplied` adds that up over a block; the iterations of the code's loops are those of
the function `loop`, and an invariant of the iterations is one of the loop (`LoopDef`).

`NeverReplayed` follows by induction along the branch: an account's nonces never go down
(`NoncesGrow`), a transaction lies between its sender's nonces before and after its block
(`Between`), so two at one nonce are in one block at one place (`OncePerNonce`), and each nonce
below the account's was used (`EveryNonce`). `SupplyAudited` follows from `Follows` and the bound
that the rewards put on the supply (`SupplyBound`). `BranchFeesFollowGas` joins the fee theorems
to the ledger: gas above the target was paid at the base fee out of the supply, so the
fee times the target stays within the word as long as twice the supply does
(`FeesInRange`).

### Journal

`JournalInv` has four parts. `Core`: the table has its shape, the snapshots held by the
interpreter are increasing lengths of the journal, and undoing the whole journal gives
the table the transaction found. `Committed`: a slot with an entry in the journal has its
committed value cached, so a value read into the cache later is still the original.
`Latched` and `Balanced`, the latter of the present table and of every one a frame may
return to, because a revert must keep the sum too; `Latched` also ties the latched error to
how the transaction `ended`. The work is in `history`, the tables
that undoing passes through: a write and its entry leave all of them as they were
(`undo` after the write is the identity, the tag of `SetCode` included), and reverting to
a snapshot leaves the ones below it. The refinement maps the frames' snapshots to those
tables. Sums are over an arbitrary finite set of addresses: `SumLemmas` shows that the
order in which the elements are taken does not matter, and how a sum follows a change
of one term.

### Means

The recursive functions (`chainTo`, `cumulativeStake`, `tallies`, `branchWeight`, `replays`, `branchAt`,
`history`, `loop`) are unfolded by induction on the row, validator, vote, height or iteration
number. The induction used is `SetInduction`, a first-order consequence of the
well-foundedness of the naturals. Sums are unfolded by induction on the subsets of a
finite set (`SubsetInduction`, on the length of a list that has all the elements).

Only model-checked: of `Node`, `BuildsWhatItCanMine` (it asks what the block builder would
do in every state, so its proof needs that the pool is sequenced and affordable as well),
and everything about `StackVM`, the tries and the exchange. The tries and the matching
engine are recursive operators, which the prover cannot use. Liveness under fairness and
`ENABLED` (`PooledIsMined`, `CatchesUp`, `SlotsComeFree`, `VMTerminates`) are beyond it as well.

## 5. Plan

1. `StackVM` implements `Snapshots` for every program; `BuildsWhatItCanMine` for every workload.
2. `Conserved` and `LocksMatchBook` for every engine with the promises of `OrderBook`.
3. The store under a configured exchange mode, which `New`'s caller sets after `Load`.

## 6. Not modelled

* Cryptography and encodings (`core`, `pos/bls.go`, `wallet`, the store's codec): a check
  of them is part of a block's `wellFormed` verdict. The widths of PoS stakes.
* libp2p plumbing (`p2p/host.go`, `mdns.go`, `dht.go`, `relay.go`): no protocol state of its
  own. Of `gossip.go`, transaction gossip (only tests publish).
* The RPC layer, wallet files and the command line: requests parsed and passed on. The
  tick loop is the fairness of `Node` and `Validator`.
* go-ethereum's interpreter and the matching engine are other repositories; the one is
  any sequence of calls of the adapter, the other `OrderBook`.
* Code that only tests call: the overlay behind `ApplyBlock`, `memStateDB`, `NoopVM`,
  `evm/runtime.go`, `NextDifficulty`; and `redteam/`, which is tests. Queries, such as the exchange's depth, change nothing.
