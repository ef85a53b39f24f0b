-------------------------------- MODULE Node --------------------------------
(***************************************************************************)
(* One node of node/node.go: its canonical branch, its mempool, and the    *)
(* operations that hold its lock: SubmitTx, MineBlock and                  *)
(* AcceptExternalBlock.  A branch is the sequence of its blocks, each with *)
(* the state after it; a block of a peer extends the branch or, with one   *)
(* block more than it takes back, replaces its end (which of two branches  *)
(* wins is Chain).                                                         *)
(***************************************************************************)
EXTENDS BlockBuilder

CONSTANTS
    Alloc,           \* genesis balances of users
    Miner, Peer,     \* coinbase of this node, and of all others
    Workloads        \* what a run begins with, records of Workload

(* A configuration, the transactions that are signed under it, and bounds: *)
(* the blocks a reorganisation takes back, the transactions in a peer's    *)
(* block, the height up to which peers' blocks arrive and the height up to *)
(* which empty blocks are mined.                                           *)
Workload == [initialBaseFee : Nat, maxMempool : Nat \ {0}, txs : SUBSET Txs,
             maxReorg : Nat, maxBody : Nat, maxExternal : Nat, maxIdle : Nat]

ASSUME NodeAssumption ==
    /\ {Miner, Peer} \subseteq Users
    /\ DOMAIN Alloc \subseteq Users /\ \A u \in DOMAIN Alloc : Alloc[u] \in Uint64
    /\ \A w \in Workloads : w \in Workload

VARIABLES
    workload,
    chain,    \* the canonical branch, chain[1] the genesis
    mempool

nodeVars == <<workload, chain, mempool>>

Block == [txs : Seq(Txs), st : LedgerState, baseFee : Nat, gasUsed : Nat]

headOf(branch) == branch[Len(branch)]
head == headOf(chain)
state == head.st

NodeInit ==
    /\ workload \in Workloads
    /\ chain = <<[txs |-> <<>>, st |-> fundGenesis(Alloc), baseFee |-> workload.initialBaseFee,
                  gasUsed |-> 0]>>
    /\ mempool = <<>>

NextBaseFee(branch) == ComputeBaseFee(headOf(branch).baseFee, headOf(branch).gasUsed)

(* A block with these transactions on its parent: the fee, the gas and the *)
(* root are what the validator derives again.                              *)
execute(parent, txs, coinbase) ==
    LET fee == ComputeBaseFee(parent.baseFee, parent.gasUsed)
        r   == applyBlock(parent.st, txs, coinbase, fee)
    IN  [err   |-> r.err,
         block |-> [txs |-> txs, st |-> r.st, baseFee |-> fee, gasUsed |-> r.gas]]

(* AddBlock of that block to the end of a branch.                          *)
AddBlock(branch, txs, coinbase) ==
    LET r == execute(headOf(branch), txs, coinbase)
    IN  [err |-> r.err, branch |-> Append(branch, r.block)]

-----------------------------------------------------------------------------
pooledFrom(u) == SelectSeq(mempool, LAMBDA tx : tx.from = u)

(* The nonce and the balance of a sender once the pooled transactions are  *)
(* done; gas and what orders lock are not deducted.                        *)
projectSender(u) ==
    LET pending == pooledFrom(u)
        spend(left, tx) == IF tx.from # tx.to /\ left >= tx.value THEN left - tx.value ELSE left
    IN  [nonce   |-> state.nonce[u] + Len(pending),
         balance |-> loop(state.balance[u],
                          [i \in 1..Len(pending) |-> [left \in Nat |-> spend(left, pending[i])]])]

SubmitTx(tx) ==
    /\ tx.genuine
    /\ tx.nonce = projectSender(tx.from).nonce
    /\ tx.from # tx.to => projectSender(tx.from).balance >= tx.value
    /\ Len(mempool) < workload.maxMempool
    /\ mempool' = Append(mempool, tx)
    /\ UNCHANGED <<workload, chain>>

(* A pool without the transactions of a block.                             *)
dropIncluded(pool, txs) ==
    loop(<<>>, [i \in 1..Len(pool) |-> [kept \in Seq(Txs) |->
                   IF pool[i] \in Range(txs) THEN kept ELSE Append(kept, pool[i])]])

(* Mutant: the pool is emptied, whatever the block took from it.           *)
commitBlockClearing(block, txs) ==
    /\ chain' = block.branch
    /\ mempool' = <<>>
    /\ UNCHANGED workload

commitBlock(block, txs) ==
    /\ chain' = block.branch
    /\ mempool' = dropIncluded(mempool, txs)
    /\ UNCHANGED workload

buildCandidate == BuildBlockTxs(state, mempool, NextBaseFee(chain))

(* The candidate is executed to fill its header before it is sealed: an    *)
(* error there is returned, and nothing has changed.                       *)
MineBlock ==
    \E txs \in {buildCandidate} : \E block \in {AddBlock(chain, txs, Miner)} :
        /\ txs # <<>> \/ Len(chain) <= workload.maxIdle
        /\ block.err = "nil"
        /\ commitBlock(block, txs)

(* One more block of a peer, unless one before it was refused.             *)
addNext(acc, txs) == IF acc.err # "nil" THEN acc ELSE AddBlock(acc.branch, txs, Peer)

addBlocks(branch, bodies) ==
    loop([err |-> "nil", branch |-> branch],
         [i \in 1..Len(bodies) |-> [acc \in [err : Errors, branch : Seq(Block)] |->
             addNext(acc, bodies[i])]])

(* A peer's block becomes the head.  What the pool holds stays in it.      *)
AcceptExternalBlock(drop, bodies) ==
    LET result == addBlocks(SubSeq(chain, 1, Len(chain) - drop), bodies)
    IN  /\ result.err = "nil"
        /\ chain' = result.branch
        /\ UNCHANGED <<workload, mempool>>

External ==
    \E drop \in 0..workload.maxReorg :
        /\ drop < Len(chain)
        /\ Len(chain) <= workload.maxExternal
        /\ \E bodies \in [1..(drop + 1) ->
                              UNION {[1..n -> workload.txs] : n \in 0..workload.maxBody}] :
              AcceptExternalBlock(drop, bodies)

NodeNext ==
    \/ \E tx \in workload.txs : SubmitTx(tx)
    \/ MineBlock
    \/ External

NodeSpec == NodeInit /\ [][NodeNext]_nodeVars

(* The tick loop of cmd/l1 calls MineBlock again and again.                *)
LiveSpec == NodeSpec /\ WF_nodeVars(MineBlock)

-----------------------------------------------------------------------------
onChain == UNION {Range(chain[i].txs) : i \in 1..Len(chain)}

(* What all accounts hold after a block of the branch, with what contracts *)
(* held that self-destructed.                                              *)
supply(i) == SumFunction(chain[i].st.balance) + chain[i].st.lost

(* No money is made or lost but by three rules: a block adds the reward to *)
(* what all accounts hold; it takes its gas at its base fee, as its header *)
(* records them; and Finalise deletes what a contract holds that           *)
(* self-destructs in the transaction that creates it.  Reserve, refund,    *)
(* tip and what contracts pay cancel out.  That holds as long as the       *)
(* rewards do not take the genesis allocation beyond a uint64.             *)
SupplyAudit ==
    \A i \in 2..Len(chain) :
        supply(1) + (i - 1) * BlockReward < Word =>
            supply(i) = supply(i - 1) + BlockReward - chain[i].gasUsed * chain[i].baseFee

(* The transactions of the branch by block and index in the block.         *)
positions == UNION {{i} \X (1..Len(chain[i].txs)) : i \in 1..Len(chain)}
txAt(p) == chain[p[1]].txs[p[2]]

(* No transaction is on the branch twice, nor another one in its place,    *)
(* whoever built the blocks: an account's transactions have the nonces     *)
(* below that of the account, each of them once.                           *)
NoReplay ==
    /\ \A p, q \in positions :
          txAt(p).from = txAt(q).from /\ txAt(p).nonce = txAt(q).nonce => p = q
    /\ \A u \in Users :
          {txAt(p).nonce : p \in {q \in positions : txAt(q).from = u}}
              = 0..(state.nonce[u] - 1)

-----------------------------------------------------------------------------
(* MineBlock would end with err now.                                       *)
MineEnds(err) == \E txs \in {buildCandidate} : AddBlock(chain, txs, Miner).err = err

(* The pooled transactions of a sender carry on from its account's nonce   *)
(* without a gap: what SubmitTx keeps for "per-sender nonce sequencing" as *)
(* long as no block of a peer takes nonces away.                           *)
Sequenced ==
    \A u \in Users : \A i \in 1..Len(pooledFrom(u)) :
        pooledFrom(u)[i].nonce = state.nonce[u] + i - 1

(* A sender has the value and the gas of all that it has pooled.           *)
Funded ==
    \A u \in Users :
        SumFunction([i \in 1..Len(pooledFrom(u)) |->
                        pooledFrom(u)[i].value + gasReserve(pooledFrom(u)[i])])
            <= state.balance[u]

(* A pooled transaction that needs no gas now needs none, or has it, once  *)
(* the pooled creations are done; no tip is above its cap; and the book    *)
(* takes every pooled order.                                               *)
Includable(tx) ==
    /\ ValidateFeeCapTip(tx.feeCap, tx.tipCap)
    /\ IsExchangeTx(tx) => tx.run.ok
    /\ tx.to \in Users \X (0..MaxNonce) =>
          isFeePriced(state, tx) \/ tx.feeCap >= NextBaseFee(chain)

(* BuildBlockTxs makes a block that the node itself accepts, of whatever   *)
(* is pooled in whatever order, within gas, nonces and balances, as long   *)
(* as the pool has nothing that SubmitTx does not look at.                 *)
BuildsWhatItCanMine ==
    Sequenced /\ Funded /\ (\A tx \in Range(mempool) : Includable(tx)) => MineEnds("nil")

(* The pool never keeps MineBlock from mining for the nonces: "skipping    *)
(* ahead would make the resulting block fail AddBlock's own ErrBadNonce    *)
(* check".                                                                 *)
NeverBadNonce == ~MineEnds("ErrBadNonce")

(* Nor for a transaction that is priced out: "a fee-priced transaction     *)
(* that is priced out (GasFeeCap below BaseFee) ... blocks every LATER     *)
(* transaction".                                                           *)
NeverPricedOut == ~MineEnds("ErrFeeCapBelowBaseFee")

(* Nor for a transfer that cannot be paid: SubmitTx "rejects ... wrong     *)
(* nonces, and unaffordable transfers, projecting already-pooled txs".     *)
NeverUnaffordable == ~MineEnds("ErrInsufficientBalance")

(* An order does not hold up the pool: "a rejected order must still        *)
(* consume its nonce, or the sender can replay it and the mempool cannot   *)
(* make progress past it".                                                 *)
ProgressPastOrders ==
    \A tx \in Txs : IsExchangeTx(tx) /\ tx \in Range(mempool) ~> state.nonce[tx.from] > tx.nonce
=============================================================================
