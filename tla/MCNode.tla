------------------------------- MODULE MCNode -------------------------------
EXTENDS Node

CONSTANTS alice, bob, miner, peer

MCUsers == {alice, bob, miner, peer}
MCAddressOrder == <<alice, bob, miner, peer>>

NoRun == [gas |-> 0, ok |-> TRUE, pays |-> 0, payee |-> peer, destroys |-> FALSE]

Transfer(from, nonce, to, value) ==
    [from |-> from, to |-> to, nonce |-> nonce, value |-> value, data |-> FALSE,
     gasLimit |-> 0, feeCap |-> 0, tipCap |-> 0, run |-> NoRun, genuine |-> TRUE]

Order(from, nonce, accepted) ==
    [Transfer(from, nonce, ExchangeAddress, 0) EXCEPT !.data = TRUE, !.run.ok = accepted]

Attestation(from, nonce) == [Transfer(from, nonce, AttestAddress, 0) EXCEPT !.data = TRUE]

Priced(from, nonce, to, value, data, gasLimit, feeCap, tipCap, run) ==
    [Transfer(from, nonce, to, value) EXCEPT
        !.data = data, !.gasLimit = gasLimit, !.feeCap = feeCap, !.tipCap = tipCap, !.run = run]

Run(gas, ok, pays) == [NoRun EXCEPT !.gas = gas, !.ok = ok, !.pays = pays]

(* A creation and a call that fails, perhaps before there is a contract,   *)
(* an EVM deployment and a call that runs out of gas, an accepted order,   *)
(* an attestation, a transfer and a forgery.                               *)
SoloTxs ==
    {Transfer(alice, 0, bob, 3),
     Priced(alice, 1, Zero, 2, TRUE, 4, 8, 2, NoRun),
     [Transfer(alice, 0, bob, 1) EXCEPT !.genuine = FALSE],
     Priced(bob, 0, <<alice, 1>>, 1, TRUE, 2, 7, 3, Run(1, FALSE, 0)),
     Priced(bob, 1, DeployAddress, 1, TRUE, 3, 9, 3, Run(2, TRUE, 0)),
     Priced(bob, 2, <<bob, 1>>, 2, FALSE, 2, 9, 9, Run(3, TRUE, 0)),
     Order(miner, 0, TRUE),
     Attestation(miner, 1)}
SoloAlloc == [u \in {alice, bob} |-> 100]

(* More gas than one block holds, at a fee that rises above the caps when  *)
(* it is used, and a transfer behind it.                                   *)
LiveTxs ==
    {Priced(alice, 0, DeployAddress, 2, TRUE, 4, 8, 2, Run(4, TRUE, 0)),
     Priced(bob, 0, DeployAddress, 0, TRUE, 4, 8, 1, Run(4, FALSE, 0)),
     Transfer(bob, 1, alice, 3)}

(* A tip that no one beats for more gas than a block may have, and a cap   *)
(* that the base fee never falls to.                                       *)
NeverFits == Priced(miner, 0, DeployAddress, 0, TRUE, 7, 8, 8, Run(1, TRUE, 0))
NeverPays == Priced(peer, 0, DeployAddress, 0, TRUE, 1, 1, 1, Run(1, TRUE, 0))

(* A deployment that pays and destroys itself with the rest, and one whose *)
(* contract is called, pays someone else and gives what is left to one     *)
(* that destroys itself.                                                   *)
DestroyTxs ==
    {Priced(alice, 0, DeployAddress, 5, TRUE, 2, 8, 2,
            [Run(2, TRUE, 1) EXCEPT !.destroys = TRUE]),
     Priced(alice, 1, <<alice, 0>>, 2, TRUE, 2, 8, 2, Run(2, TRUE, 1)),
     Priced(bob, 0, DeployAddress, 7, TRUE, 2, 8, 1, Run(1, TRUE, 0)),
     Priced(alice, 2, <<bob, 0>>, 2, TRUE, 2, 8, 1,
            [Run(1, TRUE, 3) EXCEPT !.destroys = TRUE])}

(* What peers put into blocks as well: less of it, for more interleavings. *)
NetworkTxs ==
    {Transfer(alice, 0, bob, 3),
     Priced(alice, 0, DeployAddress, 2, TRUE, 2, 8, 2, Run(1, TRUE, 0)),
     Priced(alice, 1, <<alice, 0>>, 1, TRUE, 2, 8, 1, [Run(2, TRUE, 2) EXCEPT !.payee = alice]),
     Transfer(bob, 0, alice, 4)}

(* A sender and a peer that has mined what this node has pooled.           *)
StaleTxs == {Transfer(alice, 0, bob, 3), Transfer(bob, 0, alice, 1)}

(* A creation, and a transfer to the contract it makes.                    *)
DeployTxs ==
    {Priced(alice, 0, Zero, 0, TRUE, 2, 8, 1, NoRun), Transfer(alice, 1, <<alice, 0>>, 5)}

(* A creation, and a transfer of all that its sender has.                  *)
SpendTxs ==
    {Priced(alice, 0, Zero, 0, TRUE, 2, 8, 1, NoRun), Transfer(alice, 1, bob, 100)}

(* An order that the book turns away, and a transfer of someone else.      *)
OrderTxs == {Order(alice, 0, FALSE), Transfer(bob, 0, alice, 1)}

MCTxs == UNION {SoloTxs, LiveTxs, {NeverFits, NeverPays}, DestroyTxs, NetworkTxs, StaleTxs, DeployTxs, SpendTxs, OrderTxs}

(* A node on its own, with bounds of no effect.                            *)
Alone(txs, maxMempool) ==
    [initialBaseFee |-> 3, maxMempool |-> maxMempool, txs |-> txs,
     maxReorg |-> 0, maxBody |-> 0, maxExternal |-> 0, maxIdle |-> 1]

Solo == Alone(SoloTxs, 3)
Live(tx) == [Alone(LiveTxs \cup {tx}, 4) EXCEPT !.initialBaseFee = 9, !.maxIdle = 6]
LiveWorkloads == {Live(NeverFits), Live(NeverPays)}

(* node.New leaves Genesis.InitialBaseFee unset.                           *)
Network == [Alone(NetworkTxs, 3) EXCEPT
              !.maxReorg = 1, !.maxBody = 1, !.maxExternal = 3]
NetworkFree == [Network EXCEPT !.initialBaseFee = 0]
Stale == [Alone(StaleTxs, 3) EXCEPT !.maxBody = 1, !.maxExternal = 2]
Destroy == Alone(DestroyTxs, 4)
Deploy == Alone(DeployTxs, 3)
Spend == Alone(SpendTxs, 3)
Orders == Alone(OrderTxs, 3)

AllWorkloads ==
    LiveWorkloads \cup {Solo, Destroy, Network, NetworkFree, Stale, Deploy, Spend, Orders}
SmallWorkloads == {Stale, Deploy, Spend, Orders}

(* Fairness for the workloads whose progress is checked.                   *)
MCSpec == NodeSpec /\ WF_nodeVars(workload \in LiveWorkloads /\ MineBlock)

(* What is pooled gets onto the chain: neither a full block nor a base fee *)
(* above its cap puts a transaction off for ever, nor does one of someone  *)
(* else that never fits or never pays.                                     *)
PooledIsMined ==
    \A tx \in LiveTxs : workload \in LiveWorkloads /\ tx \in Range(mempool) ~> tx \in onChain
=============================================================================
