------------------------------- MODULE Ledger -------------------------------
(***************************************************************************)
(* The state transition of chain/transition.go and chain/evm_wiring.go: a  *)
(* state is a record of balances, nonces and code, a transaction maps it   *)
(* to a result with an error, the gas used and the tip.  What the code of  *)
(* a contract does is a field of the transaction that calls it (run: the   *)
(* gas it needs, whether it succeeds, what it pays to whom, and whether a  *)
(* contract self-destructs in the transaction that creates it); the        *)
(* machines themselves are StackVM and go-ethereum's.  Whether an order is *)
(* accepted is run.ok as well; what it moves is Exchange.  The field lost  *)
(* of a state is history: what Finalise has deleted with such contracts.   *)
(***************************************************************************)
EXTENDS FeeMarket, Sequences

CONSTANTS
    Users,            \* addresses that sign transactions
    Zero, ExchangeAddress, AttestAddress, DeployAddress,
    MaxNonce,         \* bound: no account signs more than MaxNonce + 1 transactions
    GasCreate,        \* the price of a creation by the stack machine
    BlockReward

ASSUME LedgerAssumption ==
    /\ MaxNonce \in Nat /\ GasCreate \in Nat /\ BlockReward \in Nat
    /\ Cardinality({Zero, ExchangeAddress, AttestAddress, DeployAddress}) = 4
    /\ Users \cap {Zero, ExchangeAddress, AttestAddress, DeployAddress} = {}

(* The address of a contract is derived from its creator and the nonce.    *)
CreateAddress(from, nonce) == <<from, nonce>>

Address == Users \cup {Zero, ExchangeAddress, AttestAddress, DeployAddress}
                 \cup (Users \X (0..MaxNonce))

(* There are finitely many: an address has 20 bytes.                       *)
ASSUME AddressAssumption == IsFiniteSet(Address)

(* fundGenesis for an allocation of balances to users.                     *)
fundGenesis(alloc) ==
    [balance |-> [a \in Address |-> IF a \in DOMAIN alloc THEN alloc[a] ELSE 0],
     nonce   |-> [a \in Address |-> 0],
     code    |-> [a \in Address |-> "none"],
     lost    |-> 0]

(* What a loop makes of x whose iteration i makes steps[i][y] of y.        *)
loop(x, steps) ==
    LET after[i \in 0..Len(steps)] == IF i = 0 THEN x ELSE steps[i][after[i - 1]]
    IN  after[Len(steps)]

Applied(st, gas, tip) == [err |-> "nil", st |-> st, gas |-> gas, tip |-> tip]
Failed(st, err) == [err |-> err, st |-> st, gas |-> 0, tip |-> 0]

bumpNonce(st, a) == [st EXCEPT !.nonce[a] = @ + 1]

credit(st, a, amount) == [st EXCEPT !.balance[a] = Wrap(@ + amount)]

transfer(st, from, to, value) ==
    IF from = to THEN st
    ELSE credit([st EXCEPT !.balance[from] = @ - value], to, value)

-----------------------------------------------------------------------------
(* A contract that runs to its end pays what it has for it: a CALL with    *)
(* more value than there is fails and the caller goes on.                  *)
paysOut(st, contract, tx) == tx.run.pays > 0 /\ st.balance[contract] >= tx.run.pays

payOut(st, contract, tx) ==
    IF paysOut(st, contract, tx)
    THEN transfer(st, contract, tx.run.payee, tx.run.pays) ELSE st

cannotTransfer(st, tx) == tx.value # 0 /\ tx.from # tx.to /\ st.balance[tx.from] < tx.value

(* StackVM.Execute on the state where the gas is already reserved: a       *)
(* failure leaves that state, and all the gas is gone when it ran out.     *)
Execute(st, tx) ==
    LET create == tx.to = Zero
        target == IF create THEN CreateAddress(tx.from, tx.nonce) ELSE tx.to
        needed == IF create THEN GasCreate
                  ELSE IF st.code[target] = "none" THEN 0 ELSE tx.run.gas
        moved  == transfer(st, tx.from, target, tx.value)
        failed(gas) == [st |-> st, gas |-> gas]
    IN  IF ~create /\ cannotTransfer(st, tx) THEN failed(0)
        ELSE IF needed > tx.gasLimit THEN failed(tx.gasLimit)
        ELSE IF create
        THEN IF cannotTransfer(st, tx) THEN failed(needed)
             ELSE [st  |-> IF tx.data THEN [moved EXCEPT !.code[target] = "stack"] ELSE moved,
                   gas |-> needed]
        ELSE IF st.code[target] = "none" THEN [st |-> moved, gas |-> 0]
        ELSE IF tx.run.ok THEN [st |-> payOut(moved, target, tx), gas |-> needed]
        ELSE failed(needed)

(* sdb.Finalise: an account that self-destructed is deleted with all that  *)
(* it holds.  EIP-6780 allows that to a contract of this transaction only: *)
(* to the one that is deployed, and in a call to one that the contract     *)
(* creates and gives all that it has.                                      *)
Finalise(st, contract, tx) ==
    IF tx.run.destroys
    THEN [st EXCEPT !.balance[contract] = 0, !.lost = @ + st.balance[contract]] ELSE st

(* AddBalance beyond a uint64 sets sdb.Err.                                *)
overflows(st, from, to, amount) == from # to /\ st.balance[to] + amount >= Word

(* What Create or Call leaves of a run that succeeds.                      *)
succeeded(st, target, tx) ==
    LET ended == Finalise(payOut(st, target, tx), target, tx)
    IN  IF tx.to = DeployAddress /\ ~tx.run.destroys
        THEN [ended EXCEPT !.code[target] = "evm"] ELSE ended

(* go-ethereum's Create or Call through the adapter.  Create bumps the     *)
(* sender's nonce itself; upon sdb.Err all of it is reverted and all the   *)
(* gas is used.                                                            *)
ExecuteEVM(st, tx) ==
    LET deploy == tx.to = DeployAddress
        target == IF deploy THEN CreateAddress(tx.from, st.nonce[tx.from]) ELSE tx.to
        begun  == IF deploy THEN bumpNonce(st, tx.from) ELSE st
        moved  == transfer(begun, tx.from, target, tx.value)
        failed(gas) == [st |-> begun, gas |-> gas]
    IN  IF st.balance[tx.from] < tx.value THEN [st |-> st, gas |-> 0]
        ELSE IF overflows(st, tx.from, target, tx.value) THEN [st |-> st, gas |-> tx.gasLimit]
        ELSE IF tx.run.gas > tx.gasLimit THEN failed(tx.gasLimit)
        ELSE IF ~tx.run.ok THEN failed(tx.run.gas)
        ELSE IF /\ paysOut(moved, target, tx)
                /\ overflows(moved, target, tx.run.payee, tx.run.pays)
        THEN [st |-> st, gas |-> tx.gasLimit]
        ELSE [st |-> succeeded(moved, target, tx), gas |-> tx.run.gas]

-----------------------------------------------------------------------------
gasReserve(tx) == Wrap(tx.gasLimit * tx.feeCap)

(* Why gas cannot be bought, "nil" when it can.                            *)
gasError(st, tx, baseFee) ==
    IF ~ValidateFeeCapTip(tx.feeCap, tx.tipCap) THEN "ErrTipExceedsFeeCap"
    ELSE IF \/ tx.feeCap # 0 /\ gasReserve(tx) \div tx.feeCap # tx.gasLimit
            \/ st.balance[tx.from] < gasReserve(tx) THEN "ErrCantAffordGas"
    ELSE IF tx.feeCap < baseFee THEN "ErrFeeCapBelowBaseFee"
    ELSE "nil"

reserveGas(st, tx) == [st EXCEPT !.balance[tx.from] = @ - gasReserve(tx)]

(* Mutant: what the machine did to the sender's balance is overwritten.    *)
refundGasStale(st, ran, tx, baseFee) ==
    [ran.st EXCEPT !.balance[tx.from] = st.balance[tx.from]
                     - ran.gas * EffectiveGasPrice(baseFee, tx.feeCap, tx.tipCap)]

refundGas(st, ran, tx, baseFee) ==
    credit(ran.st, tx.from,
           gasReserve(tx) - ran.gas * EffectiveGasPrice(baseFee, tx.feeCap, tx.tipCap))

pricedResult(st, ran, tx, baseFee) ==
    Applied(refundGas(st, ran, tx, baseFee), ran.gas,
            ran.gas * priorityFee(baseFee, tx.feeCap, tx.tipCap))

applyContractTx(st, tx, baseFee) ==
    LET err == gasError(st, tx, baseFee) IN
    IF err # "nil" THEN Failed(st, err)
    ELSE pricedResult(st, Execute(bumpNonce(reserveGas(st, tx), tx.from), tx), tx, baseFee)

(* Mutant: the nonce is bumped after Create or Call, which Create has done *)
(* already.                                                                *)
applyEVMTxTwice(st, tx, baseFee) ==
    LET err == gasError(st, tx, baseFee)
        ran == ExecuteEVM(reserveGas(st, tx), tx)
    IN  IF err # "nil" THEN Failed(st, err)
        ELSE pricedResult(st, [ran EXCEPT !.st = bumpNonce(@, tx.from)], tx, baseFee)

applyEVMTx(st, tx, baseFee) ==
    LET err == gasError(st, tx, baseFee)
        ran == ExecuteEVM(reserveGas(st, tx), tx)
    IN  IF err # "nil" THEN Failed(st, err)
        ELSE pricedResult(st, [ran EXCEPT !.st.nonce[tx.from] = st.nonce[tx.from] + 1],
                          tx, baseFee)

-----------------------------------------------------------------------------
IsExchangeTx(tx) == tx.to = ExchangeAddress
IsAttestationTx(tx) == tx.to = AttestAddress
isEVMTx(st, tx) == tx.to = DeployAddress \/ st.code[tx.to] = "evm"
isContractTx(st, tx) == tx.to = Zero \/ tx.data \/ st.code[tx.to] # "none"

(* applyTxAtSession.  An order that the book turns away is an error of the *)
(* transaction, and so of its block.                                       *)
applyTx(st, tx, baseFee) ==
    IF ~tx.genuine THEN Failed(st, "ErrBadSig")
    ELSE IF tx.nonce # st.nonce[tx.from] THEN Failed(st, "ErrBadNonce")
    ELSE IF IsExchangeTx(tx)
    THEN IF st.balance[tx.from] < tx.value THEN Failed(st, "ErrInsufficientBalance")
         ELSE IF tx.run.ok THEN Applied(bumpNonce(st, tx.from), 0, 0)
         ELSE Failed(bumpNonce(st, tx.from), "ErrRejected")
    ELSE IF isEVMTx(st, tx) THEN applyEVMTx(st, tx, baseFee)
    ELSE IF IsAttestationTx(tx) THEN Applied(bumpNonce(st, tx.from), 0, 0)
    ELSE IF isContractTx(st, tx) THEN applyContractTx(st, tx, baseFee)
    ELSE IF st.balance[tx.from] < tx.value THEN Failed(st, "ErrInsufficientBalance")
    ELSE Applied(transfer(bumpNonce(st, tx.from), tx.from, tx.to, tx.value), 0, 0)

(* The result of one more transaction.                                     *)
addResult(acc, r) ==
    IF r.err # "nil" THEN r ELSE Applied(r.st, acc.gas + r.gas, acc.tip + r.tip)

(* One more transaction; the first error ends the block.                   *)
addTx(acc, tx, baseFee) ==
    IF acc.err # "nil" THEN acc ELSE addResult(acc, applyTx(acc.st, tx, baseFee))

LedgerState == [balance : [Address -> Nat], nonce : [Address -> Nat],
                code : [Address -> {"none", "stack", "evm"}], lost : Nat]
Errors == {"nil", "ErrBadSig", "ErrBadNonce", "ErrInsufficientBalance", "ErrRejected",
           "ErrTipExceedsFeeCap", "ErrCantAffordGas", "ErrFeeCapBelowBaseFee",
           "ErrBlockGasLimitExceeded"}
Result == [err : Errors, st : LedgerState, gas : Nat, tip : Nat]

(* applyTxsAt: the transactions in order.                                  *)
applyTxs(st, txs, baseFee) ==
    loop(Applied(st, 0, 0),
         [i \in 1..Len(txs) |-> [acc \in Result |-> addTx(acc, txs[i], baseFee)]])

(* AddBlock's bound on the gas of a block, then the reward and the tips of *)
(* its transactions for the coinbase.                                      *)
rewarded(r, coinbase) ==
    IF r.err # "nil" THEN r
    ELSE IF r.gas > GasLimit THEN Failed(r.st, "ErrBlockGasLimitExceeded")
    ELSE Applied(credit(r.st, coinbase, BlockReward + r.tip), r.gas, r.tip)

(* applyBlockRewarded.                                                     *)
applyBlock(st, txs, coinbase, baseFee) ==
    LET reward == [r \in Result |-> rewarded(r, coinbase)]
    IN  reward[applyTxs(st, txs, baseFee)]
=============================================================================
