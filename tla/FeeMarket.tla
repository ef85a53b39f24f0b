----------------------------- MODULE FeeMarket -----------------------------
(***************************************************************************)
(* The arithmetic of chain/feemarket.go.  A uint64 has Word values, and    *)
(* what the code multiplies or adds without a check wraps.                 *)
(***************************************************************************)
EXTENDS Integers, FiniteSetsExt

CONSTANTS
    Word,       \* the number of values of a uint64
    GasLimit    \* Chain.gasLimit

ASSUME FeeAssumption == Word \in Nat \ {0} /\ GasLimit \in 0..(Word - 1)

BaseFeeMaxChangeDenominator == 8
ElasticityMultiplier == 2

Wrap(n) == n % Word

GasTarget == GasLimit \div ElasticityMultiplier

(* What a distance from the target moves the fee by.                       *)
feeDelta(parentBaseFee, distance) ==
    (Wrap(parentBaseFee * distance) \div GasTarget) \div BaseFeeMaxChangeDenominator

ComputeBaseFee(parentBaseFee, parentGasUsed) ==
    IF GasTarget = 0 \/ parentBaseFee = 0 \/ parentGasUsed = GasTarget THEN parentBaseFee
    ELSE IF parentGasUsed > GasTarget
    THEN LET delta == feeDelta(parentBaseFee, parentGasUsed - GasTarget)
         IN  Wrap(parentBaseFee + (IF delta < 1 THEN 1 ELSE delta))
    ELSE LET delta == feeDelta(parentBaseFee, GasTarget - parentGasUsed)
         IN  parentBaseFee - (IF delta >= parentBaseFee THEN parentBaseFee - 1 ELSE delta)

(* How the fee has to answer the gas of a block: towards the target, up by *)
(* at least one and at most an eighth, down by at most an eighth, and      *)
(* never to zero.                                                          *)
FollowsTarget(fee, used, next) ==
    LET eighth == fee \div 8 IN
    /\ next > 0
    /\ used > GasTarget => next \in (fee + 1)..(fee + (IF eighth < 1 THEN 1 ELSE eighth))
    /\ used = GasTarget => next = fee
    /\ used < GasTarget => next \in (fee - eighth)..fee

ValidateFeeCapTip(feeCap, tipCap) == tipCap <= feeCap

(* The part of the price above the base fee, which the block producer      *)
(* gets; for feeCap >= baseFee, ErrFeeCapBelowBaseFee otherwise.           *)
priorityFee(baseFee, feeCap, tipCap) ==
    IF tipCap > feeCap - baseFee THEN feeCap - baseFee ELSE tipCap

EffectiveGasPrice(baseFee, feeCap, tipCap) == baseFee + priorityFee(baseFee, feeCap, tipCap)
=============================================================================
