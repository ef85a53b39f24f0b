----------------------------- MODULE NodeProofs -----------------------------
(***************************************************************************)
(* The money and the nonces of a branch, for every set of users, every     *)
(* transaction they may sign, every block that a peer may send and every   *)
(* width of a uint64; and what ComputeBaseFee returns.                     *)
(***************************************************************************)
EXTENDS Node, SumLemmas

(* Integer division as feeDelta uses it: the quotient and its remainder.   *)
LEMMA DivBounds ==
    ASSUME NEW a \in Nat, NEW b \in Nat \ {0}
    PROVE  /\ a \div b \in Nat
           /\ b * (a \div b) <= a
           /\ a < b * (a \div b) + b
BY SMT

(* A quotient is at most what the dividend is at most that many times the  *)
(* divisor of.                                                             *)
LEMMA DivAtMost ==
    ASSUME NEW a \in Nat, NEW c \in Nat, NEW b \in Nat \ {0}, a <= b * c
    PROVE  a \div b <= c
<1> DEFINE q == a \div b
<1>1. q \in Nat /\ b * q <= a
  BY DivBounds
<1> HIDE DEF q
<1>2. ASSUME q >= c + 1 PROVE FALSE
  <2>1. b * q >= b * (c + 1)
    BY <1>1, <1>2, SMT
  <2>2. b * (c + 1) = b * c + b
    BY SMT
  <2> QED BY <1>1, <2>1, <2>2, SMT
<1> QED BY <1>1, <1>2, SMT DEF q

(* A product with a factor made smaller is smaller.                        *)
LEMMA ProductAtMost ==
    ASSUME NEW a \in Nat, NEW b \in Nat, NEW c \in Nat, b <= c
    PROVE  a * b \in Nat /\ a * b <= a * c
BY SMT

(* The gas target is half the limit, rounded down.                         *)
LEMMA TargetType == GasTarget \in Nat /\ Word \in Nat \ {0} /\ GasLimit \in Nat
<1>1. GasLimit \in Nat /\ Word \in Nat \ {0}
  BY FeeAssumption, SMT
<1>2. GasLimit \div 2 \in Nat
  BY <1>1, DivBounds, SMT
<1> QED BY <1>1, <1>2 DEF GasTarget, ElasticityMultiplier

(* A distance of at most the target moves the fee by at most an eighth.    *)
LEMMA DeltaAtMostEighth ==
    ASSUME NEW fee \in Nat, NEW distance \in Nat, GasTarget # 0,
           distance <= GasTarget, fee * GasTarget < Word
    PROVE  feeDelta(fee, distance) \in Nat /\ feeDelta(fee, distance) <= fee \div 8
<1> DEFINE product == fee * distance
           share   == product \div GasTarget
<1>1. GasTarget \in Nat \ {0} /\ Word \in Nat \ {0}
  BY TargetType
<1>2. product \in Nat /\ product <= fee * GasTarget
  BY <1>1, ProductAtMost
<1>3. Wrap(product) = product
  <2> fee * GasTarget \in Nat
    BY <1>1, SMT
  <2> HIDE DEF product
  <2> QED BY <1>1, <1>2, SMT DEF Wrap
<1>4. share \in Nat /\ share <= fee
  <2>1. product <= GasTarget * fee
    BY <1>1, <1>2, SMT
  <2> HIDE DEF product
  <2> QED BY <1>1, <1>2, <2>1, DivAtMost, DivBounds
<1>5. feeDelta(fee, distance) = share \div 8
  BY <1>3 DEF feeDelta, BaseFeeMaxChangeDenominator
<1> HIDE DEF share
<1>6. share \div 8 \in Nat /\ share \div 8 <= fee \div 8
  BY <1>4, SMT
<1> QED BY <1>5, <1>6

(* ComputeBaseFee answers the parent's gas as its documentation says: a    *)
(* fee above zero stays above zero, "guaranteed to move by at least 1      *)
(* whenever usage is above target", and by no more than an eighth, up or   *)
(* down; for an even gas limit, and a fee at which nothing wraps.          *)
THEOREM FeeFollowsTarget ==
    ASSUME NEW fee \in Nat \ {0}, NEW used \in 0..GasLimit,
           GasTarget # 0, GasLimit = 2 * GasTarget, fee * GasTarget + fee < Word
    PROVE  FollowsTarget(fee, used, ComputeBaseFee(fee, used))
<1> DEFINE next   == ComputeBaseFee(fee, used)
           eighth == fee \div 8
<1>1. GasTarget \in Nat \ {0} /\ Word \in Nat \ {0} /\ used \in Nat /\ fee * GasTarget \in Nat
  BY TargetType, SMT
<1>2. eighth \in Nat /\ 8 * eighth <= fee
  BY DivBounds, SMT
<1>3. fee * GasTarget < Word
  BY <1>1, SMT
<1>4. fee <= fee * GasTarget
  <2>1. fee * 1 <= fee * GasTarget
    BY <1>1, ProductAtMost, SMT
  <2> QED BY <2>1, SMT
<1>5. CASE used = GasTarget
  <2>1. next = fee
    BY <1>5 DEF ComputeBaseFee
  <2> QED BY <1>1, <1>5, <2>1, SMT DEF FollowsTarget
<1>6. CASE used > GasTarget
  <2> DEFINE delta == feeDelta(fee, used - GasTarget)
             up    == IF delta < 1 THEN 1 ELSE delta
  <2>1. used - GasTarget \in Nat /\ used - GasTarget <= GasTarget
    BY <1>1, <1>6, SMT
  <2>2. delta \in Nat /\ delta <= eighth
    BY <1>3, <2>1, DeltaAtMostEighth
  <2>3. next = Wrap(fee + up)
    BY <1>1, <1>6, SMT DEF ComputeBaseFee
  <2> HIDE DEF delta
  <2>4. up \in Nat /\ up >= 1 /\ up <= fee /\ up <= (IF eighth < 1 THEN 1 ELSE eighth)
    BY <1>2, <2>2, SMT
  <2> HIDE DEF up, eighth
  <2>5. next = fee + up
    BY <1>1, <1>4, <2>3, <2>4, SMT DEF Wrap
  <2> HIDE DEF next
  <2> QED BY <1>1, <1>2, <1>6, <2>4, <2>5, SMT DEF FollowsTarget, eighth, next
<1>7. CASE used < GasTarget
  <2> DEFINE delta == feeDelta(fee, GasTarget - used)
  <2>1. GasTarget - used \in Nat /\ GasTarget - used <= GasTarget
    BY <1>1, <1>7, SMT
  <2>2. delta \in Nat /\ delta <= eighth
    BY <1>3, <2>1, DeltaAtMostEighth
  <2>3. next = fee - (IF delta >= fee THEN fee - 1 ELSE delta)
    BY <1>1, <1>7, SMT DEF ComputeBaseFee
  <2> HIDE DEF delta
  <2>4. next = fee - delta /\ delta < fee
    BY <1>2, <2>2, <2>3, SMT
  <2> HIDE DEF next
  <2> QED BY <1>1, <1>2, <1>7, <2>2, <2>4, SMT DEF FollowsTarget, next
<1> QED BY <1>1, <1>5, <1>6, <1>7, SMT

(* The precondition of FeeFollowsTarget keeps itself up along a branch: a  *)
(* block pays for its gas at the base fee or more, so where all the money  *)
(* there is stays below half the width of a uint64, a fee that makes the   *)
(* unchecked product or sum of ComputeBaseFee wrap could not be paid by a  *)
(* block that uses more than the target.                                   *)
THEOREM FeeStaysInRange ==
    ASSUME NEW fee \in Nat \ {0}, NEW used \in 0..GasLimit, NEW money \in Nat,
           GasTarget # 0, GasLimit = 2 * GasTarget, fee * GasTarget + fee < Word,
           used * fee <= money, 2 * money < Word
    PROVE  LET next == ComputeBaseFee(fee, used) IN next * GasTarget + next < Word
<1> DEFINE next == ComputeBaseFee(fee, used)
<1>1. GasTarget \in Nat \ {0} /\ Word \in Nat \ {0} /\ used \in Nat
  BY TargetType, SMT
<1>2. FollowsTarget(fee, used, next)
  BY FeeFollowsTarget
<1> HIDE DEF next
<1>3. fee \div 8 \in Nat /\ 8 * (fee \div 8) <= fee
  BY DivBounds, SMT
<1>4. CASE used > GasTarget
  <2>1. next \in Nat /\ next <= 2 * fee
    BY <1>2, <1>3, <1>4, SMT DEF FollowsTarget
  <2>2. next * (GasTarget + 1) <= next * used
    BY <1>1, <1>4, <2>1, ProductAtMost, SMT
  <2>3. used * next <= used * (2 * fee)
    BY <1>1, <2>1, ProductAtMost, SMT
  <2>4. used * (2 * fee) = 2 * (used * fee)
    BY <1>1, SMT
  <2>5. next * (GasTarget + 1) = next * GasTarget + next
    BY <1>1, <2>1, SMT
  <2> QED BY <1>1, <2>1, <2>2, <2>3, <2>4, <2>5, SMT DEF next
<1>5. CASE ~(used > GasTarget)
  <2>1. next \in Nat /\ next <= fee
    BY <1>1, <1>2, <1>3, <1>5, SMT DEF FollowsTarget
  <2>2. GasTarget * next <= GasTarget * fee
    BY <1>1, <2>1, ProductAtMost, SMT
  <2> QED BY <1>1, <2>1, <2>2, SMT DEF next
<1> QED BY <1>4, <1>5

-----------------------------------------------------------------------------
(* A loop, iteration by iteration.                                         *)
LEMMA LoopDef ==
    ASSUME NEW x, NEW steps, Len(steps) \in Nat
    PROVE  \E g : /\ g[0] = x /\ loop(x, steps) = g[Len(steps)]
                  /\ \A i \in 1..Len(steps) : g[i] = steps[i][g[i - 1]]
<1> DEFINE Is(g, m) == g = [i \in 0..m |-> IF i = 0 THEN x ELSE steps[i][g[i - 1]]]
           S == {m \in Nat : \E g : Is(g, m)}
<1>1. 0 \in S
  <2>1. Is([i \in 0..0 |-> x], 0)
    OBVIOUS
  <2> QED BY <2>1, Zenon
<1>2. ASSUME NEW m \in Nat, m \in S PROVE m + 1 \in S
  <2>1. PICK g : Is(g, m)
    BY <1>2
  <2> DEFINE f == [i \in 0..(m + 1) |-> IF i = m + 1 THEN steps[i][g[m]] ELSE g[i]]
  <2>2. ASSUME NEW i \in 0..(m + 1) PROVE f[i] = IF i = 0 THEN x ELSE steps[i][f[i - 1]]
    <3>1. CASE i = 0
      BY <2>1, <3>1
    <3>2. CASE i # 0
      <4>1. i - 1 \in 0..m /\ f[i - 1] = g[i - 1]
        BY <3>2
      <4>2. CASE i = m + 1
        BY <4>1, <4>2
      <4>3. CASE i # m + 1
        <5>1. i \in 0..m /\ f[i] = g[i]
          BY <4>3
        <5>2. g[i] = steps[i][g[i - 1]]
          BY <2>1, <3>2, <5>1
        <5> QED BY <3>2, <4>1, <5>1, <5>2
      <4> QED BY <4>2, <4>3
    <3> QED BY <3>1, <3>2
  <2>3. Is(f, m + 1)
    BY <2>2, Zenon
  <2> HIDE DEF f, Is
  <2> QED BY <2>3
<1>3. \E g : Is(g, Len(steps))
  <2> HIDE DEF Is
  <2>1. \A m \in Nat : m \in S => m + 1 \in S
    BY <1>2
  <2> HIDE DEF S
  <2>2. Len(steps) \in S
    BY <1>1, <2>1, SetInduction
  <2> QED BY <2>2 DEF S
<1> DEFINE h == CHOOSE g : Is(g, Len(steps))
<1>4. Is(h, Len(steps)) /\ loop(x, steps) = h[Len(steps)]
  BY <1>3, Zenon DEF loop
<1> HIDE DEF h
<1>5. h[0] = x /\ \A i \in 1..Len(steps) : h[i] = steps[i][h[i - 1]]
  BY <1>4
<1> QED BY <1>4, <1>5

(* A loop stays within a set that each iteration stays within.             *)
LEMMA LoopIn ==
    ASSUME NEW x, NEW steps, Len(steps) \in Nat, NEW S, x \in S,
           \A i \in 1..Len(steps) : \A y \in S : steps[i][y] \in S
    PROVE  loop(x, steps) \in S
<1>1. PICK g : /\ g[0] = x /\ loop(x, steps) = g[Len(steps)]
               /\ \A i \in 1..Len(steps) : g[i] = steps[i][g[i - 1]]
  BY LoopDef
<1> DEFINE P == {m \in Nat : m <= Len(steps) => g[m] \in S}
<1>2. 0 \in P
  BY <1>1
<1>3. ASSUME NEW m \in Nat, m \in P PROVE m + 1 \in P
  <2>1. SUFFICES ASSUME m + 1 <= Len(steps) PROVE g[m + 1] \in S
    OBVIOUS
  <2>2. g[m] \in S /\ m + 1 \in 1..Len(steps) /\ (m + 1) - 1 = m
    BY <1>3, <2>1
  <2>3. g[m + 1] = steps[m + 1][g[m]]
    BY <1>1, <2>2
  <2> QED BY <2>2, <2>3
<1>4. \A m \in Nat : m \in P => m + 1 \in P
  BY <1>3
<1> HIDE DEF P
<1>5. Len(steps) \in P
  BY <1>2, <1>4, SetInduction
<1> QED BY <1>1, <1>5 DEF P

-----------------------------------------------------------------------------
(* What all accounts of a state hold, with what Finalise has deleted.      *)
total(st) == SumFunctionOnSet(st.balance, Address) + st.lost

(* The types of the constants.                                             *)
LEMMA Constants ==
    /\ Word \in Nat \ {0} /\ GasLimit \in Nat /\ MaxNonce \in Nat
    /\ GasCreate \in Nat /\ BlockReward \in Nat
BY FeeAssumption, LedgerAssumption

(* There are finitely many addresses, those of the contracts that users    *)
(* may create among them.                                                  *)
LEMMA Addresses ==
    /\ IsFiniteSet(Address) /\ Users \subseteq Address
    /\ {Zero, ExchangeAddress, AttestAddress, DeployAddress} \subseteq Address
    /\ \A u \in Users : \A n \in 0..MaxNonce : CreateAddress(u, n) \in Address
<1>1. IsFiniteSet(Address)
  BY AddressAssumption
<1>2. \A u \in Users : \A n \in 0..MaxNonce : CreateAddress(u, n) \in Users \X (0..MaxNonce)
  BY DEF CreateAddress
<1> QED BY <1>1, <1>2 DEF Address

(* A uint64 wraps when it has to.                                          *)
LEMMA WrapNat ==
    ASSUME NEW n \in Nat
    PROVE  Wrap(n) \in Nat /\ Wrap(n) <= n /\ (n < Word => Wrap(n) = n)
BY Constants, SMT DEF Wrap

(* The fields of a state, and what its accounts hold.                      *)
LEMMA StateFields ==
    ASSUME NEW st \in LedgerState
    PROVE  /\ st.balance \in [Address -> Nat] /\ st.nonce \in [Address -> Nat]
           /\ st.code \in [Address -> {"none", "stack", "evm"}] /\ st.lost \in Nat
           /\ total(st) \in Nat /\ \A a \in Address : st.balance[a] <= total(st)
<1>1. /\ st.balance \in [Address -> Nat] /\ st.nonce \in [Address -> Nat]
      /\ st.code \in [Address -> {"none", "stack", "evm"}] /\ st.lost \in Nat
  BY DEF LedgerState
<1>2. \A a \in Address : st.balance[a] \in Nat
  BY <1>1
<1>3. SumFunctionOnSet(st.balance, Address) \in Nat
      /\ \A a \in Address : st.balance[a] <= SumFunctionOnSet(st.balance, Address)
  <2> DEFINE f == st.balance
  <2> HIDE DEF f
  <2>1. \A a \in Address : f[a] \in Nat
    BY <1>2 DEF f
  <2>2. SumFunctionOnSet(f, Address) \in Nat /\ \A a \in Address : f[a] <= SumFunctionOnSet(f, Address)
    BY <2>1, Addresses, SumNat
  <2> QED BY <2>2 DEF f
<1> QED BY <1>1, <1>3 DEF total

(* The state with another balance of an account.                           *)
setBalance(st, a, v) == [st EXCEPT !.balance = [@ EXCEPT ![a] = v]]

(* A state with one balance changed, and what that changes in the total.   *)
LEMMA SetBalance ==
    ASSUME NEW st \in LedgerState, NEW a \in Address, NEW v \in Nat
    PROVE  /\ setBalance(st, a, v) \in LedgerState
           /\ setBalance(st, a, v).nonce = st.nonce /\ setBalance(st, a, v).code = st.code
           /\ setBalance(st, a, v).balance[a] = v /\ setBalance(st, a, v).lost = st.lost
           /\ \A c \in Address \ {a} : setBalance(st, a, v).balance[c] = st.balance[c]
           /\ total(setBalance(st, a, v)) = total(st) - st.balance[a] + v
<1> DEFINE e == setBalance(st, a, v)
           f == st.balance
           g == [f EXCEPT ![a] = v]
<1>1. f \in [Address -> Nat] /\ st.lost \in Nat
  BY StateFields
<1>2. e.balance = g /\ e.nonce = st.nonce /\ e.code = st.code /\ e.lost = st.lost
  BY DEF setBalance, LedgerState
<1>3. e \in LedgerState
  BY DEF setBalance, LedgerState
<1>4. g[a] = v /\ \A c \in Address \ {a} : g[c] = f[c]
  BY <1>1
<1>5. Ints(f, Address) /\ Ints(g, Address)
  BY <1>1 DEF Ints
<1> HIDE DEF f, g
<1>6. SumFunctionOnSet(g, Address) = SumFunctionOnSet(f, Address) - f[a] + g[a]
  BY <1>4, <1>5, Addresses, SumChange
<1>7. SumFunctionOnSet(f, Address) \in Int /\ f[a] \in Int
  <2>1. SumFunctionOnSet(f, Address) \in Int
    BY <1>5, Addresses, SumInt
  <2> QED BY <1>5, <2>1 DEF Ints
<1> HIDE DEF e
<1>8. total(e) = total(st) - st.balance[a] + v
  BY <1>1, <1>2, <1>4, <1>6, <1>7 DEF total, f
<1> QED BY <1>2, <1>3, <1>4, <1>8 DEF e, f

-----------------------------------------------------------------------------
(* A step that moves money, or none, and leaves the nonces alone: none is  *)
(* made or lost while all of it fits a uint64.                             *)
SameTotal(st, next) == total(st) < Word => total(next) = total(st)
Keeps(st, next) == next \in LedgerState /\ next.nonce = st.nonce /\ SameTotal(st, next)

(* A state keeps its own total.                                            *)
LEMMA KeepsItself ==
    ASSUME NEW st \in LedgerState
    PROVE  Keeps(st, st)
BY DEF Keeps, SameTotal

(* Keeping the total and the nonces is transitive.                         *)
LEMMA KeepsTwice ==
    ASSUME NEW st, NEW mid, NEW next, Keeps(st, mid), Keeps(mid, next)
    PROVE  Keeps(st, next)
BY DEF Keeps, SameTotal

(* What credit adds wraps only where the money does not fit.               *)
LEMMA Credited ==
    ASSUME NEW st \in LedgerState, NEW a \in Address, NEW amount \in Nat
    PROVE  /\ credit(st, a, amount) \in LedgerState
           /\ credit(st, a, amount).nonce = st.nonce
           /\ total(st) + amount < Word => total(credit(st, a, amount)) = total(st) + amount
<1> DEFINE old == st.balance[a]
           v   == Wrap(old + amount)
<1>1. old \in Nat /\ old <= total(st) /\ total(st) \in Nat
  BY StateFields
<1>2. credit(st, a, amount) = setBalance(st, a, v)
  BY DEF credit, setBalance
<1> HIDE DEF old
<1>3. v \in Nat /\ (old + amount < Word => v = old + amount)
  BY <1>1, WrapNat
<1> HIDE DEF v
<1>4. /\ setBalance(st, a, v) \in LedgerState /\ setBalance(st, a, v).nonce = st.nonce
      /\ total(setBalance(st, a, v)) = total(st) - old + v
  BY <1>3, SetBalance DEF old
<1>5. Word \in Nat
  BY Constants
<1> QED BY <1>1, <1>2, <1>3, <1>4, <1>5

(* What is taken from an account that has it.                              *)
LEMMA Debited ==
    ASSUME NEW st \in LedgerState, NEW a \in Address, NEW amount \in Nat, amount <= st.balance[a]
    PROVE  /\ setBalance(st, a, st.balance[a] - amount) \in LedgerState
           /\ setBalance(st, a, st.balance[a] - amount).nonce = st.nonce
           /\ total(setBalance(st, a, st.balance[a] - amount)) = total(st) - amount
<1>1. st.balance[a] \in Nat /\ total(st) \in Nat
  BY StateFields
<1> DEFINE v == st.balance[a] - amount
<1>2. v \in Nat
  BY <1>1
<1> HIDE DEF v
<1>3. /\ setBalance(st, a, v) \in LedgerState /\ setBalance(st, a, v).nonce = st.nonce
      /\ total(setBalance(st, a, v)) = total(st) - st.balance[a] + v
  BY <1>2, SetBalance
<1>4. v = st.balance[a] - amount
  BY DEF v
<1> QED BY <1>1, <1>3, <1>4

(* A transfer that the sender can pay moves money and makes none.          *)
LEMMA Transferred ==
    ASSUME NEW st \in LedgerState, NEW from \in Address, NEW to \in Address, NEW value \in Nat,
           from # to => value <= st.balance[from]
    PROVE  Keeps(st, transfer(st, from, to, value))
<1>1. CASE from = to
  BY <1>1, KeepsItself DEF transfer
<1>2. CASE from # to
  <2> DEFINE mid == setBalance(st, from, st.balance[from] - value)
  <2>1. mid \in LedgerState /\ mid.nonce = st.nonce /\ total(mid) = total(st) - value
    BY <1>2, Debited
  <2>2. transfer(st, from, to, value) = credit(mid, to, value)
    BY <1>2 DEF transfer, setBalance
  <2> HIDE DEF mid
  <2>3. /\ credit(mid, to, value) \in LedgerState /\ credit(mid, to, value).nonce = mid.nonce
        /\ total(mid) + value < Word => total(credit(mid, to, value)) = total(mid) + value
    BY <2>1, Credited
  <2>4. total(st) \in Nat /\ total(mid) \in Nat
    BY <2>1, StateFields
  <2>5. SameTotal(st, credit(mid, to, value))
    BY <2>1, <2>3, <2>4 DEF SameTotal
  <2> QED BY <2>1, <2>2, <2>3, <2>5 DEF Keeps
<1> QED BY <1>1, <1>2

(* A new code moves no money, nor does a new nonce.                        *)
LEMMA Coded ==
    ASSUME NEW st \in LedgerState, NEW a \in Address, NEW c \in {"none", "stack", "evm"}
    PROVE  Keeps(st, [st EXCEPT !.code[a] = c])
<1> DEFINE e == [st EXCEPT !.code[a] = c]
<1>1. e \in LedgerState /\ e.nonce = st.nonce /\ e.balance = st.balance /\ e.lost = st.lost
  BY DEF LedgerState
<1> HIDE DEF e
<1> QED BY <1>1 DEF Keeps, SameTotal, total, e

(* A state with one nonce changed holds the same money.                    *)
LEMMA NonceSet ==
    ASSUME NEW st \in LedgerState, NEW a \in Address, NEW n \in Nat
    PROVE  /\ [st EXCEPT !.nonce[a] = n] \in LedgerState
           /\ [st EXCEPT !.nonce[a] = n].nonce = [st.nonce EXCEPT ![a] = n]
           /\ [st EXCEPT !.nonce[a] = n].balance = st.balance
           /\ total([st EXCEPT !.nonce[a] = n]) = total(st)
<1> DEFINE e == [st EXCEPT !.nonce[a] = n]
<1>1. /\ e \in LedgerState /\ e.nonce = [st.nonce EXCEPT ![a] = n]
      /\ e.balance = st.balance /\ e.lost = st.lost
  BY DEF LedgerState
<1> HIDE DEF e
<1>2. total(e) = total(st)
  BY <1>1 DEF total
<1> QED BY <1>1, <1>2 DEF e

(* bumpNonce moves one nonce by one and no money.                          *)
LEMMA Bumped ==
    ASSUME NEW st \in LedgerState, NEW a \in Address
    PROVE  /\ bumpNonce(st, a) \in LedgerState
           /\ bumpNonce(st, a).nonce = [st.nonce EXCEPT ![a] = @ + 1]
           /\ bumpNonce(st, a).balance = st.balance
           /\ total(bumpNonce(st, a)) = total(st)
<1> DEFINE n == st.nonce[a] + 1
<1>1. n \in Nat
  BY StateFields
<1>2. bumpNonce(st, a) = [st EXCEPT !.nonce[a] = n]
  BY DEF bumpNonce
<1> HIDE DEF n
<1>3. /\ [st EXCEPT !.nonce[a] = n] \in LedgerState
      /\ [st EXCEPT !.nonce[a] = n].nonce = [st.nonce EXCEPT ![a] = n]
      /\ [st EXCEPT !.nonce[a] = n].balance = st.balance
      /\ total([st EXCEPT !.nonce[a] = n]) = total(st)
  BY <1>1, NonceSet
<1> QED BY <1>2, <1>3 DEF n

-----------------------------------------------------------------------------
(* The fields of a signed transaction.                                     *)
LEMMA TxFields ==
    ASSUME NEW tx \in Tx
    PROVE  /\ tx.from \in Users /\ tx.from \in Address /\ tx.from # Zero /\ tx.to \in Address
           /\ tx.nonce \in 0..MaxNonce /\ tx.value \in Nat
           /\ tx.gasLimit \in Nat /\ tx.feeCap \in Nat /\ tx.tipCap \in Nat
           /\ tx.run.gas \in Nat /\ tx.run.pays \in Nat /\ tx.run.payee \in Address
<1>1. Uint64 \subseteq Nat
  BY Constants DEF Uint64
<1>2. /\ tx.from \in Users /\ tx.to \in Address /\ tx.nonce \in 0..MaxNonce /\ tx.value \in Uint64
      /\ tx.gasLimit \in Uint64 /\ tx.feeCap \in Uint64 /\ tx.tipCap \in Uint64
      /\ tx.run \in [gas : Nat, ok : BOOLEAN, pays : Uint64, payee : Address, destroys : BOOLEAN]
  BY DEF Tx
<1>3. tx.run.gas \in Nat /\ tx.run.pays \in Uint64 /\ tx.run.payee \in Address
  BY <1>2
<1>4. tx.from # Zero
  BY <1>2, LedgerAssumption
<1> QED BY <1>1, <1>2, <1>3, <1>4, Addresses, Zenon

(* What a contract pays is moved, not made.                                *)
LEMMA PaidOut ==
    ASSUME NEW st \in LedgerState, NEW contract \in Address, NEW tx \in Tx
    PROVE  Keeps(st, payOut(st, contract, tx))
<1>1. tx.run.payee \in Address /\ tx.run.pays \in Nat /\ st.balance[contract] \in Nat
  BY TxFields, StateFields
<1>2. CASE paysOut(st, contract, tx)
  <2>1. tx.run.pays <= st.balance[contract]
    BY <1>1, <1>2 DEF paysOut
  <2>2. Keeps(st, transfer(st, contract, tx.run.payee, tx.run.pays))
    BY <1>1, <2>1, Transferred
  <2> QED BY <1>2, <2>2 DEF payOut
<1>3. CASE ~paysOut(st, contract, tx)
  BY <1>3, KeepsItself DEF payOut
<1> QED BY <1>2, <1>3

(* What a contract loses that is deleted, the history of it has.           *)
LEMMA Finalised ==
    ASSUME NEW st \in LedgerState, NEW contract \in Address, NEW tx \in Tx
    PROVE  Keeps(st, Finalise(st, contract, tx))
<1>1. CASE ~tx.run.destroys
  BY <1>1, KeepsItself DEF Finalise
<1>2. CASE tx.run.destroys
  <2> DEFINE held == st.balance[contract]
             mid  == setBalance(st, contract, 0)
             e    == [mid EXCEPT !.lost = @ + held]
  <2>1. held \in Nat /\ st.lost \in Nat /\ total(st) \in Nat
    BY StateFields
  <2>2. /\ mid \in LedgerState /\ mid.nonce = st.nonce /\ mid.lost = st.lost
        /\ total(mid) = total(st) - held + 0
    BY SetBalance
  <2>3. Finalise(st, contract, tx) = e
    BY <1>2 DEF Finalise, setBalance, LedgerState
  <2> HIDE DEF held, mid
  <2>4. e \in LedgerState /\ e.nonce = mid.nonce /\ e.balance = mid.balance /\ e.lost = mid.lost + held
    BY <2>1, <2>2 DEF LedgerState
  <2> HIDE DEF e
  <2>5. SumFunctionOnSet(mid.balance, Address) \in Int
    <3>1. mid.balance \in [Address -> Nat]
      BY <2>2, StateFields
    <3>2. Ints(mid.balance, Address)
      BY <3>1 DEF Ints
    <3> QED BY <3>2, Addresses, SumInt
  <2>6. total(e) = total(st)
    BY <2>1, <2>2, <2>4, <2>5 DEF total
  <2> QED BY <2>2, <2>3, <2>4, <2>6 DEF Keeps, SameTotal
<1> QED BY <1>1, <1>2

(* All that Create or Call leaves of a run that succeeds.                  *)
LEMMA Succeeded ==
    ASSUME NEW st \in LedgerState, NEW target \in Address, NEW tx \in Tx
    PROVE  Keeps(st, succeeded(st, target, tx))
<1> DEFINE paid  == payOut(st, target, tx)
           ended == Finalise(paid, target, tx)
           coded == [ended EXCEPT !.code[target] = "evm"]
<1>1. Keeps(st, paid) /\ paid \in LedgerState
  BY PaidOut DEF Keeps
<1>2. succeeded(st, target, tx) = ended \/ succeeded(st, target, tx) = coded
  BY DEF succeeded
<1> HIDE DEF paid
<1>3. Keeps(paid, ended) /\ ended \in LedgerState
  BY <1>1, Finalised DEF Keeps
<1> HIDE DEF ended
<1>4. Keeps(ended, coded)
  BY <1>3, Coded
<1> HIDE DEF coded
<1>5. Keeps(st, ended)
  BY <1>1, <1>3, KeepsTwice
<1>6. Keeps(st, coded)
  BY <1>4, <1>5, KeepsTwice
<1> QED BY <1>2, <1>5, <1>6

(* A run of code: the gas it uses is within the limit, and what it does to *)
(* the state moves money and no nonce but the sender's.                    *)
Ran(st, tx, ran) ==
    /\ ran.st \in LedgerState /\ SameTotal(st, ran.st) /\ ran.gas \in 0..tx.gasLimit
    /\ \A a \in Address \ {tx.from} : ran.st.nonce[a] = st.nonce[a]

(* A run that keeps the total, from its two parts.                         *)
LEMMA RanKeeping ==
    ASSUME NEW st, NEW tx, NEW next, Keeps(st, next), NEW gas \in 0..tx.gasLimit
    PROVE  Ran(st, tx, [st |-> next, gas |-> gas])
BY DEF Keeps, Ran

(* StackVM.Execute, whatever the code does.                                *)
LEMMA Executed ==
    ASSUME NEW st \in LedgerState, NEW tx \in Tx
    PROVE  Ran(st, tx, Execute(st, tx)) /\ Execute(st, tx).st.nonce = st.nonce
<1> DEFINE target == IF tx.to = Zero THEN CreateAddress(tx.from, tx.nonce) ELSE tx.to
           needed == IF tx.to = Zero THEN GasCreate
                     ELSE IF st.code[target] = "none" THEN 0 ELSE tx.run.gas
           moved  == transfer(st, tx.from, target, tx.value)
           coded  == [moved EXCEPT !.code[target] = "stack"]
           result(next, gas) == [st |-> next, gas |-> gas]
<1>1. /\ tx.from \in Address /\ tx.from # Zero /\ target \in Address /\ tx.value \in Nat
      /\ tx.gasLimit \in Nat /\ needed \in Nat /\ st.balance[tx.from] \in Nat
  <2>1. /\ tx.from \in Users /\ tx.from \in Address /\ tx.from # Zero /\ tx.to \in Address
        /\ tx.nonce \in 0..MaxNonce /\ tx.value \in Nat /\ tx.gasLimit \in Nat /\ tx.run.gas \in Nat
    BY TxFields
  <2>2. target \in Address
    BY <2>1, Addresses
  <2> HIDE DEF target
  <2>3. needed \in Nat
    BY <2>1, Constants
  <2> QED BY <2>1, <2>2, <2>3, StateFields
<1>2. ASSUME NEW next, Keeps(st, next), NEW gas \in 0..tx.gasLimit,
             Execute(st, tx) = result(next, gas)
      PROVE  Ran(st, tx, Execute(st, tx)) /\ Execute(st, tx).st.nonce = st.nonce
  BY <1>2, RanKeeping DEF Keeps
<1>3. ASSUME NEW gas \in 0..tx.gasLimit, Execute(st, tx) = result(st, gas)
      PROVE  Ran(st, tx, Execute(st, tx)) /\ Execute(st, tx).st.nonce = st.nonce
  BY <1>2, <1>3, KeepsItself
<1>4. CASE cannotTransfer(st, tx)
  <2>1. \/ Execute(st, tx) = result(st, 0)
        \/ Execute(st, tx) = result(st, tx.gasLimit)
        \/ needed <= tx.gasLimit /\ Execute(st, tx) = result(st, needed)
    BY <1>1, <1>4 DEF Execute
  <2> HIDE DEF result
  <2> QED BY <1>1, <1>3, <2>1
<1>5. CASE ~cannotTransfer(st, tx)
  <2>1. Keeps(st, moved)
    <3>1. tx.from # target => tx.value <= st.balance[tx.from]
      <4>1. tx.value # 0 /\ tx.from # tx.to => tx.value <= st.balance[tx.from]
        BY <1>1, <1>5 DEF cannotTransfer
      <4>2. tx.from # target => tx.from # tx.to
        BY <1>1
      <4> HIDE DEF target
      <4> QED BY <1>1, <4>1, <4>2
    <3> HIDE DEF target
    <3> QED BY <1>1, <3>1, Transferred
  <2>2. \/ Execute(st, tx) = result(st, tx.gasLimit)
        \/ /\ needed <= tx.gasLimit
           /\ \/ Execute(st, tx) = result(coded, needed)
              \/ Execute(st, tx) = result(moved, needed)
              \/ Execute(st, tx) = result(moved, 0)
              \/ Execute(st, tx) = result(payOut(moved, target, tx), needed)
              \/ Execute(st, tx) = result(st, needed)
    BY <1>1, <1>5 DEF Execute
  <2> HIDE DEF target, needed, moved, result
  <2>3. moved \in LedgerState
    BY <2>1 DEF Keeps
  <2>4. Keeps(st, coded)
    BY <1>1, <2>1, <2>3, Coded, KeepsTwice, Zenon
  <2>5. Keeps(st, payOut(moved, target, tx))
    BY <1>1, <2>1, <2>3, PaidOut, KeepsTwice
  <2> HIDE DEF coded
  <2> QED BY <1>1, <1>2, <1>3, <2>1, <2>2, <2>4, <2>5
<1> QED BY <1>4, <1>5

(* Create and Call of go-ethereum, the sender's nonce being the            *)
(* transaction's.                                                          *)
LEMMA ExecutedEVM ==
    ASSUME NEW st \in LedgerState, NEW tx \in Tx, st.nonce[tx.from] = tx.nonce
    PROVE  Ran(st, tx, ExecuteEVM(st, tx))
<1> DEFINE target == IF tx.to = DeployAddress THEN CreateAddress(tx.from, st.nonce[tx.from])
                     ELSE tx.to
           begun  == IF tx.to = DeployAddress THEN bumpNonce(st, tx.from) ELSE st
           moved  == transfer(begun, tx.from, target, tx.value)
           ended  == succeeded(moved, target, tx)
           result(next, gas) == [st |-> next, gas |-> gas]
<1>1. /\ tx.from \in Address /\ target \in Address /\ tx.value \in Nat
      /\ tx.gasLimit \in Nat /\ tx.run.gas \in Nat /\ st.balance[tx.from] \in Nat
  <2>1. /\ tx.from \in Users /\ tx.from \in Address /\ tx.to \in Address
        /\ tx.nonce \in 0..MaxNonce /\ tx.value \in Nat /\ tx.gasLimit \in Nat /\ tx.run.gas \in Nat
    BY TxFields
  <2>2. target \in Address
    BY <2>1, Addresses
  <2> HIDE DEF target
  <2> QED BY <2>1, <2>2, StateFields
<1>2. /\ begun \in LedgerState /\ total(begun) = total(st) /\ begun.balance = st.balance
      /\ \A a \in Address \ {tx.from} : begun.nonce[a] = st.nonce[a]
  <2>1. CASE tx.to = DeployAddress
    <3>1. /\ bumpNonce(st, tx.from) \in LedgerState
          /\ total(bumpNonce(st, tx.from)) = total(st)
          /\ bumpNonce(st, tx.from).balance = st.balance
          /\ bumpNonce(st, tx.from).nonce = [st.nonce EXCEPT ![tx.from] = @ + 1]
      BY <1>1, Bumped
    <3>2. st.nonce \in [Address -> Nat]
      BY StateFields
    <3> QED BY <2>1, <3>1, <3>2
  <2>2. CASE tx.to # DeployAddress
    BY <2>2
  <2> QED BY <2>1, <2>2
<1>3. ASSUME NEW next, Keeps(begun, next), NEW gas \in 0..tx.gasLimit,
             ExecuteEVM(st, tx) = result(next, gas)
      PROVE  Ran(st, tx, ExecuteEVM(st, tx))
  <2> HIDE DEF begun
  <2>1. next \in LedgerState /\ SameTotal(st, next) /\ next.nonce = begun.nonce
    BY <1>2, <1>3 DEF Keeps, SameTotal
  <2> QED BY <1>2, <1>3, <2>1 DEF Ran
<1>4. ASSUME NEW gas \in 0..tx.gasLimit, ExecuteEVM(st, tx) = result(st, gas)
      PROVE  Ran(st, tx, ExecuteEVM(st, tx))
  BY <1>4, KeepsItself, RanKeeping
<1>5. CASE st.balance[tx.from] < tx.value
  <2>1. ExecuteEVM(st, tx) = result(st, 0)
    BY <1>5 DEF ExecuteEVM
  <2> HIDE DEF result
  <2> QED BY <1>1, <1>4, <2>1
<1>6. CASE ~(st.balance[tx.from] < tx.value)
  <2>1. Keeps(begun, begun)
    BY <1>2, KeepsItself
  <2>2. Keeps(begun, moved)
    <3>1. tx.value <= begun.balance[tx.from]
      <4> HIDE DEF begun
      <4> QED BY <1>1, <1>2, <1>6
    <3> HIDE DEF begun, target
    <3> QED BY <1>1, <1>2, <3>1, Transferred
  <2>3. \/ ExecuteEVM(st, tx) = result(st, tx.gasLimit)
        \/ ExecuteEVM(st, tx) = result(begun, tx.gasLimit)
        \/ /\ tx.run.gas <= tx.gasLimit
           /\ \/ ExecuteEVM(st, tx) = result(begun, tx.run.gas)
              \/ ExecuteEVM(st, tx) = result(ended, tx.run.gas)
    <3> DEFINE refused == /\ paysOut(moved, target, tx)
                          /\ overflows(moved, target, tx.run.payee, tx.run.pays)
    <3>1. ExecuteEVM(st, tx) =
              IF st.balance[tx.from] < tx.value THEN result(st, 0)
              ELSE IF overflows(st, tx.from, target, tx.value) THEN result(st, tx.gasLimit)
              ELSE IF tx.run.gas > tx.gasLimit THEN result(begun, tx.gasLimit)
              ELSE IF ~tx.run.ok THEN result(begun, tx.run.gas)
              ELSE IF refused THEN result(st, tx.gasLimit)
              ELSE result(ended, tx.run.gas)
      BY Zenon DEF ExecuteEVM
    <3> HIDE DEF target, begun, moved, ended, result, refused
    <3> QED BY <1>1, <1>6, <3>1
  <2> HIDE DEF target, begun, moved, result
  <2>4. moved \in LedgerState
    BY <2>2 DEF Keeps
  <2>5. Keeps(begun, ended)
    BY <1>1, <2>2, <2>4, Succeeded, KeepsTwice, Zenon
  <2> HIDE DEF ended
  <2> QED BY <1>1, <1>3, <1>4, <2>1, <2>3, <2>5
<1> QED BY <1>5, <1>6

-----------------------------------------------------------------------------
(* Gas that can be bought: the reserve is the product, and is there, and   *)
(* the price is the base fee and a tip within the cap.                     *)
LEMMA GasBought ==
    ASSUME NEW st \in LedgerState, NEW tx \in Tx, NEW baseFee \in Nat,
           gasError(st, tx, baseFee) = "nil"
    PROVE  LET tip == priorityFee(baseFee, tx.feeCap, tx.tipCap) IN
           /\ gasReserve(tx) = tx.gasLimit * tx.feeCap /\ gasReserve(tx) \in Nat
           /\ gasReserve(tx) <= st.balance[tx.from]
           /\ tip \in Nat /\ baseFee + tip <= tx.feeCap
           /\ EffectiveGasPrice(baseFee, tx.feeCap, tx.tipCap) = baseFee + tip
<1> DEFINE gas == tx.gasLimit
           cap == tx.feeCap
           p   == gas * cap
           r   == gasReserve(tx)
<1>1. gas \in Nat /\ cap \in Nat /\ tx.tipCap \in Nat /\ tx.from \in Address
  BY TxFields
<1>2. st.balance[tx.from] \in Nat
  BY <1>1, StateFields
<1>3. /\ tx.tipCap <= cap /\ ~(cap # 0 /\ r \div cap # gas) /\ ~(st.balance[tx.from] < r)
      /\ ~(cap < baseFee)
  BY DEF gasError, ValidateFeeCapTip
<1>4. p \in Nat
  BY <1>1
<1>5. r \in Nat /\ r <= p
  <2>1. r = Wrap(p)
    BY DEF gasReserve
  <2> HIDE DEF p, r
  <2> QED BY <1>4, <2>1, WrapNat
<1>6. r = p
  <2>1. CASE cap = 0
    BY <1>1, <1>5, <2>1
  <2>2. CASE cap # 0
    <3>1. r \div cap = gas
      BY <1>3, <2>2
    <3> HIDE DEF r, gas, cap
    <3>2. cap * (r \div cap) <= r
      BY <1>1, <1>5, <2>2, DivBounds
    <3>3. cap * gas = gas * cap
      BY <1>1
    <3>4. p <= r
      BY <3>1, <3>2, <3>3
    <3> HIDE DEF p
    <3> QED BY <1>4, <1>5, <3>4
  <2> QED BY <2>1, <2>2
<1>7. /\ priorityFee(baseFee, cap, tx.tipCap) \in Nat
      /\ baseFee + priorityFee(baseFee, cap, tx.tipCap) <= cap
  <2> HIDE DEF cap
  <2> QED BY <1>1, <1>3 DEF priorityFee
<1>8. r <= st.balance[tx.from]
  <2> HIDE DEF r
  <2> QED BY <1>2, <1>3, <1>5
<1> QED BY <1>5, <1>6, <1>7, <1>8 DEF EffectiveGasPrice

(* reserveGas: the reserve has left the sender's account.                  *)
LEMMA Reserved ==
    ASSUME NEW st \in LedgerState, NEW tx \in Tx, gasReserve(tx) \in Nat,
           gasReserve(tx) <= st.balance[tx.from]
    PROVE  /\ reserveGas(st, tx) \in LedgerState
           /\ reserveGas(st, tx).nonce = st.nonce
           /\ total(reserveGas(st, tx)) = total(st) - gasReserve(tx)
<1>1. reserveGas(st, tx) = setBalance(st, tx.from, st.balance[tx.from] - gasReserve(tx))
  BY DEF reserveGas, setBalance
<1>2. tx.from \in Address
  BY TxFields
<1> QED BY <1>1, <1>2, Debited

(* What a transaction does that is applied: it uses up its nonce and none  *)
(* else, and what leaves the accounts is its tip and its gas at the base   *)
(* fee.                                                                    *)
Paid(st, baseFee, r) == total(st) < Word => total(r.st) + r.tip + r.gas * baseFee = total(st)
Applies(st, tx, baseFee, r) ==
    /\ r.st \in LedgerState /\ r.gas \in Nat /\ r.tip \in Nat
    /\ tx.nonce = st.nonce[tx.from]
    /\ r.st.nonce = [st.nonce EXCEPT ![tx.from] = @ + 1]
    /\ Paid(st, baseFee, r)

(* The refund, whatever ran on the state where the gas is reserved.        *)
LEMMA Refunded ==
    ASSUME NEW st \in LedgerState, NEW tx \in Tx, NEW baseFee \in Nat,
           gasError(st, tx, baseFee) = "nil", NEW ran, ran.st \in LedgerState,
           ran.gas \in 0..tx.gasLimit, SameTotal(reserveGas(st, tx), ran.st)
    PROVE  LET r == pricedResult(st, ran, tx, baseFee) IN
           /\ r \in Result /\ r.err = "nil" /\ r.st \in LedgerState
           /\ r.gas \in Nat /\ r.tip \in Nat /\ r.st.nonce = ran.st.nonce /\ Paid(st, baseFee, r)
<1> DEFINE gas == ran.gas
           tip == priorityFee(baseFee, tx.feeCap, tx.tipCap)
           R   == gasReserve(tx)
           back == R - gas * (baseFee + tip)
           mid == ran.st
           next == credit(mid, tx.from, back)
           r   == pricedResult(st, ran, tx, baseFee)
<1>1. /\ R = tx.gasLimit * tx.feeCap /\ R \in Nat /\ R <= st.balance[tx.from]
      /\ tip \in Nat /\ baseFee + tip <= tx.feeCap
      /\ EffectiveGasPrice(baseFee, tx.feeCap, tx.tipCap) = baseFee + tip
  BY GasBought, Zenon
<1>2. tx.from \in Address /\ tx.gasLimit \in Nat /\ tx.feeCap \in Nat
  BY TxFields
<1>3. r = [err |-> "nil", st |-> next, gas |-> gas, tip |-> gas * tip]
  BY <1>1 DEF pricedResult, refundGas, Applied
<1>4. total(reserveGas(st, tx)) = total(st) - R
  BY <1>1, Reserved
<1>5. total(st) \in Nat /\ total(mid) \in Nat /\ Word \in Nat
  BY StateFields, Constants
<1> HIDE DEF tip, R
<1>6. gas \in Nat /\ gas <= tx.gasLimit
  BY <1>2
<1> HIDE DEF gas
<1>7. gas * (baseFee + tip) \in Nat /\ gas * (baseFee + tip) <= R
  <2>1. baseFee + tip \in Nat
    BY <1>1
  <2>2. gas * (baseFee + tip) \in Nat /\ gas * (baseFee + tip) <= gas * tx.feeCap
    BY <1>1, <1>2, <1>6, <2>1, ProductAtMost
  <2>3. tx.feeCap * gas \in Nat /\ tx.feeCap * gas <= tx.feeCap * tx.gasLimit
    BY <1>2, <1>6, ProductAtMost
  <2>4. tx.feeCap * gas = gas * tx.feeCap /\ tx.feeCap * tx.gasLimit = tx.gasLimit * tx.feeCap
    BY <1>2, <1>6
  <2> QED BY <1>1, <2>2, <2>3, <2>4
<1>8. /\ gas * (baseFee + tip) = gas * baseFee + gas * tip
      /\ gas * baseFee \in Nat /\ gas * tip \in Nat
  BY <1>1, <1>6
<1>9. back \in Nat
  BY <1>1, <1>7
<1>10. /\ next \in LedgerState /\ next.nonce = mid.nonce
       /\ total(mid) + back < Word => total(next) = total(mid) + back
  <2> HIDE DEF back, mid
  <2> QED BY <1>2, <1>9, Credited, Zenon DEF mid
<1>11. total(st) < Word => total(next) + gas * tip + gas * baseFee = total(st)
  <2>1. SUFFICES ASSUME total(st) < Word PROVE total(next) + gas * tip + gas * baseFee = total(st)
    OBVIOUS
  <2>2. total(mid) = total(st) - R
    BY <1>1, <1>4, <1>5, <2>1 DEF SameTotal
  <2>3. total(mid) + back = total(st) - gas * (baseFee + tip)
    BY <1>1, <1>5, <1>7, <2>2
  <2>4. total(next) = total(st) - gas * (baseFee + tip)
    BY <1>5, <1>7, <1>10, <2>1, <2>3
  <2> HIDE DEF next
  <2> QED BY <1>5, <1>8, <2>4
<1> HIDE DEF next, r
<1>12. r \in Result
  BY <1>3, <1>6, <1>8, <1>10 DEF Result, Errors
<1> QED BY <1>3, <1>6, <1>8, <1>10, <1>11, <1>12 DEF Paid, r, mid

(* A transaction to the stack machine, from the reserve to the refund.     *)
LEMMA ContractApplied ==
    ASSUME NEW st \in LedgerState, NEW tx \in Tx, NEW baseFee \in Nat,
           tx.nonce = st.nonce[tx.from], gasError(st, tx, baseFee) = "nil"
    PROVE  /\ applyContractTx(st, tx, baseFee) \in Result
           /\ Applies(st, tx, baseFee, applyContractTx(st, tx, baseFee))
<1> DEFINE held == reserveGas(st, tx)
           mid  == bumpNonce(held, tx.from)
           ran  == Execute(mid, tx)
           r    == pricedResult(st, ran, tx, baseFee)
<1>1. applyContractTx(st, tx, baseFee) = r
  BY DEF applyContractTx
<1>2. held \in LedgerState /\ held.nonce = st.nonce
  <2>1. gasReserve(tx) \in Nat /\ gasReserve(tx) <= st.balance[tx.from]
    BY GasBought, Zenon
  <2> QED BY <2>1, Reserved
<1> HIDE DEF held
<1>3. mid \in LedgerState /\ mid.nonce = [held.nonce EXCEPT ![tx.from] = @ + 1]
      /\ total(mid) = total(held)
  BY <1>2, TxFields, Bumped, Zenon
<1> HIDE DEF mid
<1>4. Ran(mid, tx, ran) /\ ran.st.nonce = mid.nonce
  BY <1>3, Executed
<1> HIDE DEF ran
<1>5. ran.st \in LedgerState /\ ran.gas \in 0..tx.gasLimit /\ SameTotal(held, ran.st)
  BY <1>3, <1>4 DEF Ran, SameTotal
<1>6. /\ r.err = "nil" /\ r.st \in LedgerState /\ r.gas \in Nat /\ r.tip \in Nat
      /\ r.st.nonce = ran.st.nonce /\ Paid(st, baseFee, r) /\ r \in Result
  BY <1>5, Refunded, Zenon DEF held
<1> HIDE DEF r
<1> QED BY <1>1, <1>2, <1>3, <1>4, <1>6 DEF Applies

(* The same for one to go-ethereum's machine, which moves the nonce        *)
(* itself.                                                                 *)
LEMMA EVMApplied ==
    ASSUME NEW st \in LedgerState, NEW tx \in Tx, NEW baseFee \in Nat,
           tx.nonce = st.nonce[tx.from], gasError(st, tx, baseFee) = "nil"
    PROVE  /\ applyEVMTx(st, tx, baseFee) \in Result
           /\ Applies(st, tx, baseFee, applyEVMTx(st, tx, baseFee))
<1> DEFINE held == reserveGas(st, tx)
           evm  == ExecuteEVM(held, tx)
           n    == st.nonce[tx.from] + 1
           next == [evm.st EXCEPT !.nonce[tx.from] = n]
           ran  == [evm EXCEPT !.st.nonce[tx.from] = n]
           r    == pricedResult(st, ran, tx, baseFee)
<1>1. applyEVMTx(st, tx, baseFee) = r
  BY DEF applyEVMTx
<1>2. held \in LedgerState /\ held.nonce = st.nonce
  <2>1. gasReserve(tx) \in Nat /\ gasReserve(tx) <= st.balance[tx.from]
    BY GasBought, Zenon
  <2> QED BY <2>1, Reserved
<1>3. tx.from \in Address /\ n \in Nat
  BY TxFields, StateFields
<1> HIDE DEF held
<1>4. Ran(held, tx, evm)
  BY <1>2, ExecutedEVM
<1>5. ran.st = next /\ ran.gas = evm.gas
  BY DEF ExecuteEVM
<1> HIDE DEF evm, ran
<1>6. /\ next \in LedgerState /\ total(next) = total(evm.st)
      /\ next.nonce = [evm.st.nonce EXCEPT ![tx.from] = n]
  <2> HIDE DEF n
  <2> QED BY <1>3, <1>4, NonceSet DEF Ran
<1>7. next.nonce = [st.nonce EXCEPT ![tx.from] = @ + 1]
  <2>1. evm.st.nonce \in [Address -> Nat] /\ st.nonce \in [Address -> Nat]
    BY <1>4, StateFields DEF Ran
  <2>2. \A a \in Address \ {tx.from} : evm.st.nonce[a] = st.nonce[a]
    BY <1>2, <1>4 DEF Ran
  <2> HIDE DEF next
  <2> QED BY <1>3, <1>6, <2>1, <2>2
<1> HIDE DEF next, n
<1>8. ran.st \in LedgerState /\ ran.gas \in 0..tx.gasLimit /\ SameTotal(held, ran.st)
  BY <1>4, <1>5, <1>6 DEF Ran, SameTotal
<1>9. /\ r.err = "nil" /\ r.st \in LedgerState /\ r.gas \in Nat /\ r.tip \in Nat
      /\ r.st.nonce = ran.st.nonce /\ Paid(st, baseFee, r) /\ r \in Result
  BY <1>8, Refunded, Zenon DEF held
<1> HIDE DEF r
<1> QED BY <1>1, <1>5, <1>7, <1>9 DEF Applies

(* What Applied and Failed return are results.                             *)
LEMMA ResultOf ==
    ASSUME NEW st \in LedgerState
    PROVE  /\ \A err \in Errors : Failed(st, err) \in Result
           /\ Applied(st, 0, 0) \in Result
BY DEF Failed, Applied, Result, Errors

(* The gas and the tips of one more transaction, added by addTx.           *)
LEMMA ResultAdded ==
    ASSUME NEW st \in LedgerState, NEW g \in Nat, NEW h \in Nat, NEW p \in Nat, NEW q \in Nat
    PROVE  Applied(st, g + h, p + q) \in Result
<1>1. g + h \in Nat /\ p + q \in Nat
  OBVIOUS
<1> QED BY <1>1 DEF Applied, Result, Errors

(* What the gas check returns is one of the errors.                        *)
LEMMA GasErrorType ==
    ASSUME NEW st, NEW tx, NEW baseFee
    PROVE  gasError(st, tx, baseFee) \in Errors
BY DEF gasError, Errors

(* A transaction that neither uses gas nor moves money out.                *)
LEMMA FreeApplied ==
    ASSUME NEW st \in LedgerState, NEW tx \in Tx, NEW baseFee \in Nat, NEW next \in LedgerState,
           tx.nonce = st.nonce[tx.from],
           next.nonce = [st.nonce EXCEPT ![tx.from] = @ + 1], SameTotal(st, next)
    PROVE  Applied(next, 0, 0) \in Result /\ Applies(st, tx, baseFee, Applied(next, 0, 0))
<1> DEFINE r == Applied(next, 0, 0)
<1>1. r.st = next /\ r.gas = 0 /\ r.tip = 0 /\ r \in Result
  BY ResultOf DEF Applied
<1>2. total(next) \in Nat
  BY StateFields
<1> HIDE DEF r
<1>3. Paid(st, baseFee, r)
  BY <1>1, <1>2 DEF Paid, SameTotal
<1> QED BY <1>1, <1>3 DEF Applies, r

(* applyTx of a transaction on a state, with an error or without.          *)
LEMMA TxApplied ==
    ASSUME NEW st \in LedgerState, NEW tx \in Tx, NEW baseFee \in Nat
    PROVE  LET r == applyTx(st, tx, baseFee) IN
           r \in Result /\ (r.err = "nil" => Applies(st, tx, baseFee, r))
<1> DEFINE r == applyTx(st, tx, baseFee)
           bumped == bumpNonce(st, tx.from)
           moved == transfer(bumped, tx.from, tx.to, tx.value)
           Good == r \in Result /\ (r.err = "nil" => Applies(st, tx, baseFee, r))
<1> SUFFICES Good
  OBVIOUS
<1>1. /\ tx.from \in Address /\ tx.to \in Address /\ tx.value \in Nat
      /\ st.balance[tx.from] \in Nat
  BY TxFields, StateFields
<1>2. /\ bumped \in LedgerState /\ bumped.nonce = [st.nonce EXCEPT ![tx.from] = @ + 1]
      /\ bumped.balance = st.balance /\ SameTotal(st, bumped)
  BY <1>1, Bumped DEF SameTotal
<1>3. ASSUME NEW err \in Errors, err # "nil", NEW s \in LedgerState, r = Failed(s, err)
      PROVE  Good
  <2>1. Failed(s, err) \in Result /\ Failed(s, err).err = err
    BY ResultOf DEF Failed
  <2> HIDE DEF r
  <2> QED BY <1>3, <2>1
<1>4. ASSUME tx.nonce = st.nonce[tx.from], r = Applied(bumped, 0, 0)
      PROVE  Good
  <2> HIDE DEF r, bumped
  <2> QED BY <1>2, <1>4, FreeApplied
<1>5. CASE ~tx.genuine \/ tx.nonce # st.nonce[tx.from]
  <2>1. r = Failed(st, "ErrBadSig") \/ r = Failed(st, "ErrBadNonce")
    BY <1>5, Zenon DEF applyTx
  <2> HIDE DEF r, Good
  <2> QED BY <1>3, <2>1 DEF Errors
<1>6. CASE tx.genuine /\ tx.nonce = st.nonce[tx.from] /\ IsExchangeTx(tx)
  <2>1. \/ r = Failed(st, "ErrInsufficientBalance")
        \/ r = Failed(bumped, "ErrRejected")
        \/ r = Applied(bumped, 0, 0)
    BY <1>6, Zenon DEF applyTx
  <2> HIDE DEF r, Good, bumped
  <2> QED BY <1>2, <1>3, <1>4, <1>6, <2>1 DEF Errors
<1>7. CASE tx.genuine /\ tx.nonce = st.nonce[tx.from] /\ ~IsExchangeTx(tx) /\ isEVMTx(st, tx)
  <2>1. r = applyEVMTx(st, tx, baseFee)
    BY <1>7 DEF applyTx
  <2>2. CASE gasError(st, tx, baseFee) # "nil"
    <3>1. r = Failed(st, gasError(st, tx, baseFee))
      BY <2>1, <2>2 DEF applyEVMTx
    <3> HIDE DEF r, Good
    <3> QED BY <1>3, <2>2, <3>1, GasErrorType
  <2>3. CASE gasError(st, tx, baseFee) = "nil"
    <3> HIDE DEF r
    <3> QED BY <1>7, <2>1, <2>3, EVMApplied
  <2> QED BY <2>2, <2>3
<1>8. CASE /\ tx.genuine /\ tx.nonce = st.nonce[tx.from] /\ ~IsExchangeTx(tx) /\ ~isEVMTx(st, tx)
           /\ ~IsAttestationTx(tx) /\ isContractTx(st, tx)
  <2>1. r = applyContractTx(st, tx, baseFee)
    BY <1>8 DEF applyTx
  <2>2. CASE gasError(st, tx, baseFee) # "nil"
    <3>1. r = Failed(st, gasError(st, tx, baseFee))
      BY <2>1, <2>2 DEF applyContractTx
    <3> HIDE DEF r, Good
    <3> QED BY <1>3, <2>2, <3>1, GasErrorType
  <2>3. CASE gasError(st, tx, baseFee) = "nil"
    <3> HIDE DEF r
    <3> QED BY <1>8, <2>1, <2>3, ContractApplied
  <2> QED BY <2>2, <2>3
<1>9. CASE /\ tx.genuine /\ tx.nonce = st.nonce[tx.from] /\ ~IsExchangeTx(tx) /\ ~isEVMTx(st, tx)
           /\ IsAttestationTx(tx) \/ ~isContractTx(st, tx)
  <2>1. \/ r = Applied(bumped, 0, 0)
        \/ r = Failed(st, "ErrInsufficientBalance")
        \/ ~(st.balance[tx.from] < tx.value) /\ r = Applied(moved, 0, 0)
    BY <1>9, Zenon DEF applyTx
  <2>2. CASE ~(st.balance[tx.from] < tx.value) /\ r = Applied(moved, 0, 0)
    <3>1. Keeps(bumped, moved)
      <4>1. tx.value <= bumped.balance[tx.from]
        <5> HIDE DEF bumped
        <5> QED BY <1>1, <1>2, <2>2
      <4> HIDE DEF bumped
      <4> QED BY <1>1, <1>2, <4>1, Transferred
    <3> HIDE DEF r, bumped, moved
    <3>2. /\ moved \in LedgerState /\ moved.nonce = [st.nonce EXCEPT ![tx.from] = @ + 1]
          /\ SameTotal(st, moved)
      <4>1. moved \in LedgerState /\ moved.nonce = [st.nonce EXCEPT ![tx.from] = @ + 1]
        BY <1>2, <3>1 DEF Keeps
      <4>2. SameTotal(st, moved)
        BY <1>2, <3>1 DEF Keeps, SameTotal
      <4> QED BY <4>1, <4>2
    <3> QED BY <1>9, <2>2, <3>2, FreeApplied
  <2> HIDE DEF r, Good, bumped, moved
  <2> QED BY <1>3, <1>4, <1>9, <2>1, <2>2 DEF Errors
<1> QED BY <1>5, <1>6, <1>7, <1>8, <1>9, Zenon

-----------------------------------------------------------------------------
(* The first m transactions of a block between the nonces before it and    *)
(* after: each sender's are in the order of their nonces, and are all the  *)
(* nonces that its account has moved past.                                 *)
OrderedTo(old, new, txs, m) ==
    /\ \A u \in Users : old[u] <= new[u]
    /\ \A j \in 1..m : old[txs[j].from] <= txs[j].nonce /\ txs[j].nonce < new[txs[j].from]
    /\ \A j, k \in 1..m : j < k /\ txs[j].from = txs[k].from => txs[j].nonce < txs[k].nonce
    /\ \A u \in Users : \A n \in old[u]..(new[u] - 1) :
          \E j \in 1..m : txs[j].from = u /\ txs[j].nonce = n

(* One more transaction, at its sender's nonce, keeps the order.           *)
LEMMA OrderedStep ==
    ASSUME NEW old \in [Address -> Nat], NEW mid \in [Address -> Nat], NEW new \in [Address -> Nat],
           NEW txs, NEW m \in Nat, OrderedTo(old, mid, txs, m),
           \A j \in 1..(m + 1) : txs[j].from \in Users /\ txs[j].nonce \in Nat,
           txs[m + 1].nonce = mid[txs[m + 1].from],
           new = [mid EXCEPT ![txs[m + 1].from] = @ + 1]
    PROVE  OrderedTo(old, new, txs, m + 1)
<1> DEFINE s == txs[m + 1].from
<1>1. Users \subseteq Address
  BY Addresses
<1>2. s \in Users /\ m + 1 \in 1..(m + 1)
  OBVIOUS
<1>3. new[s] = mid[s] + 1 /\ \A u \in Address \ {s} : new[u] = mid[u]
  BY <1>1, <1>2
<1>4. \A u \in Users : old[u] \in Nat /\ mid[u] \in Nat /\ new[u] \in Nat /\ mid[u] <= new[u]
  BY <1>1, <1>2, <1>3
<1>5. \A j \in 1..(m + 1) : j # m + 1 => j \in 1..m
  OBVIOUS
<1>6. \A u \in Users : old[u] <= new[u]
  BY <1>4 DEF OrderedTo
<1>7. ASSUME NEW j \in 1..(m + 1)
      PROVE  old[txs[j].from] <= txs[j].nonce /\ txs[j].nonce < new[txs[j].from]
  <2>0. txs[j].from \in Users /\ txs[j].nonce \in Nat
    OBVIOUS
  <2>1. CASE j = m + 1
    <3>1. old[s] <= mid[s]
      BY <1>2 DEF OrderedTo
    <3> QED BY <1>2, <1>3, <1>4, <2>1, <3>1
  <2>2. CASE j # m + 1
    <3>1. old[txs[j].from] <= txs[j].nonce /\ txs[j].nonce < mid[txs[j].from]
      BY <1>5, <2>2 DEF OrderedTo
    <3> QED BY <1>4, <2>0, <3>1
  <2> QED BY <2>1, <2>2
<1>8. ASSUME NEW j \in 1..(m + 1), NEW k \in 1..(m + 1), j < k, txs[j].from = txs[k].from
      PROVE  txs[j].nonce < txs[k].nonce
  <2>1. j \in 1..m
    BY <1>8
  <2>2. CASE k = m + 1
    BY <1>8, <2>1, <2>2 DEF OrderedTo
  <2>3. CASE k # m + 1
    BY <1>5, <1>8, <2>1, <2>3 DEF OrderedTo
  <2> QED BY <2>2, <2>3
<1>9. ASSUME NEW u \in Users, NEW n \in old[u]..(new[u] - 1)
      PROVE  \E j \in 1..(m + 1) : txs[j].from = u /\ txs[j].nonce = n
  <2>0. n \in Int /\ old[u] <= n /\ n < new[u]
    BY <1>4
  <2>1. CASE u = s /\ n = mid[s]
    BY <1>2, <2>1
  <2>2. CASE ~(u = s /\ n = mid[s])
    <3>1. n < mid[u]
      BY <1>1, <1>3, <1>4, <2>0, <2>2
    <3>2. n \in old[u]..(mid[u] - 1)
      BY <1>4, <2>0, <3>1
    <3>3. PICK j \in 1..m : txs[j].from = u /\ txs[j].nonce = n
      BY <3>2 DEF OrderedTo
    <3>4. j \in 1..(m + 1)
      OBVIOUS
    <3> QED BY <3>3, <3>4
  <2> QED BY <2>1, <2>2
<1> QED BY <1>6, <1>7, <1>8, <1>9, Zenon DEF OrderedTo

(* The products that the proof about a block adds up.                      *)
LEMMA Distributes ==
    ASSUME NEW a \in Nat, NEW b \in Nat, NEW c \in Nat
    PROVE  (a + b) * c = a * c + b * c /\ a * c \in Nat /\ b * c \in Nat
OBVIOUS

(* Who pays a sum pays no more for a part of it.                           *)
LEMMA PaidLess ==
    ASSUME NEW t0 \in Nat, NEW t1 \in Nat, NEW p1 \in Nat, NEW g1 \in Nat, NEW fee \in Nat,
           t1 + p1 + g1 * fee = t0
    PROVE  t1 + p1 <= t0 /\ g1 * fee <= t0 /\ g1 * fee \in Nat
<1>1. g1 * fee \in Nat
  OBVIOUS
<1> QED BY <1>1

(* applyTxs without an error: the nonces are those of its transactions,    *)
(* and what has left the accounts are the tips and the gas at the base     *)
(* fee.                                                                    *)
LEMMA TxsApplied ==
    ASSUME NEW st \in LedgerState, NEW txs \in Seq(Txs), NEW baseFee \in Nat
    PROVE  LET r == applyTxs(st, txs, baseFee) IN
           /\ r \in Result
           /\ r.err = "nil" => /\ OrderedTo(st.nonce, r.st.nonce, txs, Len(txs))
                               /\ Paid(st, baseFee, r)
<1> DEFINE steps == [i \in 1..Len(txs) |-> [acc \in Result |-> addTx(acc, txs[i], baseFee)]]
           start == Applied(st, 0, 0)
           Good(r, m) == /\ r \in Result
                         /\ r.err = "nil" => /\ OrderedTo(st.nonce, r.st.nonce, txs, m)
                                             /\ Paid(st, baseFee, r)
<1>1. Len(txs) \in Nat /\ \A i \in 1..Len(txs) : txs[i] \in Tx
  BY TxAssumption
<1>2. Len(steps) = Len(txs) /\ \A i \in 1..Len(txs) : steps[i] = [acc \in Result |-> addTx(acc, txs[i], baseFee)]
  BY <1>1
<1>3. applyTxs(st, txs, baseFee) = loop(start, steps)
  BY DEF applyTxs
<1> HIDE DEF steps
<1>4. PICK g : /\ g[0] = start /\ loop(start, steps) = g[Len(txs)]
               /\ \A i \in 1..Len(txs) : g[i] = steps[i][g[i - 1]]
  BY <1>1, <1>2, LoopDef
<1>5. st.nonce \in [Address -> Nat] /\ Users \subseteq Address /\ total(st) \in Nat
  BY StateFields, Addresses
<1>6. \A i \in 1..Len(txs) : txs[i].from \in Users /\ txs[i].nonce \in Nat
  BY <1>1, TxFields, Constants
<1>7. Good(start, 0)
  <2>1. start \in Result /\ start.st = st /\ start.gas = 0 /\ start.tip = 0
    BY ResultOf DEF Applied
  <2>2. OrderedTo(st.nonce, st.nonce, txs, 0)
    <3>1. \A u \in Users : st.nonce[u] \in Nat
      BY <1>5
    <3> QED BY <3>1 DEF OrderedTo
  <2>3. Paid(st, baseFee, start)
    <3> HIDE DEF start
    <3> QED BY <1>5, <2>1 DEF Paid
  <2> HIDE DEF start
  <2> QED BY <2>1, <2>2, <2>3
<1>8. ASSUME NEW acc, NEW m \in Nat, m + 1 <= Len(txs), Good(acc, m)
      PROVE  Good(addTx(acc, txs[m + 1], baseFee), m + 1)
  <2> DEFINE tx == txs[m + 1]
             r  == applyTx(acc.st, tx, baseFee)
             next == addTx(acc, tx, baseFee)
  <2>1. acc.st \in LedgerState /\ acc.gas \in Nat /\ acc.tip \in Nat
    BY <1>8 DEF Result
  <2>2. tx \in Tx
    BY <1>1, <1>8
  <2>3. r \in Result /\ (r.err = "nil" => Applies(acc.st, tx, baseFee, r))
    <3> HIDE DEF tx
    <3> QED BY <2>1, <2>2, TxApplied, Zenon
  <2>4. CASE acc.err # "nil"
    <3>1. next = acc
      BY <2>4 DEF addTx, addResult
    <3> HIDE DEF next
    <3> QED BY <1>8, <2>4, <3>1 DEF next
  <2>5. CASE acc.err = "nil" /\ r.err # "nil"
    <3>1. next = r
      BY <2>5 DEF addTx, addResult
    <3> HIDE DEF next, r
    <3> QED BY <2>3, <2>5, <3>1 DEF next
  <2>6. CASE acc.err = "nil" /\ r.err = "nil"
    <3>1. next = [err |-> "nil", st |-> r.st, gas |-> acc.gas + r.gas, tip |-> acc.tip + r.tip]
      BY <2>6 DEF addTx, addResult, Applied
    <3> HIDE DEF r
    <3>2. /\ r.st \in LedgerState /\ r.gas \in Nat /\ r.tip \in Nat
          /\ tx.nonce = acc.st.nonce[tx.from]
          /\ r.st.nonce = [acc.st.nonce EXCEPT ![tx.from] = @ + 1]
          /\ Paid(acc.st, baseFee, r)
      BY <2>3, <2>6 DEF Applies
    <3>3. next \in Result
      <4>1. next = Applied(r.st, acc.gas + r.gas, acc.tip + r.tip)
        BY <2>6 DEF addTx, addResult, r
      <4>2. Applied(r.st, acc.gas + r.gas, acc.tip + r.tip) \in Result
        BY <2>1, <3>2, ResultAdded, Zenon
      <4> HIDE DEF next
      <4> QED BY <4>1, <4>2, Zenon
    <3>4. OrderedTo(st.nonce, r.st.nonce, txs, m + 1)
      <4>1. OrderedTo(st.nonce, acc.st.nonce, txs, m)
        BY <1>8, <2>6
      <4>2. acc.st.nonce \in [Address -> Nat] /\ r.st.nonce \in [Address -> Nat]
        BY <2>1, <3>2, StateFields, Zenon
      <4>3. \A j \in 1..(m + 1) : txs[j].from \in Users /\ txs[j].nonce \in Nat
        BY <1>1, <1>6, <1>8
      <4> QED BY <1>5, <3>2, <4>1, <4>2, <4>3, OrderedStep, Zenon
    <3>5. Paid(st, baseFee, next)
      <4>1. SUFFICES ASSUME total(st) < Word
                     PROVE  total(r.st) + (acc.tip + r.tip) + (acc.gas + r.gas) * baseFee = total(st)
        BY <3>1 DEF Paid
      <4>2. total(acc.st) + acc.tip + acc.gas * baseFee = total(st)
        BY <1>8, <2>6, <4>1 DEF Paid
      <4>3. total(acc.st) \in Nat /\ total(r.st) \in Nat
        BY <2>1, <3>2, StateFields, Zenon
      <4>4. total(acc.st) < Word
        <5>1. total(acc.st) + acc.tip <= total(st)
          BY <1>5, <2>1, <4>2, <4>3, PaidLess
        <5> QED BY <1>5, <2>1, <4>1, <4>3, <5>1, Constants
      <4>5. total(r.st) + r.tip + r.gas * baseFee = total(acc.st)
        BY <3>2, <4>4 DEF Paid
      <4> DEFINE x == total(acc.st)
                 y == total(r.st)
                 p == acc.tip
                 q == r.tip
                 c == acc.gas * baseFee
                 d == r.gas * baseFee
      <4>6. (acc.gas + r.gas) * baseFee = c + d
        BY <2>1, <3>2, Distributes
      <4>7. c \in Nat /\ d \in Nat /\ p \in Nat /\ q \in Nat /\ x \in Nat /\ y \in Nat
        BY <2>1, <3>2, <4>3, Distributes
      <4>8. x + p + c = total(st) /\ y + q + d = x
        BY <4>2, <4>5
      <4> HIDE DEF x, y, p, q, c, d
      <4>9. y + (p + q) + (c + d) = total(st)
        BY <1>5, <4>7, <4>8
      <4> QED BY <4>6, <4>9 DEF p, q, y
    <3> HIDE DEF next
    <3>6. next.st = r.st
      BY <3>1
    <3> QED BY <3>3, <3>4, <3>5, <3>6 DEF next
  <2> QED BY <2>4, <2>5, <2>6
<1> HIDE DEF Good, start
<1> DEFINE P == {m \in Nat : m <= Len(txs) => Good(g[m], m)}
<1>9. 0 \in P
  BY <1>4, <1>7
<1>10. ASSUME NEW m \in Nat, m \in P PROVE m + 1 \in P
  <2>1. SUFFICES ASSUME m + 1 <= Len(txs) PROVE Good(g[m + 1], m + 1)
    OBVIOUS
  <2>2. Good(g[m], m) /\ m + 1 \in 1..Len(txs) /\ (m + 1) - 1 = m
    BY <1>1, <1>10, <2>1
  <2>3. g[m + 1] = steps[m + 1][g[m]]
    BY <1>4, <2>2
  <2>4. g[m] \in Result
    BY <2>2 DEF Good
  <2>5. g[m + 1] = addTx(g[m], txs[m + 1], baseFee)
    BY <1>2, <2>2, <2>3, <2>4, Zenon
  <2> QED BY <1>8, <2>1, <2>2, <2>5
<1>11. \A m \in Nat : m \in P => m + 1 \in P
  BY <1>10
<1> HIDE DEF P
<1>12. Len(txs) \in P
  BY <1>1, <1>9, <1>11, SetInduction
<1>13. Good(applyTxs(st, txs, baseFee), Len(txs))
  BY <1>1, <1>3, <1>4, <1>12 DEF P
<1> QED BY <1>13 DEF Good

(* applyBlock without an error: the nonces of its transactions, the reward *)
(* for its coinbase, and its gas at the base fee gone.                     *)
LEMMA BlockApplied ==
    ASSUME NEW st \in LedgerState, NEW txs \in Seq(Txs), NEW coinbase \in Users, NEW baseFee \in Nat
    PROVE  LET r == applyBlock(st, txs, coinbase, baseFee) IN
           /\ r \in Result
           /\ r.err = "nil" =>
                /\ r.gas <= GasLimit
                /\ OrderedTo(st.nonce, r.st.nonce, txs, Len(txs))
                /\ total(st) + BlockReward < Word =>
                      /\ r.gas * baseFee <= total(st)
                      /\ total(r.st) = total(st) + BlockReward - r.gas * baseFee
<1> DEFINE a == applyTxs(st, txs, baseFee)
           r == applyBlock(st, txs, coinbase, baseFee)
           amount == BlockReward + a.tip
           next == credit(a.st, coinbase, amount)
           Good == /\ r \in Result
                   /\ r.err = "nil" =>
                        /\ r.gas <= GasLimit
                        /\ OrderedTo(st.nonce, r.st.nonce, txs, Len(txs))
                        /\ total(st) + BlockReward < Word =>
                              /\ r.gas * baseFee <= total(st)
                              /\ total(r.st) = total(st) + BlockReward - r.gas * baseFee
<1> SUFFICES Good
  OBVIOUS
<1>1. /\ a \in Result
      /\ a.err = "nil" => OrderedTo(st.nonce, a.st.nonce, txs, Len(txs)) /\ Paid(st, baseFee, a)
  BY TxsApplied, Zenon
<1>2. a.st \in LedgerState /\ a.gas \in Nat /\ a.tip \in Nat
  <2> HIDE DEF a
  <2> QED BY <1>1 DEF Result
<1>3. coinbase \in Address
  BY Addresses
<1>4. total(st) \in Nat /\ total(a.st) \in Nat /\ Word \in Nat /\ BlockReward \in Nat /\ GasLimit \in Nat
  BY <1>2, StateFields, Constants
<1> r = rewarded(a, coinbase)
  BY <1>1 DEF applyBlock
<1>5. CASE a.err # "nil"
  <2>1. r = a
    BY <1>5 DEF rewarded
  <2> HIDE DEF r, a
  <2> QED BY <1>1, <1>5, <2>1
<1>6. CASE a.err = "nil" /\ a.gas > GasLimit
  <2>1. r = Failed(a.st, "ErrBlockGasLimitExceeded")
    BY <1>6 DEF rewarded
  <2>2. r \in Result /\ r.err # "nil"
    <3> HIDE DEF r, a
    <3>1. "ErrBlockGasLimitExceeded" \in Errors
      BY DEF Errors
    <3>2. r \in Result
      BY <1>2, <2>1, <3>1, ResultOf
    <3> QED BY <2>1, <3>2 DEF Failed
  <2> HIDE DEF r
  <2> QED BY <2>2
<1>7. CASE a.err = "nil" /\ ~(a.gas > GasLimit)
  <2>1. r = [err |-> "nil", st |-> next, gas |-> a.gas, tip |-> a.tip]
    BY <1>7 DEF rewarded, Applied
  <2> HIDE DEF a
  <2>2. amount \in Nat
    BY <1>2, <1>4
  <2>3. /\ next \in LedgerState /\ next.nonce = a.st.nonce
        /\ total(a.st) + amount < Word => total(next) = total(a.st) + amount
    <3> HIDE DEF amount
    <3> QED BY <1>2, <1>3, <2>2, Credited, Zenon
  <2> HIDE DEF next, r
  <2>4. r \in Result
    BY <1>2, <2>1, <2>3 DEF Result, Errors
  <2>5. r.gas = a.gas /\ r.st = next /\ r.gas <= GasLimit
    BY <1>2, <1>4, <1>7, <2>1
  <2>6. ASSUME total(st) + BlockReward < Word
        PROVE  r.gas * baseFee <= total(st) /\ total(next) = total(st) + BlockReward - r.gas * baseFee
    <3>1. total(st) < Word
      BY <1>4, <2>6
    <3>2. total(a.st) + a.tip + a.gas * baseFee = total(st)
      BY <1>1, <1>7, <3>1 DEF Paid
    <3>3. total(a.st) + a.tip <= total(st) /\ a.gas * baseFee <= total(st) /\ a.gas * baseFee \in Nat
      BY <1>2, <1>4, <3>2, PaidLess, Zenon
    <3> DEFINE cost == a.gas * baseFee
    <3>4. cost \in Nat /\ cost <= total(st) /\ total(a.st) + a.tip + cost = total(st)
      BY <3>2, <3>3
    <3> HIDE DEF cost
    <3>5. total(a.st) + amount = total(st) + BlockReward - cost
      BY <1>2, <1>4, <3>4
    <3>6. total(next) = total(a.st) + amount
      <4>1. total(a.st) + amount < Word
        BY <1>4, <2>6, <3>4, <3>5
      <4> QED BY <2>3, <4>1
    <3> QED BY <2>5, <3>4, <3>5, <3>6 DEF cost
  <2>7. OrderedTo(st.nonce, r.st.nonce, txs, Len(txs))
    BY <1>1, <1>7, <2>3, <2>5
  <2> QED BY <2>4, <2>5, <2>6, <2>7
<1> QED BY <1>5, <1>6, <1>7, Zenon

-----------------------------------------------------------------------------
(* A block on its parent: what AddBlock has derived again holds.           *)
Follows(p, b) ==
    /\ b.gasUsed <= GasLimit /\ b.baseFee = ComputeBaseFee(p.baseFee, p.gasUsed)
    /\ OrderedTo(p.st.nonce, b.st.nonce, b.txs, Len(b.txs))
    /\ total(p.st) + BlockReward < Word =>
          /\ b.gasUsed * b.baseFee <= total(p.st)
          /\ total(b.st) = total(p.st) + BlockReward - b.gasUsed * b.baseFee

(* A branch: a genesis with this base fee, and blocks each of which        *)
(* follows the one before.                                                 *)
Branch(fee, br) ==
    /\ br \in Seq(Block) /\ Len(br) > 0
    /\ br[1].txs = <<>> /\ \A u \in Users : br[1].st.nonce[u] = 0
    /\ br[1].baseFee = fee /\ br[1].gasUsed = 0
    /\ \A i \in 1..(Len(br) - 1) : Follows(br[i], br[i + 1])

Adding == [err : Errors, branch : Seq(Block)]

(* ComputeBaseFee is a natural number, whether or not its arithmetic       *)
(* wraps.                                                                  *)
LEMMA FeeType ==
    ASSUME NEW fee \in Nat, NEW used \in Nat
    PROVE  ComputeBaseFee(fee, used) \in Nat
<1>1. GasTarget \in Nat /\ Word \in Nat \ {0}
  BY TargetType
<1>2. ASSUME NEW distance \in Nat, GasTarget # 0 PROVE feeDelta(fee, distance) \in Nat
  <2>1. fee * distance \in Nat
    OBVIOUS
  <2> DEFINE w == Wrap(fee * distance)
  <2>2. w \in Nat
    BY <2>1, WrapNat
  <2> HIDE DEF w
  <2>3. w \div GasTarget \in Nat
    BY <1>1, <1>2, <2>2, DivBounds
  <2> DEFINE q == w \div GasTarget
  <2> HIDE DEF q
  <2>4. q \div 8 \in Nat
    BY <2>3, DivBounds DEF q
  <2> QED BY <2>4 DEF feeDelta, BaseFeeMaxChangeDenominator, q, w
<1>3. CASE GasTarget = 0 \/ fee = 0 \/ used = GasTarget
  BY <1>3 DEF ComputeBaseFee
<1>4. CASE ~(GasTarget = 0 \/ fee = 0 \/ used = GasTarget) /\ used > GasTarget
  <2> DEFINE delta == feeDelta(fee, used - GasTarget)
             sum == fee + (IF delta < 1 THEN 1 ELSE delta)
  <2>1. used - GasTarget \in Nat
    BY <1>1, <1>4
  <2>2. delta \in Nat
    BY <1>2, <1>4, <2>1
  <2>3. ComputeBaseFee(fee, used) = Wrap(sum)
    BY <1>4 DEF ComputeBaseFee
  <2> HIDE DEF delta
  <2>4. sum \in Nat
    BY <2>2
  <2> HIDE DEF sum
  <2> QED BY <2>3, <2>4, WrapNat
<1>5. CASE ~(GasTarget = 0 \/ fee = 0 \/ used = GasTarget) /\ ~(used > GasTarget)
  <2> DEFINE delta == feeDelta(fee, GasTarget - used)
  <2>1. GasTarget - used \in Nat
    BY <1>1, <1>5
  <2>2. delta \in Nat
    BY <1>2, <1>5, <2>1
  <2>3. ComputeBaseFee(fee, used) = fee - (IF delta >= fee THEN fee - 1 ELSE delta)
    BY <1>5 DEF ComputeBaseFee
  <2> HIDE DEF delta
  <2> QED BY <1>5, <2>2, <2>3
<1> QED BY <1>3, <1>4, <1>5

(* The fields of a block.                                                  *)
LEMMA BlockFields ==
    ASSUME NEW b \in Block
    PROVE  /\ b.txs \in Seq(Txs) /\ b.st \in LedgerState
           /\ b.baseFee \in Nat /\ b.gasUsed \in Nat
BY DEF Block

(* What executing a body on a parent makes of it follows the parent.       *)
LEMMA BlockExecuted ==
    ASSUME NEW p \in Block, NEW txs \in Seq(Txs), NEW coinbase \in Users
    PROVE  LET r == execute(p, txs, coinbase) IN
           /\ r.err \in Errors /\ r.block \in Block
           /\ r.err = "nil" => Follows(p, r.block)
<1> DEFINE fee == ComputeBaseFee(p.baseFee, p.gasUsed)
           a   == applyBlock(p.st, txs, coinbase, fee)
           b   == [txs |-> txs, st |-> a.st, baseFee |-> fee, gasUsed |-> a.gas]
<1>1. execute(p, txs, coinbase).err = a.err /\ execute(p, txs, coinbase).block = b
  BY DEF execute
<1>2. fee \in Nat /\ p.st \in LedgerState
  BY BlockFields, FeeType, Zenon
<1> HIDE DEF fee
<1>3. /\ a \in Result
      /\ a.err = "nil" =>
           /\ a.gas <= GasLimit
           /\ OrderedTo(p.st.nonce, a.st.nonce, txs, Len(txs))
           /\ total(p.st) + BlockReward < Word =>
                 /\ a.gas * fee <= total(p.st)
                 /\ total(a.st) = total(p.st) + BlockReward - a.gas * fee
  BY <1>2, BlockApplied, Zenon
<1> HIDE DEF a
<1>4. a.err \in Errors /\ a.st \in LedgerState /\ a.gas \in Nat
  BY <1>3 DEF Result
<1>5. b \in Block
  BY <1>2, <1>4, Zenon DEF Block
<1>6. b.txs = txs /\ b.st = a.st /\ b.baseFee = fee /\ b.gasUsed = a.gas
  OBVIOUS
<1> HIDE DEF b
<1>7. a.err = "nil" => Follows(p, b)
  BY <1>3, <1>6, Zenon DEF Follows, fee
<1> QED BY <1>1, <1>4, <1>5, <1>7

(* What AddBlock adds to a branch leaves it a branch.                      *)
LEMMA BranchGrows ==
    ASSUME NEW f, NEW br, Branch(f, br), NEW txs \in Seq(Txs), NEW coinbase \in Users
    PROVE  LET r == AddBlock(br, txs, coinbase) IN
           r \in Adding /\ (r.err = "nil" => Branch(f, r.branch))
<1> DEFINE p == headOf(br)
           x == execute(p, txs, coinbase)
           b == x.block
           new == Append(br, b)
<1>1. /\ AddBlock(br, txs, coinbase) = [err |-> x.err, branch |-> new]
  BY DEF AddBlock
<1>2. br \in Seq(Block) /\ Len(br) \in Nat /\ Len(br) > 0
  BY DEF Branch
<1>3. p \in Block /\ p = br[Len(br)]
  BY <1>2 DEF headOf
<1> HIDE DEF p
<1>4. x.err \in Errors /\ b \in Block /\ (x.err = "nil" => Follows(p, b))
  BY <1>3, BlockExecuted, Zenon
<1> HIDE DEF x, b
<1>5. /\ new \in Seq(Block) /\ Len(new) = Len(br) + 1 /\ new[Len(br) + 1] = b
      /\ \A i \in 1..Len(br) : new[i] = br[i]
  BY <1>2, <1>4
<1> HIDE DEF new
<1>6. ASSUME Follows(p, b) PROVE Branch(f, new)
  <2>1. new[1] = br[1]
    BY <1>2, <1>5
  <2>2. ASSUME NEW i \in 1..(Len(new) - 1) PROVE Follows(new[i], new[i + 1])
    <3>1. CASE i = Len(br)
      BY <1>2, <1>3, <1>5, <1>6, <3>1
    <3>2. CASE i # Len(br)
      <4>1. i \in 1..(Len(br) - 1) /\ i \in 1..Len(br) /\ i + 1 \in 1..Len(br)
        BY <1>2, <1>5, <3>2
      <4> QED BY <1>5, <4>1 DEF Branch
    <3> QED BY <3>1, <3>2
  <2> QED BY <1>2, <1>5, <2>1, <2>2 DEF Branch
<1>7. [err |-> x.err, branch |-> new] \in Adding
  BY <1>4, <1>5 DEF Adding
<1> QED BY <1>1, <1>4, <1>6, <1>7

(* What a reorganisation keeps of a branch is one.                         *)
LEMMA BranchPrefix ==
    ASSUME NEW f, NEW br, Branch(f, br), NEW n \in 1..Len(br)
    PROVE  Branch(f, SubSeq(br, 1, n))
<1> DEFINE s == SubSeq(br, 1, n)
<1>1. br \in Seq(Block) /\ Len(br) \in Nat
  BY DEF Branch
<1>2. s \in Seq(Block) /\ Len(s) = n /\ \A i \in 1..n : s[i] = br[i]
  BY <1>1
<1> HIDE DEF s
<1>3. ASSUME NEW i \in 1..(n - 1) PROVE Follows(s[i], s[i + 1])
  <2>1. i \in 1..(Len(br) - 1) /\ i \in 1..n /\ i + 1 \in 1..n
    BY <1>1
  <2> QED BY <1>2, <2>1 DEF Branch
<1> QED BY <1>2, <1>3 DEF Branch, s

-----------------------------------------------------------------------------
(* What BuildBlockTxs returns are transactions of the pool.                *)

(* The first in the address order of some users is one of them.            *)
LEMMA Ordered ==
    ASSUME NEW S \in SUBSET Users, S # {}
    PROVE  AddressOrder[Min({k \in 1..Len(AddressOrder) : AddressOrder[k] \in S})] \in S
<1> DEFINE K == {k \in 1..Len(AddressOrder) : AddressOrder[k] \in S}
<1>1. AddressOrder \in Seq(Users) /\ Range(AddressOrder) = Users
  BY OrderAssumption
<1>2. K \in SUBSET Nat
  BY <1>1
<1>3. K # {}
  <2>1. PICK u \in S : TRUE
    OBVIOUS
  <2>2. u \in Range(AddressOrder)
    BY <1>1
  <2>3. \E k \in 1..Len(AddressOrder) : AddressOrder[k] = u
    BY <1>1, <2>2 DEF Range
  <2> QED BY <2>3
<1>4. Min(K) \in K
  <2> HIDE DEF K
  <2> QED BY <1>2, <1>3, MinOf
<1> QED BY <1>4

(* A queue with one more transaction is a queue.                           *)
LEMMA Enqueued ==
    ASSUME NEW queue \in Seq(Txs), NEW tx \in Txs
    PROVE  enqueue(queue, tx) \in Seq(Txs)
<1> DEFINE n == Len(queue)
           K == {i \in 1..n : queue[i].nonce > tx.nonce} \cup {n + 1}
           k == Min(K) - 1
<1>1. n \in Nat
  OBVIOUS
<1>2. k \in 0..n
  <2>1. K \in SUBSET (1..(n + 1)) /\ K # {}
    BY <1>1
  <2> HIDE DEF K
  <2>2. K \in SUBSET Nat
    BY <2>1
  <2>3. Min(K) \in 1..(n + 1)
    BY <2>1, <2>2, MinOf
  <2> QED BY <1>1, <2>3
<1> HIDE DEF K, k
<1>3. SubSeq(queue, 1, k) \in Seq(Txs) /\ SubSeq(queue, k + 1, n) \in Seq(Txs)
  BY <1>2
<1>4. <<tx>> \in Seq(Txs)
  OBVIOUS
<1>5. enqueue(queue, tx) = SubSeq(queue, 1, k) \o <<tx>> \o SubSeq(queue, k + 1, n)
  BY DEF enqueue, k, K
<1> QED BY <1>3, <1>4, <1>5

(* bySender makes a queue for every user.                                  *)
LEMMA Queued ==
    ASSUME NEW pool \in Seq(Txs)
    PROVE  bySender(pool) \in [Users -> Seq(Txs)]
<1> DEFINE Q == [Users -> Seq(Txs)]
           step(n) == [queues \in Q |-> [queues EXCEPT ![pool[n].from] = enqueue(@, pool[n])]]
           steps == [n \in 1..Len(pool) |-> step(n)]
           none == [u \in Users |-> <<>>]
<1>1. none \in Q
  OBVIOUS
<1>2. Len(steps) = Len(pool) /\ Len(pool) \in Nat
  OBVIOUS
<1>3. ASSUME NEW n \in 1..Len(pool), NEW y \in Q PROVE steps[n][y] \in Q
  <2>1. pool[n] \in Txs /\ pool[n] \in Tx
    BY TxAssumption
  <2>2. pool[n].from \in Users
    BY <2>1, TxFields
  <2>3. enqueue(y[pool[n].from], pool[n]) \in Seq(Txs)
    BY <2>1, <2>2, Enqueued
  <2>4. steps[n][y] = [y EXCEPT ![pool[n].from] = enqueue(y[pool[n].from], pool[n])]
    OBVIOUS
  <2> QED BY <2>2, <2>3, <2>4
<1>4. bySender(pool) = loop(none, steps)
  BY DEF bySender
<1> HIDE DEF Q, steps, none
<1>5. loop(none, steps) \in Q
  BY <1>1, <1>2, <1>3, LoopIn
<1> QED BY <1>4, <1>5 DEF Q

(* The fields of a selection.                                              *)
LEMMA SelectionFields ==
    ASSUME NEW s \in Selection
    PROVE  /\ s.queue \in [Users -> Seq(Txs)] /\ s.included \in Seq(Txs) /\ s.budget \in Nat
           /\ s = [queue |-> s.queue, included |-> s.included, budget |-> s.budget]
BY DEF Selection

(* A selection from its fields.                                            *)
LEMMA SelectionOf ==
    ASSUME NEW q \in [Users -> Seq(Txs)], NEW i \in Seq(Txs), NEW b \in Nat
    PROVE  [queue |-> q, included |-> i, budget |-> b] \in Selection
BY DEF Selection

(* The first half of an iteration of BuildBlockTxs, for all senders.       *)
LEMMA Drained ==
    ASSUME NEW st, NEW s \in Selection
    PROVE  drain(st, s) \in Selection
<1> DEFINE steps == [k \in 1..Len(AddressOrder) |->
                        [d \in Selection |-> drainSender(st, d, AddressOrder[k])]]
<1>1. ASSUME NEW d \in Selection, NEW u \in Users PROVE drainSender(st, d, u) \in Selection
  <2> DEFINE queue == d.queue[u]
             S == {i \in 1..Len(queue) : isFeePriced(st, queue[i])} \cup {Len(queue) + 1}
             free == freePass(st, queue)
  <2>1. /\ d.queue \in [Users -> Seq(Txs)] /\ d.included \in Seq(Txs) /\ d.budget \in Nat
        /\ d = [queue |-> d.queue, included |-> d.included, budget |-> d.budget]
    BY SelectionFields
  <2>2. queue \in Seq(Txs) /\ Len(queue) \in Nat
    BY <2>1
  <2> HIDE DEF queue
  <2>3. S \in SUBSET Nat /\ S # {} /\ S \subseteq 1..(Len(queue) + 1)
    BY <2>2
  <2>4. free = Min(S) - 1
    BY DEF freePass
  <2> HIDE DEF S, free
  <2>5. Min(S) \in S
    BY <2>3, MinOf
  <2>6. free \in 0..Len(queue)
    <3>1. Min(S) \in 1..(Len(queue) + 1)
      BY <2>3, <2>5, Zenon
    <3> QED BY <2>2, <2>4, <3>1
  <2>7. SubSeq(queue, 1, free) \in Seq(Txs) /\ SubSeq(queue, free + 1, Len(queue)) \in Seq(Txs)
    BY <2>2, <2>6
  <2> DEFINE i == d.included \o SubSeq(queue, 1, free)
             q == [d.queue EXCEPT ![u] = SubSeq(queue, free + 1, Len(queue))]
  <2>8. i \in Seq(Txs) /\ q \in [Users -> Seq(Txs)]
    BY <2>1, <2>7
  <2>9. drainSender(st, d, u) = [d EXCEPT !.included = i, !.queue = q]
    BY <2>1, Zenon DEF drainSender, free, queue
  <2> HIDE DEF i, q
  <2>10. drainSender(st, d, u) = [queue |-> q, included |-> i, budget |-> d.budget]
    BY <2>1, <2>9, Zenon
  <2> QED BY <2>1, <2>8, <2>10, SelectionOf
<1>2. AddressOrder \in Seq(Users)
  BY OrderAssumption
<1>3. Len(steps) = Len(AddressOrder) /\ Len(AddressOrder) \in Nat
  BY <1>2
<1>4. ASSUME NEW k \in 1..Len(AddressOrder), NEW d \in Selection PROVE steps[k][d] \in Selection
  <2>1. AddressOrder[k] \in Users
    BY <1>2
  <2>2. steps[k][d] = drainSender(st, d, AddressOrder[k])
    OBVIOUS
  <2> QED BY <1>1, <2>1, <2>2
<1>5. drain(st, s) = loop(s, steps)
  BY DEF drain
<1> HIDE DEF steps
<1> QED BY <1>3, <1>4, <1>5, LoopIn

(* The tip of a fee cap that covers the base fee.                          *)
LEMMA TipType ==
    ASSUME NEW fee \in Nat, NEW c \in 0..(Word - 1), NEW t \in 0..(Word - 1), c >= fee
    PROVE  priorityFee(fee, c, t) \in 0..Word
BY Constants DEF priorityFee

(* The second half: there is a front with the highest tip, and taking it   *)
(* leaves queues.                                                          *)
LEMMA Selected ==
    ASSUME NEW st, NEW s \in Selection, NEW fee \in Nat
    PROVE  select(st, s, fee) \in Selection
<1> DEFINE front(u)   == s.queue[u][1]
           active     == {u \in Users : s.queue[u] # <<>>}
           tip(u)     == priorityFee(fee, front(u).feeCap, front(u).tipCap)
           candidates == {u \in active : front(u).feeCap >= fee}
           best       == {u \in candidates : \A v \in candidates : tip(u) >= tip(v)}
           winner     == AddressOrder[Min({k \in 1..Len(AddressOrder) : AddressOrder[k] \in best})]
           dropped(out) == [u \in Users |-> IF u \in out THEN <<>> ELSE s.queue[u]]
           budget     == Wrap(s.budget + front(winner).gasLimit)
           left       == [dropped(active \ candidates) EXCEPT ![winner] = Tail(@)]
<1>1. /\ s.queue \in [Users -> Seq(Txs)] /\ s.included \in Seq(Txs) /\ s.budget \in Nat
      /\ s = [queue |-> s.queue, included |-> s.included, budget |-> s.budget]
  BY SelectionFields
<1>2. ASSUME NEW out PROVE dropped(out) \in [Users -> Seq(Txs)]
  BY <1>1
<1>3. ASSUME NEW u \in active PROVE front(u) \in Txs /\ front(u) \in Tx
  <2>1. s.queue[u] \in Seq(Txs) /\ s.queue[u] # <<>>
    BY <1>1
  <2>2. front(u) \in Txs
    BY <2>1
  <2> QED BY <2>2, TxAssumption
<1>4. ASSUME candidates # {} PROVE winner \in candidates
  <2> DEFINE tips == [u \in candidates |-> tip(u)]
  <2>1. ASSUME NEW u \in candidates PROVE tips[u] \in 0..Word
    <3>1. front(u) \in Tx
      BY <1>3
    <3>2. front(u).feeCap \in 0..(Word - 1) /\ front(u).tipCap \in 0..(Word - 1)
      BY <3>1, Zenon DEF Tx, Uint64
    <3> DEFINE c == front(u).feeCap
               t == front(u).tipCap
    <3>3. c >= fee /\ tips[u] = priorityFee(fee, c, t)
      BY Zenon
    <3> HIDE DEF tips
    <3> QED BY <3>2, <3>3, TipType, Zenon
  <2>2. ASSUME NEW x \in candidates, \A y \in candidates : tips[x] >= tips[y] PROVE x \in best
    BY <2>2, Zenon
  <2>3. best \in SUBSET Users /\ best \subseteq candidates
    BY Zenon
  <2> HIDE DEF tips, candidates, best
  <2>4. \E x \in candidates : \A y \in candidates : tips[x] >= tips[y]
    BY <1>4, <2>1, Constants, BestOf
  <2>5. best # {}
    BY <2>2, <2>4
  <2>6. winner \in best
    BY <2>3, <2>5, Ordered
  <2> QED BY <2>3, <2>6
<1>5. candidates \subseteq active /\ active \subseteq Users
  OBVIOUS
<1>6. select(st, s, fee)
        = IF candidates = {} THEN [s EXCEPT !.queue = dropped(active)]
          ELSE IF budget > GasLimit
          THEN [s EXCEPT !.queue = dropped((active \ candidates) \cup {winner})]
          ELSE [queue |-> left, included |-> Append(s.included, front(winner)), budget |-> budget]
  BY DEF select
<1>7. ASSUME NEW q \in [Users -> Seq(Txs)] PROVE [s EXCEPT !.queue = q] \in Selection
  BY Zenon DEF Selection
<1>8. \A u \in active : s.queue[u] \in Seq(Txs) /\ s.queue[u] # <<>>
  BY <1>1
<1> HIDE DEF candidates, active, best, winner, budget, left, front
<1>9. ASSUME candidates # {}
       PROVE  /\ left \in [Users -> Seq(Txs)] /\ Append(s.included, front(winner)) \in Seq(Txs)
              /\ budget \in Nat
  <2> DEFINE out == active \ candidates
             d == dropped(out)
             g == front(winner).gasLimit
  <2>1. winner \in active /\ winner \in Users /\ winner \notin out
    BY <1>4, <1>5, <1>9
  <2>2. front(winner) \in Txs /\ front(winner) \in Tx
    BY <1>3, <2>1
  <2>3. g \in Nat
    BY <2>2, TxFields, Zenon
  <2>4. d[winner] = s.queue[winner] /\ s.queue[winner] \in Seq(Txs) /\ s.queue[winner] # <<>>
    BY <1>8, <2>1
  <2>5. d \in [Users -> Seq(Txs)]
    BY <1>2, Zenon
  <2>6. left = [d EXCEPT ![winner] = Tail(d[winner])] /\ budget = Wrap(s.budget + g)
    BY DEF left, budget
  <2> HIDE DEF d, g, out
  <2>7. Tail(d[winner]) \in Seq(Txs)
    BY <2>4
  <2>8. left \in [Users -> Seq(Txs)]
    BY <2>1, <2>5, <2>6, <2>7
  <2>9. s.budget + g \in Nat
    BY <1>1, <2>3
  <2>10. budget \in Nat
    BY <2>6, <2>9, WrapNat
  <2>11. Append(s.included, front(winner)) \in Seq(Txs)
    BY <1>1, <2>2
  <2> QED BY <2>8, <2>10, <2>11
<1>10. CASE candidates = {}
  BY <1>2, <1>6, <1>7, <1>10, Zenon
<1>11. CASE candidates # {} /\ budget > GasLimit
  BY <1>2, <1>6, <1>7, <1>11, Zenon
<1>12. CASE candidates # {} /\ ~(budget > GasLimit)
  <2> DEFINE i == Append(s.included, front(winner))
  <2>1. select(st, s, fee) = [queue |-> left, included |-> i, budget |-> budget]
    BY <1>6, <1>12
  <2>2. left \in [Users -> Seq(Txs)] /\ i \in Seq(Txs) /\ budget \in Nat
    BY <1>9, <1>12
  <2> HIDE DEF i
  <2> QED BY <2>1, <2>2, SelectionOf
<1> QED BY <1>10, <1>11, <1>12

(* BuildBlockTxs returns transactions.                                     *)
LEMMA Built ==
    ASSUME NEW st, NEW pool \in Seq(Txs), NEW fee \in Nat
    PROVE  BuildBlockTxs(st, pool, fee) \in Seq(Txs)
<1> DEFINE selected == [s \in Selection |-> select(st, s, fee)]
           steps == [n \in 1..Len(pool) |-> [s \in Selection |-> selected[drain(st, s)]]]
           begin == [queue |-> bySender(pool), included |-> <<>>, budget |-> 0]
<1>1. begin \in Selection
  <2>1. <<>> \in Seq(Txs) /\ 0 \in Nat
    OBVIOUS
  <2> QED BY <2>1, Queued, SelectionOf, Zenon
<1>2. Len(steps) = Len(pool) /\ Len(pool) \in Nat
  OBVIOUS
<1>3. ASSUME NEW n \in 1..Len(pool), NEW s \in Selection PROVE steps[n][s] \in Selection
  <2>1. drain(st, s) \in Selection
    BY Drained
  <2>2. steps[n][s] = select(st, drain(st, s), fee)
    BY <2>1
  <2> QED BY <2>1, <2>2, Selected
<1>4. BuildBlockTxs(st, pool, fee) = loop(begin, steps).included
  BY DEF BuildBlockTxs
<1> HIDE DEF steps, begin
<1>5. loop(begin, steps) \in Selection
  BY <1>1, <1>2, <1>3, LoopIn
<1> QED BY <1>4, <1>5, SelectionFields

-----------------------------------------------------------------------------
(* The inductive invariant of a node: whatever was submitted, mined,       *)
(* accepted or taken back, its branch is one and its pool holds            *)
(* transactions.                                                           *)
NodeInv ==
    /\ workload \in Workload
    /\ Branch(workload.initialBaseFee, chain)
    /\ mempool \in Seq(Txs)

(* commitBlock leaves transactions in the pool.                            *)
LEMMA Kept ==
    ASSUME NEW pool \in Seq(Txs), NEW txs
    PROVE  dropIncluded(pool, txs) \in Seq(Txs)
<1> DEFINE Q == Seq(Txs)
           step(i) == [kept \in Q |-> IF pool[i] \in Range(txs) THEN kept ELSE Append(kept, pool[i])]
           steps == [i \in 1..Len(pool) |-> step(i)]
<1>1. <<>> \in Q
  OBVIOUS
<1>2. Len(steps) = Len(pool) /\ Len(pool) \in Nat
  OBVIOUS
<1>3. ASSUME NEW i \in 1..Len(pool), NEW kept \in Q PROVE steps[i][kept] \in Q
  <2>1. pool[i] \in Txs
    OBVIOUS
  <2>2. Append(kept, pool[i]) \in Q
    BY <2>1
  <2>3. steps[i][kept] = IF pool[i] \in Range(txs) THEN kept ELSE Append(kept, pool[i])
    OBVIOUS
  <2> QED BY <2>2, <2>3
<1>4. dropIncluded(pool, txs) = loop(<<>>, steps)
  BY DEF dropIncluded
<1> HIDE DEF Q, steps
<1>5. loop(<<>>, steps) \in Q
  BY <1>1, <1>2, <1>3, LoopIn
<1> QED BY <1>4, <1>5 DEF Q

(* The genesis state: nobody has signed anything.                          *)
LEMMA GenesisState ==
    fundGenesis(Alloc) \in LedgerState /\ \A u \in Users : fundGenesis(Alloc).nonce[u] = 0
<1> DEFINE balance == [a \in Address |-> IF a \in DOMAIN Alloc THEN Alloc[a] ELSE 0]
           nonce == [a \in Address |-> 0]
           code == [a \in Address |-> "none"]
<1>1. balance \in [Address -> Nat]
  <2>1. ASSUME NEW u \in DOMAIN Alloc PROVE Alloc[u] \in Nat
    BY NodeAssumption, Constants DEF Uint64
  <2> QED BY <2>1
<1>2. nonce \in [Address -> Nat] /\ code \in [Address -> {"none", "stack", "evm"}]
  OBVIOUS
<1>3. fundGenesis(Alloc) = [balance |-> balance, nonce |-> nonce, code |-> code, lost |-> 0]
  BY DEF fundGenesis
<1>4. \A u \in Users : nonce[u] = 0
  BY Addresses
<1> HIDE DEF balance, nonce, code
<1> QED BY <1>1, <1>2, <1>3, <1>4 DEF LedgerState

(* A peer's blocks: what is kept of the branch is one, and so is what they *)
(* make of it.                                                             *)
LEMMA BranchReplaced ==
    ASSUME NEW f, NEW kept, Branch(f, kept), NEW bodies, Len(bodies) \in Nat,
           \A i \in 1..Len(bodies) : bodies[i] \in Seq(Txs)
    PROVE  LET r == addBlocks(kept, bodies) IN r.err = "nil" => Branch(f, r.branch)
<1> DEFINE S == {acc \in Adding : acc.err = "nil" => Branch(f, acc.branch)}
           start == [err |-> "nil", branch |-> kept]
           steps == [i \in 1..Len(bodies) |-> [acc \in Adding |-> addNext(acc, bodies[i])]]
           r == loop(start, steps)
<1>1. start \in S
  <2>1. kept \in Seq(Block) /\ "nil" \in Errors
    BY DEF Branch, Errors
  <2> QED BY <2>1 DEF Adding
<1>2. Len(steps) = Len(bodies)
  OBVIOUS
<1>3. ASSUME NEW i \in 1..Len(bodies), NEW acc \in S PROVE steps[i][acc] \in S
  <2>1. acc \in Adding /\ bodies[i] \in Seq(Txs)
    OBVIOUS
  <2>2. steps[i][acc] = addNext(acc, bodies[i])
    BY <2>1
  <2>3. CASE acc.err # "nil"
    BY <2>2, <2>3, Zenon DEF addNext
  <2>4. CASE acc.err = "nil"
    <3> DEFINE new == AddBlock(acc.branch, bodies[i], Peer)
    <3>1. steps[i][acc] = new
      BY <2>2, <2>4, Zenon DEF addNext
    <3>2. Branch(f, acc.branch) /\ Peer \in Users
      BY <2>4, NodeAssumption
    <3>3. new \in Adding /\ (new.err = "nil" => Branch(f, new.branch))
      BY <2>1, <3>2, BranchGrows, Zenon
    <3> HIDE DEF new
    <3> QED BY <3>1, <3>3, Zenon
  <2> QED BY <2>3, <2>4, Zenon
<1> HIDE DEF S, start, steps
<1>4. r \in S
  BY <1>1, <1>2, <1>3, LoopIn
<1>5. r.err = "nil" => Branch(f, r.branch)
  <2> HIDE DEF r
  <2> QED BY <1>4 DEF S
<1>6. addBlocks(kept, bodies) = r
  BY Zenon DEF addBlocks, r, start, steps, Adding
<1> HIDE DEF r
<1> QED BY <1>5, <1>6

(* A node starts with a branch of one block.                               *)
LEMMA NodeInit_Inv == NodeInit => NodeInv
<1> SUFFICES ASSUME NodeInit PROVE NodeInv
  OBVIOUS
<1> DEFINE f == workload.initialBaseFee
           g == fundGenesis(Alloc)
           b == [txs |-> <<>>, st |-> g, baseFee |-> f, gasUsed |-> 0]
<1>1. workload \in Workload /\ f \in Nat
  BY NodeAssumption DEF NodeInit, Workload
<1>2. chain = <<b>> /\ mempool = <<>>
  BY DEF NodeInit
<1>3. g \in LedgerState /\ \A u \in Users : g.nonce[u] = 0
  BY GenesisState, Zenon
<1> HIDE DEF f, g
<1>4. b \in Block
  BY <1>1, <1>3 DEF Block
<1>5. b.txs = <<>> /\ b.st = g /\ b.baseFee = f /\ b.gasUsed = 0
  OBVIOUS
<1> HIDE DEF b
<1>6. Len(chain) = 1 /\ chain[1] = b /\ chain \in Seq(Block)
  BY <1>2, <1>4
<1>7. Branch(f, chain)
  BY <1>3, <1>5, <1>6 DEF Branch
<1> QED BY <1>1, <1>2, <1>7 DEF NodeInv, f

(* SubmitTx leaves the branch alone.                                       *)
LEMMA SubmitTx_Inv ==
    ASSUME NodeInv, NEW tx \in workload.txs, SubmitTx(tx)
    PROVE  NodeInv'
<1>1. tx \in Txs
  BY DEF NodeInv, Workload
<1>2. mempool' = Append(mempool, tx) /\ workload' = workload /\ chain' = chain
  BY DEF SubmitTx
<1>3. mempool' \in Seq(Txs)
  BY <1>1, <1>2 DEF NodeInv
<1> QED BY <1>2, <1>3 DEF NodeInv

(* MineBlock adds a block that follows the head.                           *)
LEMMA MineBlock_Inv ==
    ASSUME NodeInv, MineBlock
    PROVE  NodeInv'
<1> DEFINE f == workload.initialBaseFee
           p == headOf(chain)
           fee == ComputeBaseFee(p.baseFee, p.gasUsed)
           txs == buildCandidate
           block == AddBlock(chain, txs, Miner)
<1>1. block.err = "nil" /\ commitBlock(block, txs)
  BY Zenon DEF MineBlock
<1>2. mempool \in Seq(Txs) /\ Branch(f, chain) /\ Miner \in Users
  BY NodeAssumption DEF NodeInv
<1>3. chain \in Seq(Block) /\ Len(chain) \in Nat /\ Len(chain) > 0
  BY <1>2 DEF Branch
<1>4. p \in Block
  BY <1>3 DEF headOf
<1>5. fee \in Nat
  BY <1>4, BlockFields, FeeType, Zenon
<1>6. txs = BuildBlockTxs(state, mempool, fee)
  BY DEF buildCandidate, NextBaseFee
<1> HIDE DEF p, fee, txs
<1>7. txs \in Seq(Txs)
  BY <1>2, <1>5, <1>6, Built, Zenon
<1>8. block.err = "nil" => Branch(f, block.branch)
  BY <1>2, <1>7, BranchGrows, Zenon
<1> HIDE DEF block
<1>9. chain' = block.branch /\ workload' = workload /\ mempool' = dropIncluded(mempool, txs)
  BY <1>1 DEF commitBlock
<1>10. mempool' \in Seq(Txs)
  BY <1>2, <1>9, Kept
<1> QED BY <1>1, <1>8, <1>9, <1>10 DEF NodeInv

(* A block of a peer leaves a branch, whatever it takes back and however   *)
(* often.                                                                  *)
LEMMA External_Inv ==
    ASSUME NodeInv, External
    PROVE  NodeInv'
<1> DEFINE f == workload.initialBaseFee
           Bodies == UNION {[1..n -> workload.txs] : n \in 0..workload.maxBody}
<1>1. PICK drop \in 0..workload.maxReorg :
         /\ drop < Len(chain)
         /\ \E bodies \in [1..(drop + 1) -> Bodies] : AcceptExternalBlock(drop, bodies)
  BY Zenon DEF External
<1>2. PICK bodies \in [1..(drop + 1) -> Bodies] : AcceptExternalBlock(drop, bodies)
  BY <1>1
<1>3. /\ Branch(f, chain) /\ workload.maxReorg \in Nat /\ workload.maxBody \in Nat
      /\ workload.txs \subseteq Txs
  BY DEF NodeInv, Workload
<1>4. chain \in Seq(Block) /\ Len(chain) \in Nat /\ drop \in Nat
  BY <1>3 DEF Branch
<1>5. \A i \in 1..(drop + 1) : bodies[i] \in Seq(Txs)
  <2>1. ASSUME NEW b \in Bodies PROVE b \in Seq(Txs)
    <3>1. PICK n \in 0..workload.maxBody : b \in [1..n -> workload.txs]
      OBVIOUS
    <3>2. n \in Nat /\ b \in [1..n -> Txs]
      BY <1>3, <3>1
    <3> QED BY <3>2
  <2> HIDE DEF Bodies
  <2> QED BY <2>1
<1>6. Len(bodies) = drop + 1
  <2> HIDE DEF Bodies
  <2> QED BY <1>4
<1> DEFINE kept == SubSeq(chain, 1, Len(chain) - drop)
           r == addBlocks(kept, bodies)
<1>7. r.err = "nil" /\ chain' = r.branch /\ UNCHANGED <<workload, mempool>>
  BY <1>2, Zenon DEF AcceptExternalBlock
<1>8. Branch(f, kept)
  <2>1. Len(chain) - drop \in 1..Len(chain)
    BY <1>1, <1>4
  <2> QED BY <1>3, <2>1, BranchPrefix
<1> HIDE DEF kept
<1>9. Len(bodies) \in Nat /\ \A i \in 1..Len(bodies) : bodies[i] \in Seq(Txs)
  BY <1>4, <1>5, <1>6
<1>10. r.err = "nil" => Branch(f, r.branch)
  BY <1>8, <1>9, BranchReplaced, Zenon
<1> HIDE DEF r
<1> QED BY <1>7, <1>10 DEF NodeInv

(* A node's branch always is one, each block executed on its parent.       *)
THEOREM NodeInvariance == NodeSpec => []NodeInv
<1>1. NodeInv /\ [NodeNext]_nodeVars => NodeInv'
  <2> SUFFICES ASSUME NodeInv, [NodeNext]_nodeVars PROVE NodeInv'
    OBVIOUS
  <2>1. ASSUME NEW tx \in workload.txs, SubmitTx(tx) PROVE NodeInv'
    BY <2>1, SubmitTx_Inv
  <2>2. CASE MineBlock
    BY <2>2, MineBlock_Inv
  <2>3. CASE External
    BY <2>3, External_Inv
  <2>4. CASE UNCHANGED nodeVars
    BY <2>4 DEF NodeInv, nodeVars
  <2> QED BY <2>1, <2>2, <2>3, <2>4 DEF NodeNext
<1> QED BY NodeInit_Inv, <1>1, PTL DEF NodeSpec

-----------------------------------------------------------------------------
(* The nonces of an account never go down along a branch.                  *)
LEMMA NoncesGrow ==
    ASSUME NEW f, NEW br, Branch(f, br), NEW u \in Users
    PROVE  /\ \A i \in 1..Len(br) : br[i].st.nonce[u] \in Nat
           /\ \A i, j \in 1..Len(br) : i <= j => br[i].st.nonce[u] <= br[j].st.nonce[u]
<1>1. br \in Seq(Block) /\ Len(br) \in Nat
  BY DEF Branch
<1> DEFINE nonce(i) == br[i].st.nonce[u]
<1>2. ASSUME NEW i \in 1..Len(br) PROVE nonce(i) \in Nat
  <2>1. br[i] \in Block
    BY <1>1
  <2>2. br[i].st \in LedgerState
    BY <2>1, BlockFields, Zenon
  <2>3. br[i].st.nonce \in [Address -> Nat] /\ u \in Address
    BY <2>2, StateFields, Addresses, Zenon
  <2> QED BY <2>3
<1>3. ASSUME NEW i \in 1..(Len(br) - 1) PROVE nonce(i) <= nonce(i + 1)
  BY Zenon DEF Branch, Follows, OrderedTo
<1> HIDE DEF nonce
<1> DEFINE P == {d \in Nat : \A i \in 1..Len(br) : i + d <= Len(br) => nonce(i) <= nonce(i + d)}
<1>4. 0 \in P
  BY <1>1, <1>2
<1>5. ASSUME NEW d \in Nat, d \in P PROVE d + 1 \in P
  <2>1. SUFFICES ASSUME NEW i \in 1..Len(br), i + (d + 1) <= Len(br)
                 PROVE  nonce(i) <= nonce(i + (d + 1))
    OBVIOUS
  <2> DEFINE k == i + d
  <2>2. k \in 1..(Len(br) - 1) /\ k \in 1..Len(br) /\ k + 1 \in 1..Len(br) /\ i + (d + 1) = k + 1
    BY <1>1, <2>1
  <2>3. nonce(i) <= nonce(k)
    BY <1>1, <1>5, <2>1
  <2> HIDE DEF k
  <2>4. nonce(k) <= nonce(k + 1)
    BY <1>3, <2>2
  <2> QED BY <1>2, <2>2, <2>3, <2>4
<1>6. \A d \in Nat : d \in P => d + 1 \in P
  BY <1>5, Zenon
<1> HIDE DEF P
<1>7. \A d \in Nat : d \in P
  BY <1>4, <1>6, SetInduction
<1>8. ASSUME NEW i \in 1..Len(br), NEW j \in 1..Len(br), i <= j PROVE nonce(i) <= nonce(j)
  <2>1. j - i \in Nat /\ i + (j - i) = j /\ j <= Len(br)
    BY <1>1, <1>8
  <2>2. j - i \in P
    BY <1>7, <2>1
  <2> QED BY <2>1, <2>2 DEF P
<1> QED BY <1>2, <1>8 DEF nonce

(* A transaction of u with nonce n is at index j of block i of a branch.   *)
At(br, i, j, u, n) ==
    /\ i \in 1..Len(br) /\ j \in 1..Len(br[i].txs)
    /\ br[i].txs[j].from = u /\ br[i].txs[j].nonce = n

(* Where a transaction of a branch is, its nonce is between the nonces of  *)
(* its sender before the block and after it.                               *)
LEMMA Between ==
    ASSUME NEW f, NEW br, Branch(f, br), NEW i, NEW j, NEW u, NEW n, At(br, i, j, u, n)
    PROVE  /\ i \in 1..Len(br) /\ i - 1 \in 1..(Len(br) - 1) /\ j \in Int
           /\ u \in Users /\ n \in Nat /\ Follows(br[i - 1], br[i])
           /\ br[i - 1].st.nonce[u] <= n /\ n < br[i].st.nonce[u]
<1>1. br \in Seq(Block) /\ Len(br) \in Nat /\ br[1].txs = <<>>
  BY DEF Branch
<1>2. i \in 1..Len(br) /\ j \in 1..Len(br[i].txs)
  BY DEF At
<1>3. br[i].txs \in Seq(Txs)
  <2>1. br[i] \in Block
    BY <1>1, <1>2
  <2> QED BY <2>1, BlockFields, Zenon
<1>4. br[i].txs[j] \in Tx /\ j \in Int
  BY <1>2, <1>3, TxAssumption
<1>5. u \in Users /\ n \in 0..MaxNonce
  BY <1>4, TxFields, Zenon DEF At
<1>6. i # 1
  BY <1>1, <1>2
<1> DEFINE k == i - 1
<1>7. k \in 1..(Len(br) - 1) /\ k + 1 = i
  BY <1>1, <1>2, <1>6
<1> HIDE DEF k
<1>8. Follows(br[k], br[i])
  BY <1>7, Zenon DEF Branch
<1>9. br[k].st.nonce[u] <= n /\ n < br[i].st.nonce[u]
  BY <1>2, <1>8, Zenon DEF Follows, OrderedTo, At
<1>10. n \in Nat
  BY <1>5, Constants
<1> QED BY <1>2, <1>4, <1>5, <1>7, <1>8, <1>9, <1>10, Zenon DEF k

(* Two transactions of one sender are never at the same nonce.             *)
LEMMA OncePerNonce ==
    ASSUME NEW f, NEW br, Branch(f, br), NEW u, NEW n,
           NEW i, NEW a, At(br, i, a, u, n), NEW k, NEW b, At(br, k, b, u, n)
    PROVE  ~(i < k) /\ (i = k => ~(a < b))
<1> DEFINE h == i - 1
           l == k - 1
<1>1. /\ u \in Users /\ n \in Nat /\ i \in 1..Len(br) /\ n < br[i].st.nonce[u]
      /\ h \in 1..(Len(br) - 1) /\ Follows(br[h], br[i])
  BY Between, Zenon
<1>2. k \in 1..Len(br) /\ l \in 1..(Len(br) - 1) /\ br[l].st.nonce[u] <= n
  BY Between, Zenon
<1>3. Len(br) \in Nat
  BY DEF Branch
<1>4. ASSUME i < k PROVE FALSE
  <2>1. l \in 1..Len(br) /\ i <= l
    BY <1>1, <1>2, <1>3, <1>4
  <2> HIDE DEF l
  <2> DEFINE x == br[i].st.nonce[u]
             y == br[l].st.nonce[u]
  <2>2. x \in Nat /\ y \in Nat /\ x <= y
    BY <1>1, <2>1, NoncesGrow, Zenon
  <2>3. n < x /\ y <= n
    BY <1>1, <1>2
  <2> HIDE DEF x, y
  <2> QED BY <1>1, <2>2, <2>3
<1> HIDE DEF h, l
<1>5. ASSUME i = k, a < b PROVE FALSE
  <2> DEFINE txs == br[i].txs
  <2>1. \A j, m \in 1..Len(txs) : j < m /\ txs[j].from = txs[m].from => txs[j].nonce < txs[m].nonce
    BY <1>1, Zenon DEF Follows, OrderedTo
  <2>2. /\ a \in 1..Len(txs) /\ txs[a].from = u /\ txs[a].nonce = n
        /\ b \in 1..Len(txs) /\ txs[b].from = u /\ txs[b].nonce = n
    BY <1>5, Zenon DEF At
  <2> HIDE DEF txs
  <2>3. txs[a].nonce < txs[b].nonce
    BY <1>5, <2>1, <2>2, Zenon
  <2>4. n < n
    BY <2>2, <2>3, Zenon
  <2> QED BY <1>1, <2>4
<1> QED BY <1>4, <1>5

(* An account's transactions have every nonce below that of the account.   *)
LEMMA EveryNonce ==
    ASSUME NEW f, NEW br, Branch(f, br), NEW u \in Users, NEW n \in Nat,
           n < br[Len(br)].st.nonce[u]
    PROVE  \E i, j : At(br, i, j, u, n)
<1> DEFINE S == {i \in 1..Len(br) : n < br[i].st.nonce[u]}
           m == Min(S)
<1>1. Len(br) \in Nat /\ Len(br) > 0 /\ br[1].st.nonce[u] = 0
  BY DEF Branch
<1>2. \A i \in 1..Len(br) : br[i].st.nonce[u] \in Nat
  BY NoncesGrow, Zenon
<1>3. Len(br) \in S
  BY <1>1
<1>4. S \in SUBSET Nat /\ S # {}
  BY <1>1, <1>3
<1>5. m \in S /\ \A y \in S : m <= y
  <2> HIDE DEF S
  <2> QED BY <1>4, MinOf
<1>6. m \in 1..Len(br) /\ m # 1 /\ n < br[m].st.nonce[u]
  <2> HIDE DEF m
  <2> QED BY <1>1, <1>5
<1> HIDE DEF m
<1> DEFINE k == m - 1
<1>7. k \in 1..(Len(br) - 1) /\ k + 1 = m /\ k \in 1..Len(br) /\ ~(m <= k)
  BY <1>1, <1>6
<1> HIDE DEF k
<1>8. k \notin S
  BY <1>5, <1>7, Zenon
<1>9. ~(n < br[k].st.nonce[u])
  BY <1>7, <1>8, Zenon
<1> HIDE DEF S
<1>10. Follows(br[k], br[m])
  BY <1>7, Zenon DEF Branch
<1>11. n \in br[k].st.nonce[u]..(br[m].st.nonce[u] - 1)
  <2> DEFINE x == br[k].st.nonce[u]
             y == br[m].st.nonce[u]
  <2>1. x \in Nat /\ y \in Nat /\ n < y /\ ~(n < x)
    BY <1>2, <1>6, <1>7, <1>9, Zenon
  <2> HIDE DEF x, y
  <2>2. n \in x..(y - 1)
    BY <2>1
  <2> QED BY <2>2 DEF x, y
<1>12. \E j \in 1..Len(br[m].txs) : br[m].txs[j].from = u /\ br[m].txs[j].nonce = n
  BY <1>10, <1>11, Zenon DEF Follows, OrderedTo
<1> QED BY <1>6, <1>12, Zenon DEF At

(* No transaction is on the canonical branch twice, nor another one in its *)
(* place, whatever blocks peers send and however often the branch is       *)
(* reorganised: the check of the nonce in applyTx is enough, for any       *)
(* number of users and any depth of a reorganisation.                      *)
THEOREM NeverReplayed == NodeSpec => []NoReplay
<1>1. NodeInv => NoReplay
  <2> SUFFICES ASSUME NodeInv PROVE NoReplay
    OBVIOUS
  <2> DEFINE f == workload.initialBaseFee
             last == chain[Len(chain)].st.nonce
  <2>1. Branch(f, chain) /\ Len(chain) \in Nat /\ Len(chain) > 0
    BY DEF NodeInv, Branch
  <2> HIDE DEF f
  <2>2. ASSUME NEW p \in positions
        PROVE  p = <<p[1], p[2]>> /\ At(chain, p[1], p[2], txAt(p).from, txAt(p).nonce)
    <3>1. PICK i \in 1..Len(chain) : p \in {i} \X (1..Len(chain[i].txs))
      BY Zenon DEF positions
    <3>2. p[1] = i /\ p[2] \in 1..Len(chain[i].txs) /\ p = <<p[1], p[2]>>
      BY <3>1
    <3> QED BY <3>2 DEF At, txAt
  <2>3. ASSUME NEW i, NEW j, NEW u, NEW n, At(chain, i, j, u, n)
        PROVE  <<i, j>> \in positions /\ txAt(<<i, j>>).from = u /\ txAt(<<i, j>>).nonce = n
    <3>1. <<i, j>> \in {i} \X (1..Len(chain[i].txs))
      BY <2>3 DEF At
    <3>2. <<i, j>> \in positions
      BY <2>3, <3>1, Zenon DEF positions, At
    <3>3. txAt(<<i, j>>) = chain[i].txs[j]
      BY DEF txAt
    <3> QED BY <2>3, <3>2, <3>3, Zenon DEF At
  <2>4. ASSUME NEW p \in positions, NEW q \in positions,
               txAt(p).from = txAt(q).from, txAt(p).nonce = txAt(q).nonce
        PROVE  p = q
    <3> DEFINE i == p[1]
               a == p[2]
               k == q[1]
               b == q[2]
               u == txAt(p).from
               n == txAt(p).nonce
    <3>1. p = <<i, a>> /\ q = <<k, b>> /\ At(chain, i, a, u, n) /\ At(chain, k, b, u, n)
      BY <2>2, <2>4, Zenon
    <3> HIDE DEF i, a, k, b, u, n
    <3>2. ~(i < k) /\ (i = k => ~(a < b))
      BY <2>1, <3>1, OncePerNonce, Zenon
    <3>3. ~(k < i) /\ (k = i => ~(b < a))
      BY <2>1, <3>1, OncePerNonce, Zenon
    <3>4. i \in 1..Len(chain) /\ a \in Int /\ k \in 1..Len(chain) /\ b \in Int
      BY <2>1, <3>1, Between, Zenon
    <3>5. i = k /\ a = b
      BY <2>1, <3>2, <3>3, <3>4
    <3> QED BY <3>1, <3>5
  <2>5. ASSUME NEW u \in Users
        PROVE  {txAt(p).nonce : p \in {q \in positions : txAt(q).from = u}} = 0..(last[u] - 1)
    <3> DEFINE L == {txAt(p).nonce : p \in {q \in positions : txAt(q).from = u}}
               top == last[u]
               R == 0..(top - 1)
    <3>1. Len(chain) \in 1..Len(chain)
      BY <2>1
    <3>2. top \in Nat
      BY <2>1, <3>1, NoncesGrow, Zenon
    <3>3. ASSUME NEW n \in L PROVE n \in R
      <4>1. PICK p \in positions : txAt(p).from = u /\ n = txAt(p).nonce
        BY Zenon
      <4> DEFINE i == p[1]
                 x == chain[i].st.nonce[u]
      <4>2. At(chain, i, p[2], u, n)
        BY <2>2, <4>1, Zenon
      <4>3. i \in 1..Len(chain) /\ n \in Nat /\ n < x
        BY <2>1, <4>2, Between, Zenon
      <4>4. i <= Len(chain)
        BY <2>1, <4>3
      <4> HIDE DEF i
      <4>5. x \in Nat /\ x <= top
        BY <2>1, <3>1, <4>3, <4>4, NoncesGrow, Zenon
      <4> HIDE DEF x, top
      <4> QED BY <3>2, <4>3, <4>5
    <3>4. ASSUME NEW n \in R PROVE n \in L
      <4>1. n \in Nat /\ n < top
        <5> HIDE DEF top
        <5> QED BY <3>2
      <4>2. PICK i, j : At(chain, i, j, u, n)
        BY <2>1, <4>1, EveryNonce, Zenon
      <4> DEFINE p == <<i, j>>
      <4>3. p \in positions /\ txAt(p).from = u /\ txAt(p).nonce = n
        BY <2>3, <4>2, Zenon
      <4> HIDE DEF p
      <4> QED BY <4>3, Zenon
    <3> HIDE DEF L, R
    <3>5. L = R
      BY <3>3, <3>4
    <3> QED BY <3>5 DEF L, R
  <2>6. \A u \in Users : state.nonce[u] = last[u]
    BY DEF state, head, headOf
  <2> HIDE DEF last
  <2> QED BY <2>4, <2>5, <2>6, Zenon DEF NoReplay
<1> QED BY NodeInvariance, <1>1, PTL

(* What the accounts hold never exceeds the genesis and the rewards.       *)
LEMMA SupplyBound ==
    ASSUME NEW f, NEW br, Branch(f, br)
    PROVE  \A m \in Nat : m + 1 <= Len(br) /\ total(br[1].st) + m * BlockReward < Word =>
                              total(br[m + 1].st) <= total(br[1].st) + m * BlockReward
<1>1. br \in Seq(Block) /\ Len(br) \in Nat
  BY DEF Branch
<1> DEFINE T(i) == total(br[i].st)
           P == {k \in Nat : k + 1 <= Len(br) /\ T(1) + k * BlockReward < Word =>
                                T(k + 1) <= T(1) + k * BlockReward}
<1>2. ASSUME NEW i \in 1..Len(br)
      PROVE  /\ T(i) \in Nat /\ br[i].gasUsed \in Nat /\ br[i].baseFee \in Nat
             /\ br[i].gasUsed * br[i].baseFee \in Nat
  <2>1. br[i] \in Block
    BY <1>1
  <2>2. br[i].st \in LedgerState /\ br[i].gasUsed \in Nat /\ br[i].baseFee \in Nat
    BY <2>1, BlockFields, Zenon
  <2>3. T(i) \in Nat
    BY <2>2, StateFields, Zenon
  <2> QED BY <2>2, <2>3
<1>3. BlockReward \in Nat /\ Word \in Nat
  BY Constants
<1>4. 0 \in P
  BY <1>1, <1>2, <1>3
<1>5. ASSUME NEW k \in Nat, k \in P PROVE k + 1 \in P
  <2> DEFINE r == k * BlockReward
             r1 == (k + 1) * BlockReward
  <2>1. SUFFICES ASSUME (k + 1) + 1 <= Len(br), T(1) + r1 < Word
                 PROVE  T((k + 1) + 1) <= T(1) + r1
    OBVIOUS
  <2>2. r \in Nat /\ r1 = r + BlockReward
    BY <1>3
  <2> DEFINE i == k + 1
             burnt == br[i + 1].gasUsed * br[i + 1].baseFee
  <2>3. i \in 1..(Len(br) - 1) /\ i \in 1..Len(br) /\ 1 \in 1..Len(br) /\ i + 1 \in 1..Len(br)
    BY <1>1, <2>1
  <2>4. T(1) + r < Word => T(i) <= T(1) + r
    BY <1>1, <1>5, <2>1
  <2>5. T(i) + BlockReward < Word => T(i + 1) = T(i) + BlockReward - burnt
    BY <2>3, Zenon DEF Branch, Follows
  <2>6. T(1) \in Nat /\ T(i) \in Nat /\ T(i + 1) \in Nat /\ burnt \in Nat
    BY <1>2, <2>3, Zenon
  <2> DEFINE x == T(1)
             y == T(i)
             z == T(i + 1)
  <2>7. z <= x + r1
    <3>1. /\ x + r1 < Word /\ (x + r < Word => y <= x + r)
          /\ (y + BlockReward < Word => z = y + BlockReward - burnt)
          /\ x \in Nat /\ y \in Nat /\ z \in Nat /\ burnt \in Nat
      BY <2>1, <2>4, <2>5, <2>6, Zenon
    <3> HIDE DEF x, y, z, r, r1, burnt
    <3> QED BY <1>3, <2>2, <3>1
  <2> QED BY <2>7 DEF i
<1>6. \A k \in Nat : k \in P => k + 1 \in P
  BY <1>5, Zenon
<1> HIDE DEF P
<1>7. \A m \in Nat : m \in P
  BY <1>4, <1>6, SetInduction
<1> QED BY <1>7 DEF P

(* The sum that SupplyAudit takes is the total of the state.               *)
LEMMA SupplyIsTotal ==
    ASSUME NEW b \in Block
    PROVE  SumFunction(b.st.balance) + b.st.lost = total(b.st) /\ total(b.st) \in Nat
<1>1. b.st \in LedgerState
  BY BlockFields, Zenon
<1>2. b.st.balance \in [Address -> Nat] /\ total(b.st) \in Nat
  BY <1>1, StateFields, Zenon
<1>3. DOMAIN b.st.balance = Address
  BY <1>2
<1> QED BY <1>2, <1>3 DEF SumFunction, total

(* No money is made or lost but by the rules: whatever a block holds,      *)
(* applyBlock adds the reward to what all accounts hold and takes the gas  *)
(* in the header at the base fee in the header, and what Finalise deletes  *)
(* with contracts that self-destruct, until the rewards have taken the     *)
(* genesis allocation beyond a uint64.                                     *)
THEOREM SupplyAudited == NodeSpec => []SupplyAudit
<1>1. NodeInv => SupplyAudit
  <2> SUFFICES ASSUME NodeInv, NEW i \in 2..Len(chain)
               PROVE  supply(1) + (i - 1) * BlockReward < Word =>
                         supply(i) = supply(i - 1) + BlockReward - chain[i].gasUsed * chain[i].baseFee
    BY Zenon DEF SupplyAudit
  <2> DEFINE f == workload.initialBaseFee
             k == i - 1
             m == i - 2
             r == m * BlockReward
             r1 == (i - 1) * BlockReward
             burnt == chain[i].gasUsed * chain[i].baseFee
  <2>1. Branch(f, chain) /\ chain \in Seq(Block) /\ Len(chain) \in Nat
    BY DEF NodeInv, Branch
  <2>2. /\ i \in 1..Len(chain) /\ k \in 1..(Len(chain) - 1) /\ k \in 1..Len(chain) /\ k + 1 = i
        /\ m \in Nat /\ m + 1 = k /\ m + 1 <= Len(chain) /\ 1 \in 1..Len(chain)
    BY <2>1
  <2>3. ASSUME NEW j \in 1..Len(chain) PROVE supply(j) = total(chain[j].st) /\ supply(j) \in Nat
    <3>1. chain[j] \in Block
      BY <2>1
    <3> QED BY <3>1, SupplyIsTotal, Zenon DEF supply
  <2>4. BlockReward \in Nat /\ Word \in Nat
    BY Constants
  <2>5. r \in Nat /\ r1 = r + BlockReward
    BY <2>2, <2>4
  <2> HIDE DEF f, k, burnt, m, r, r1
  <2>6. Follows(chain[k], chain[i])
    BY <2>1, <2>2, Zenon DEF Branch
  <2>7. supply(k) + BlockReward < Word => supply(i) = supply(k) + BlockReward - burnt
    BY <2>2, <2>3, <2>6, Zenon DEF Follows, burnt
  <2>8. supply(1) + r < Word => supply(k) <= supply(1) + r
    <3>1. total(chain[1].st) + r < Word => total(chain[m + 1].st) <= total(chain[1].st) + r
      BY <2>1, <2>2, SupplyBound, Zenon DEF r
    <3>2. supply(k) = total(chain[m + 1].st) /\ supply(1) = total(chain[1].st)
      BY <2>2, <2>3, Zenon
    <3> QED BY <3>1, <3>2, Zenon
  <2>9. supply(1) \in Nat /\ supply(k) \in Nat
    BY <2>2, <2>3, Zenon
  <2>10. supply(1) + r1 < Word => supply(i) = supply(k) + BlockReward - burnt
    BY <2>4, <2>5, <2>7, <2>8, <2>9
  <2> QED BY <2>10 DEF k, r1, burnt
<1> QED BY NodeInvariance, <1>1, PTL

-----------------------------------------------------------------------------
(* A fee above zero at which the arithmetic of ComputeBaseFee does not     *)
(* wrap.                                                                   *)
InRange(fee) == fee \in Nat /\ fee > 0 /\ fee * GasTarget + fee < Word

(* The base fee along the branch: for an even gas limit and a genesis fee  *)
(* in range, each block's fee answers the gas of its parent, as long as    *)
(* twice the genesis allocation and the rewards is a uint64.               *)
FeesFollowGas ==
    GasTarget # 0 /\ GasLimit = 2 * GasTarget /\ InRange(workload.initialBaseFee) =>
        \A i \in 2..Len(chain) :
            2 * (supply(1) + (i - 1) * BlockReward) < Word =>
                FollowsTarget(chain[i - 1].baseFee, chain[i - 1].gasUsed, chain[i].baseFee)

(* As long as the money there is stays in range, so does the fee.          *)
LEMMA FeesInRange ==
    ASSUME NEW f, NEW br, Branch(f, br), InRange(f), GasTarget # 0, GasLimit = 2 * GasTarget
    PROVE  \A m \in Nat : m + 1 <= Len(br) /\ 2 * (total(br[1].st) + m * BlockReward) < Word =>
                              InRange(br[m + 1].baseFee)
<1>1. br \in Seq(Block) /\ Len(br) \in Nat /\ br[1].baseFee = f /\ br[1].gasUsed = 0
  BY DEF Branch
<1> DEFINE T(i) == total(br[i].st)
           P == {k \in Nat : k + 1 <= Len(br) /\ 2 * (T(1) + k * BlockReward) < Word =>
                                InRange(br[k + 1].baseFee)}
<1>2. ASSUME NEW i \in 1..Len(br)
      PROVE  T(i) \in Nat /\ br[i].gasUsed \in Nat /\ br[i].baseFee \in Nat
  <2>1. br[i] \in Block
    BY <1>1
  <2>2. br[i].st \in LedgerState /\ br[i].gasUsed \in Nat /\ br[i].baseFee \in Nat
    BY <2>1, BlockFields, Zenon
  <2> QED BY <2>2, StateFields, Zenon
<1>3. BlockReward \in Nat /\ Word \in Nat /\ GasLimit \in Nat
  BY Constants
<1>4. 0 \in P
  BY <1>1
<1>5. ASSUME NEW k \in Nat, k \in P PROVE k + 1 \in P
  <2> DEFINE i == k + 1
             fee == br[i].baseFee
             used == br[i].gasUsed
             r == k * BlockReward
             r1 == (k + 1) * BlockReward
             money == T(1) + r
  <2>1. SUFFICES ASSUME i + 1 <= Len(br), 2 * (T(1) + r1) < Word
                 PROVE  InRange(br[i + 1].baseFee)
    OBVIOUS
  <2>2. r \in Nat /\ r1 = r + BlockReward
    BY <1>3
  <2>3. i \in 1..(Len(br) - 1) /\ i \in 1..Len(br) /\ 1 \in 1..Len(br) /\ i + 1 \in 1..Len(br)
    BY <1>1, <2>1
  <2>4. T(1) \in Nat /\ T(i) \in Nat /\ fee \in Nat /\ used \in Nat
    BY <1>2, <2>3, Zenon
  <2>5. money \in Nat /\ 2 * money < Word /\ money < Word
    <3> HIDE DEF T, r, r1, fee, used, i
    <3> QED BY <1>3, <2>1, <2>2, <2>4
  <2>6. InRange(fee)
    BY <1>1, <1>5, <2>1, <2>5
  <2>7. br[i + 1].baseFee = ComputeBaseFee(fee, used)
    BY <2>3, Zenon DEF Branch, Follows
  <2>8. used <= GasLimit /\ used * fee <= money
    <3>1. CASE k = 0
      <4>1. used = 0
        BY <1>1, <3>1
      <4> HIDE DEF used, fee, money
      <4> QED BY <1>3, <2>4, <2>5, <4>1
    <3>2. CASE k # 0
      <4> DEFINE h == k - 1
                 q == h * BlockReward
      <4>1. /\ h \in Nat /\ h + 1 = k /\ k \in 1..(Len(br) - 1) /\ k \in 1..Len(br)
            /\ h + 1 <= Len(br)
        BY <1>1, <2>3, <3>2
      <4>2. q \in Nat /\ r = q + BlockReward
        BY <1>3, <4>1
      <4>3. Follows(br[k], br[i])
        BY <4>1 DEF Branch
      <4>4. T(k) \in Nat
        BY <1>2, <4>1, Zenon
      <4>5. T(1) + q < Word => T(k) <= T(1) + q
        <5> HIDE DEF h
        <5>1. total(br[1].st) + h * BlockReward < Word =>
                 total(br[h + 1].st) <= total(br[1].st) + h * BlockReward
          BY <1>1, <4>1, SupplyBound
        <5> QED BY <4>1, <5>1
      <4> DEFINE burnt == used * fee
      <4>6. used <= GasLimit /\ (T(k) + BlockReward < Word => burnt <= T(k))
        BY <4>3, Zenon DEF Follows
      <4>7. burnt \in Nat
        <5> HIDE DEF used, fee
        <5> QED BY <2>4
      <4> HIDE DEF q, T, r, r1, burnt, h, i
      <4>8. burnt <= T(1) + r
        BY <1>3, <2>4, <2>5, <4>2, <4>4, <4>5, <4>6, <4>7
      <4> QED BY <4>6, <4>8 DEF burnt
    <3> QED BY <3>1, <3>2
  <2> DEFINE next == ComputeBaseFee(fee, used)
  <2> HIDE DEF fee, used, money
  <2>9. fee \in Nat \ {0} /\ used \in 0..GasLimit /\ fee * GasTarget + fee < Word
    BY <1>3, <2>4, <2>6, <2>8 DEF InRange
  <2>10. next * GasTarget + next < Word
    BY <2>5, <2>8, <2>9, FeeStaysInRange
  <2>11. next > 0 /\ next \in Nat
    <3>1. FollowsTarget(fee, used, next)
      BY <2>9, FeeFollowsTarget
    <3>2. next \in Nat
      BY <2>4, FeeType, Zenon
    <3> QED BY <3>1, <3>2, Zenon DEF FollowsTarget
  <2> HIDE DEF next
  <2>12. InRange(next)
    BY <2>10, <2>11 DEF InRange
  <2> QED BY <2>7, <2>12 DEF next
<1>6. \A k \in Nat : k \in P => k + 1 \in P
  BY <1>5, Zenon
<1> HIDE DEF P
<1>7. \A m \in Nat : m \in P
  BY <1>4, <1>6, SetInduction
<1> QED BY <1>7 DEF P

(* The fee market of the documentation holds along every branch: what      *)
(* ComputeBaseFee multiplies and adds without a check does not wrap, as    *)
(* the gas it is computed from was paid for out of a supply that is in     *)
(* range.                                                                  *)
THEOREM BranchFeesFollowGas == NodeSpec => []FeesFollowGas
<1>1. NodeInv => FeesFollowGas
  <2> DEFINE f == workload.initialBaseFee
  <2> SUFFICES ASSUME NodeInv, GasTarget # 0, GasLimit = 2 * GasTarget, InRange(f),
                      NEW i \in 2..Len(chain)
               PROVE  2 * (supply(1) + (i - 1) * BlockReward) < Word =>
                         FollowsTarget(chain[i - 1].baseFee, chain[i - 1].gasUsed, chain[i].baseFee)
    BY Zenon DEF FeesFollowGas
  <2> DEFINE k == i - 1
             m == i - 2
             r == m * BlockReward
             r1 == (i - 1) * BlockReward
             fee == chain[k].baseFee
             used == chain[k].gasUsed
  <2>1. Branch(f, chain)
    BY DEF NodeInv
  <2>2. chain \in Seq(Block) /\ chain[1].gasUsed = 0
    BY <2>1, Zenon DEF Branch
  <2>3. Len(chain) \in Nat
    BY <2>2
  <2>4. /\ i \in 1..Len(chain) /\ k \in 1..(Len(chain) - 1) /\ k \in 1..Len(chain) /\ k + 1 = i
        /\ m \in Nat /\ m + 1 = k /\ m + 1 <= Len(chain) /\ 1 \in 1..Len(chain)
        /\ (k = 1 \/ m \in 1..(Len(chain) - 1))
    BY <2>3
  <2>5. BlockReward \in Nat /\ Word \in Nat /\ GasLimit \in Nat
    BY Constants
  <2>6. r \in Nat /\ r1 = r + BlockReward
    BY <2>4, <2>5
  <2> HIDE DEF f, k, m, r, r1
  <2>7. chain[1] \in Block /\ chain[k] \in Block
    BY <2>2, <2>4
  <2>8. supply(1) = total(chain[1].st) /\ supply(1) \in Nat
    BY <2>7, SupplyIsTotal, Zenon DEF supply
  <2>9. used \in 0..GasLimit
    <3>1. used \in Nat
      BY <2>7, BlockFields, Zenon
    <3>2. CASE k = 1
      BY <2>2, <2>5, <3>2
    <3>3. CASE m \in 1..(Len(chain) - 1)
      <4>1. used <= GasLimit
        BY <2>1, <2>4, <3>3, Zenon DEF Branch, Follows
      <4> HIDE DEF used
      <4> QED BY <2>5, <3>1, <4>1
    <3> QED BY <2>4, <3>2, <3>3
  <2>10. chain[i].baseFee = ComputeBaseFee(fee, used)
    BY <2>1, <2>4, Zenon DEF Branch, Follows
  <2>11. 2 * (supply(1) + r) < Word => InRange(fee)
    BY <2>1, <2>4, <2>8, FeesInRange, Zenon DEF r
  <2> HIDE DEF fee, used
  <2>12. InRange(fee) => FollowsTarget(fee, used, ComputeBaseFee(fee, used))
    <3> SUFFICES ASSUME InRange(fee) PROVE FollowsTarget(fee, used, ComputeBaseFee(fee, used))
      OBVIOUS
    <3>1. fee \in Nat \ {0} /\ fee * GasTarget + fee < Word
      BY DEF InRange
    <3> QED BY <2>9, <3>1, FeeFollowsTarget, Zenon
  <2>13. 2 * (supply(1) + r1) < Word => 2 * (supply(1) + r) < Word
    BY <2>5, <2>6, <2>8
  <2>14. 2 * (supply(1) + r1) < Word => FollowsTarget(fee, used, chain[i].baseFee)
    BY <2>10, <2>11, <2>12, <2>13, Zenon
  <2> QED BY <2>14, Zenon DEF k, r1, fee, used
<1> QED BY NodeInvariance, <1>1, PTL
=============================================================================
