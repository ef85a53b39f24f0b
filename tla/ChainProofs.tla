---------------------------- MODULE ChainProofs ----------------------------
(***************************************************************************)
(* Proofs about Chain, for every registry, interval, table and bound.      *)
(*                                                                         *)
(* First what the operators of Chain compute: branches and the height      *)
(* index, the stake lottery, the tallies.  These lemmas unfold the         *)
(* recursive functions of Chain; an induction over the naturals is an      *)
(* induction over a set S, and SetInduction follows from the               *)
(* well-foundedness of < on Nat.  Then the inductive invariant and the     *)
(* theorems that follow from it, that Chain implements HeaviestChain, and  *)
(* what the blocks that a node has accepted determine of its view.         *)
(***************************************************************************)
EXTENDS Chain, SumLemmas

(* The types of a table's rows.                                            *)
LEMMA TableTypes ==
    ASSUME IsTable(sealed)
    PROVE  /\ Len(sealed) \in Nat /\ DOMAIN sealed = 1..Len(sealed)
           /\ DOMAIN sealed \subseteq BlockHash
           /\ Genesis \in DOMAIN sealed /\ sealed[Genesis].height = 0
           /\ \A b \in DOMAIN sealed :
                /\ sealed[b].prev \in Hash
                /\ sealed[b].height \in Nat
                /\ sealed[b].coinbase \in Validator
                /\ sealed[b].difficulty \in Nat
                /\ sealed[b].seed \in Nat
                /\ sealed[b].attestations \in Seq(Attestation)
           /\ \A b \in DOMAIN sealed \ {Genesis} :
                b \in 2..Len(sealed) /\ sealed[b].prev \in 1..(b - 1)
<1>1. sealed \in Seq(Block) /\ Len(sealed) \in 1..MaxBlocks
  BY DEF IsTable
<1>2. /\ Len(sealed) \in Nat /\ DOMAIN sealed = 1..Len(sealed)
      /\ DOMAIN sealed \subseteq BlockHash /\ Genesis \in DOMAIN sealed
  BY <1>1, BoundAssumption DEF BlockHash, Genesis
<1>3. \A b \in DOMAIN sealed : sealed[b] \in Block
  BY <1>1, <1>2
<1>4. \A b \in DOMAIN sealed : /\ sealed[b].prev \in Hash
                               /\ sealed[b].height \in Nat
                               /\ sealed[b].coinbase \in Validator
                               /\ sealed[b].difficulty \in Nat
                               /\ sealed[b].seed \in Nat
                               /\ sealed[b].attestations \in Seq(Attestation)
  <2> TAKE b \in DOMAIN sealed
  <2>1. sealed[b] \in Block
    BY <1>3
  <2> QED BY <2>1 DEF Block
<1>5. \A b \in DOMAIN sealed \ {Genesis} :
         b \in 2..Len(sealed) /\ sealed[b].prev \in 1..(b - 1)
  BY <1>2 DEF IsTable, Genesis
<1>6. sealed[Genesis].height = 0
  BY DEF IsTable
<1> QED BY <1>2, <1>4, <1>5, <1>6

(* The walk to genesis is what its recursive definition says.              *)
LEMMA ChainToDef ==
    ASSUME IsTable(sealed)
    PROVE  \A b \in DOMAIN sealed :
              chainTo[b] = IF b = Genesis THEN {b} ELSE {b} \cup chainTo[sealed[b].prev]
<1> DEFINE Is(g, n) == g = [b \in 1..n |->
                              IF b = Genesis THEN {b} ELSE {b} \cup g[sealed[b].prev]]
           Q(n) == n =< Len(sealed) => \E g : Is(g, n)
           S == {n \in Nat : Q(n)}
<1>0. /\ Len(sealed) \in Nat /\ DOMAIN sealed = 1..Len(sealed)
      /\ \A b \in 2..Len(sealed) : sealed[b].prev \in 1..(b - 1)
  BY DEF IsTable
<1>1. Q(0)
  <2>1. Is([b \in 1..0 |-> {}], 0)
    OBVIOUS
  <2> QED BY <2>1
<1>2. ASSUME NEW n \in Nat, Q(n) PROVE Q(n + 1)
  <2> SUFFICES ASSUME n + 1 =< Len(sealed) PROVE \E h : Is(h, n + 1)
    OBVIOUS
  <2>0. PICK g : Is(g, n)
    BY <1>0, <1>2
  <2> DEFINE top == IF n + 1 = Genesis THEN {n + 1} ELSE {n + 1} \cup g[sealed[n + 1].prev]
             h == [b \in 1..(n + 1) |-> IF b = n + 1 THEN top ELSE g[b]]
  <2>1. ASSUME NEW b \in 1..(n + 1)
        PROVE  h[b] = IF b = Genesis THEN {b} ELSE {b} \cup h[sealed[b].prev]
    <3>1. CASE b = Genesis
      <4>1. h[b] = {b}
        BY <2>0, <3>1
      <4> QED BY <3>1, <4>1
    <3>2. CASE b # Genesis
      <4>1. b \in 2..Len(sealed)
        BY <3>2, <1>0 DEF Genesis
      <4>2. sealed[b].prev \in 1..n /\ sealed[b].prev # n + 1 /\ sealed[b].prev < b
        BY <4>1, <1>0
      <4>3. h[sealed[b].prev] = g[sealed[b].prev]
        BY <4>2
      <4>4. h[b] = {b} \cup g[sealed[b].prev]
        BY <2>0, <3>2, <4>2
      <4> QED BY <3>2, <4>3, <4>4, Zenon
    <3> QED BY <3>1, <3>2
  <2>2. Is(h, n + 1)
    BY <2>1, Zenon
  <2> QED BY <2>2, Zenon
<1>3. Q(Len(sealed))
  <2> HIDE DEF Q
  <2>1. 0 \in S /\ \A n \in Nat : n \in S => n + 1 \in S
    BY <1>1, <1>2
  <2> HIDE DEF S
  <2>2. Len(sealed) \in S
    BY <1>0, <2>1, SetInduction
  <2> QED BY <2>2 DEF S
<1>4. \E g : g = [b \in DOMAIN sealed |->
                     IF b = Genesis THEN {b} ELSE {b} \cup g[sealed[b].prev]]
  BY <1>0, <1>3
<1>5. chainTo = [b \in DOMAIN sealed |->
                   IF b = Genesis THEN {b} ELSE {b} \cup chainTo[sealed[b].prev]]
  BY <1>4, Zenon DEF chainTo
<1> QED BY <1>5, Zenon

(* Every walk starts at its block, ends at genesis and only goes to        *)
(* earlier rows.                                                           *)
LEMMA ChainToRange ==
    ASSUME IsTable(sealed)
    PROVE  \A b \in DOMAIN sealed :
              b \in chainTo[b] /\ Genesis \in chainTo[b] /\ chainTo[b] \subseteq 1..b
<1> DEFINE P(b) == b \in chainTo[b] /\ Genesis \in chainTo[b] /\ chainTo[b] \subseteq 1..b
           Q(n) == \A b \in 1..n : b =< Len(sealed) => P(b)
           S == {n \in Nat : Q(n)}
<1>0. /\ Len(sealed) \in Nat /\ DOMAIN sealed = 1..Len(sealed)
      /\ \A b \in 2..Len(sealed) : sealed[b].prev \in 1..(b - 1)
  BY DEF IsTable
<1>1. Q(0)
  OBVIOUS
<1>2. ASSUME NEW n \in Nat, Q(n) PROVE Q(n + 1)
  <2> SUFFICES ASSUME n + 1 =< Len(sealed) PROVE P(n + 1)
    BY <1>0, <1>2
  <2>1. chainTo[n + 1] = IF n + 1 = Genesis THEN {n + 1}
                         ELSE {n + 1} \cup chainTo[sealed[n + 1].prev]
    <3>1. n + 1 \in DOMAIN sealed
      BY <1>0
    <3> QED BY <3>1, ChainToDef, Zenon
  <2>2. CASE n + 1 = Genesis
    BY <2>1, <2>2 DEF Genesis
  <2>3. CASE n + 1 # Genesis
    <3>1. sealed[n + 1].prev \in 1..n /\ sealed[n + 1].prev =< Len(sealed)
      BY <1>0, <2>3 DEF Genesis
    <3>2. P(sealed[n + 1].prev)
      BY <1>2, <3>1
    <3>3. chainTo[sealed[n + 1].prev] \subseteq 1..(n + 1)
      BY <3>1, <3>2
    <3> QED BY <2>1, <2>3, <3>2, <3>3
  <2> QED BY <2>2, <2>3
<1>3. Q(Len(sealed))
  <2> HIDE DEF Q
  <2>1. 0 \in S /\ \A n \in Nat : n \in S => n + 1 \in S
    BY <1>1, <1>2
  <2> HIDE DEF S
  <2>2. Len(sealed) \in S
    BY <1>0, <2>1, SetInduction
  <2> QED BY <2>2 DEF S
<1> QED BY <1>0, <1>3
(* A walk contains the walks of the blocks on it.                          *)
LEMMA ChainToTransitive ==
    ASSUME IsTable(sealed)
    PROVE  \A b \in DOMAIN sealed : \A a \in chainTo[b] : chainTo[a] \subseteq chainTo[b]
<1> DEFINE P(b) == \A a \in chainTo[b] : chainTo[a] \subseteq chainTo[b]
           Q(n) == \A b \in 1..n : b =< Len(sealed) => P(b)
           S == {n \in Nat : Q(n)}
<1>0. /\ Len(sealed) \in Nat /\ DOMAIN sealed = 1..Len(sealed)
      /\ \A b \in DOMAIN sealed \ {Genesis} : sealed[b].prev \in 1..(b - 1)
  BY TableTypes
<1>1. Q(0)
  OBVIOUS
<1>2. ASSUME NEW n \in Nat, Q(n) PROVE Q(n + 1)
  <2> SUFFICES ASSUME n + 1 =< Len(sealed) PROVE P(n + 1)
    BY <1>0, <1>2
  <2>1. n + 1 \in DOMAIN sealed
    BY <1>0
  <2>2. CASE n + 1 = Genesis
    <3>1. chainTo[n + 1] = {n + 1}
      BY <2>1, <2>2, ChainToDef, Zenon
    <3> QED BY <3>1
  <2>3. CASE n + 1 # Genesis
    <3>1. chainTo[n + 1] = {n + 1} \cup chainTo[sealed[n + 1].prev]
      BY <2>1, <2>3, ChainToDef, Zenon
    <3>2. sealed[n + 1].prev \in 1..n /\ sealed[n + 1].prev =< Len(sealed)
      BY <1>0, <2>1, <2>3
    <3>3. P(sealed[n + 1].prev)
      BY <1>2, <3>2
    <3> QED BY <3>1, <3>3
  <2> QED BY <2>2, <2>3
<1>3. Q(Len(sealed))
  <2> HIDE DEF Q
  <2>1. 0 \in S /\ \A n \in Nat : n \in S => n + 1 \in S
    BY <1>1, <1>2
  <2> HIDE DEF S
  <2>2. Len(sealed) \in S
    BY <1>0, <2>1, SetInduction
  <2> QED BY <2>2 DEF S
<1> QED BY <1>0, <1>3

(* What a set of blocks closed under parents, each one height above its    *)
(* parent, says of a branch: it stays in the set, it has exactly one block *)
(* per height up to its tip, and it is closed under parents itself.        *)
Linked(acc) ==
    /\ acc \subseteq DOMAIN sealed /\ Genesis \in acc
    /\ \A b \in acc \ {Genesis} :
          sealed[b].prev \in acc /\ sealed[b].height = sealed[sealed[b].prev].height + 1

Branch(acc, b) ==
    /\ chainTo[b] \subseteq acc
    /\ \A a \in chainTo[b] : a # b => sealed[a].height < sealed[b].height
    /\ \A a, c \in chainTo[b] : sealed[a].height = sealed[c].height => a = c
    /\ \A h \in 0..sealed[b].height : \E a \in chainTo[b] : sealed[a].height = h
    /\ \A a \in chainTo[b] \ {Genesis} : sealed[a].prev \in chainTo[b]

(* The walk along PrevHash from b holds one block per height up to b's,    *)
(* each the parent of the next: what rebuildIndex ranges over.             *)
LEMMA BranchIsPath ==
    ASSUME IsTable(sealed), NEW acc, Linked(acc)
    PROVE  \A b \in acc : Branch(acc, b)
<1> DEFINE Q(n) == \A b \in acc : b =< n => Branch(acc, b)
           S == {n \in Nat : Q(n)}
<1>0. /\ Len(sealed) \in Nat /\ DOMAIN sealed = 1..Len(sealed)
      /\ \A b \in 2..Len(sealed) : sealed[b].prev \in 1..(b - 1)
      /\ \A b \in DOMAIN sealed : sealed[b].height \in Nat
      /\ sealed[Genesis].height = 0
      /\ acc \subseteq 1..Len(sealed)
  BY TableTypes DEF Linked, Genesis
<1>1. Q(0)
  BY <1>0
<1>2. ASSUME NEW n \in Nat, Q(n) PROVE Q(n + 1)
  <2> SUFFICES ASSUME n + 1 \in acc PROVE Branch(acc, n + 1)
    BY <1>0, <1>2
  <2>1. n + 1 \in DOMAIN sealed
    BY <1>0
  <2>2. CASE n + 1 = Genesis
    <3>1. chainTo[n + 1] = {n + 1}
      BY <2>1, <2>2, ChainToDef, Zenon
    <3> QED BY <1>0, <2>2, <3>1 DEF Branch
  <2>3. CASE n + 1 # Genesis
    <3> DEFINE p == sealed[n + 1].prev
    <3>1. chainTo[n + 1] = {n + 1} \cup chainTo[p]
      BY <2>1, <2>3, ChainToDef, Zenon
    <3>2. p \in acc /\ sealed[n + 1].height = sealed[p].height + 1
      BY <2>3 DEF Linked
    <3>3. p \in 1..n
      BY <1>0, <2>1, <2>3 DEF Genesis
    <3>4. Branch(acc, p)
      BY <1>2, <3>2, <3>3
    <3>5. p \in chainTo[p] /\ chainTo[p] \subseteq 1..p
      BY <1>0, <3>2, ChainToRange, Zenon
    <3> HIDE DEF p
    <3>6. sealed[p].height \in Nat /\ \A a \in chainTo[p] : sealed[a].height \in Nat
      BY <1>0, <3>2, <3>4, Zenon DEF Branch
    <3>7. \A a \in chainTo[p] : sealed[a].height =< sealed[p].height
      BY <3>4, <3>6 DEF Branch
    <3>8. chainTo[n + 1] \subseteq acc
      BY <3>1, <3>4 DEF Branch
    <3>9. \A a \in chainTo[n + 1] : a # n + 1 => sealed[a].height < sealed[n + 1].height
      BY <3>1, <3>2, <3>6, <3>7
    <3>10. \A a, c \in chainTo[n + 1] : sealed[a].height = sealed[c].height => a = c
      BY <3>1, <3>2, <3>4, <3>6, <3>7 DEF Branch
    <3>11. \A h \in 0..sealed[n + 1].height : \E a \in chainTo[n + 1] : sealed[a].height = h
      <4> TAKE h \in 0..sealed[n + 1].height
      <4>1. CASE h = sealed[n + 1].height
        BY <3>1, <4>1
      <4>2. CASE h # sealed[n + 1].height
        <5>1. h \in 0..sealed[p].height
          BY <3>2, <3>6, <4>2
        <5> QED BY <3>1, <3>4, <5>1 DEF Branch
      <4> QED BY <4>1, <4>2
    <3>12. \A a \in chainTo[n + 1] \ {Genesis} : sealed[a].prev \in chainTo[n + 1]
      BY <3>1, <3>4, <3>5 DEF Branch, p
    <3> QED BY <3>8, <3>9, <3>10, <3>11, <3>12 DEF Branch
  <2> QED BY <2>2, <2>3
<1>3. Q(Len(sealed))
  <2> HIDE DEF Q
  <2>1. 0 \in S /\ \A n \in Nat : n \in S => n + 1 \in S
    BY <1>1, <1>2
  <2> HIDE DEF S
  <2>2. Len(sealed) \in S
    BY <1>0, <2>1, SetInduction, Zenon
  <2> QED BY <2>2 DEF S
<1> QED BY <1>0, <1>3

(* The index rebuilt from a branch lists it by height, parent before       *)
(* child, from genesis to the tip.                                         *)
LEMMA IndexIsBranch ==
    ASSUME IsTable(sealed), NEW acc, Linked(acc), NEW b \in acc
    PROVE  LET index == rebuildIndex(chainTo[b]) IN
           /\ DOMAIN index = 0..sealed[b].height
           /\ \A h \in DOMAIN index : index[h] \in chainTo[b] /\ sealed[index[h]].height = h
           /\ \A a \in chainTo[b] : index[sealed[a].height] = a
<1> DEFINE index == rebuildIndex(chainTo[b])
<1>0. /\ \A a \in DOMAIN sealed : sealed[a].height \in Nat
      /\ b \in DOMAIN sealed /\ chainTo[b] \subseteq DOMAIN sealed
  <2>1. Branch(acc, b)
    BY BranchIsPath
  <2> QED BY <2>1, TableTypes DEF Linked, Branch
<1>1. Branch(acc, b) /\ b \in chainTo[b]
  BY <1>0, BranchIsPath, ChainToRange
<1>2. {sealed[a].height : a \in chainTo[b]} = 0..sealed[b].height
  <2>1. ASSUME NEW a \in chainTo[b] PROVE sealed[a].height \in 0..sealed[b].height
    BY <1>0, <1>1 DEF Branch
  <2>2. ASSUME NEW h \in 0..sealed[b].height PROVE \E a \in chainTo[b] : sealed[a].height = h
    BY <1>1 DEF Branch
  <2> QED BY <2>1, <2>2
<1>3. DOMAIN index = 0..sealed[b].height
  BY <1>2 DEF rebuildIndex
<1>4. \A h \in 0..sealed[b].height :
         index[h] = CHOOSE a \in chainTo[b] : sealed[a].height = h
  BY <1>2 DEF rebuildIndex
<1>5. \A h \in 0..sealed[b].height : index[h] \in chainTo[b] /\ sealed[index[h]].height = h
  <2> TAKE h \in 0..sealed[b].height
  <2>1. \E a \in chainTo[b] : sealed[a].height = h
    BY <1>1 DEF Branch
  <2>2. index[h] = CHOOSE a \in chainTo[b] : sealed[a].height = h
    BY <1>4
  <2> HIDE DEF index
  <2> QED BY <2>1, <2>2, Zenon
<1>6. \A a \in chainTo[b] : index[sealed[a].height] = a
  <2> TAKE a \in chainTo[b]
  <2>1. sealed[a].height \in 0..sealed[b].height
    BY <1>2
  <2> HIDE DEF index
  <2> QED BY <1>1, <1>5, <2>1 DEF Branch
<1> QED BY <1>3, <1>5, <1>6

-----------------------------------------------------------------------------
(* The registry.                                                           *)

(* The recursion that defines the running sums of SelectProposer's walk    *)
(* really has a solution, and this is it.                                  *)
LEMMA StakeDef ==
    ASSUME NEW out
    PROVE  \A i \in 0..Len(Stake) :
              cumulativeStake(out)[i] =
                 IF i = 0 THEN 0
                 ELSE IF i \in out THEN cumulativeStake(out)[i - 1]
                      ELSE cumulativeStake(out)[i - 1] + Stake[i]
<1> DEFINE F(g, i) == IF i = 0 THEN 0 ELSE IF i \in out THEN g[i - 1] ELSE g[i - 1] + Stake[i]
           Is(g, n) == g = [i \in 0..n |-> F(g, i)]
           Q(n) == \E g : Is(g, n)
           S == {n \in Nat : Q(n)}
<1>0. Len(Stake) \in Nat
  BY StakeAssumption
<1>1. Q(0)
  <2>1. Is([i \in 0..0 |-> 0], 0)
    OBVIOUS
  <2> QED BY <2>1, Zenon
<1>2. ASSUME NEW n \in Nat, Q(n) PROVE Q(n + 1)
  <2>0. PICK g : Is(g, n)
    BY <1>2
  <2> DEFINE h == [i \in 0..(n + 1) |-> IF i = n + 1 THEN F(g, n + 1) ELSE g[i]]
  <2>1. ASSUME NEW i \in 0..(n + 1) PROVE h[i] = F(h, i)
    <3>1. CASE i = n + 1
      <4>1. h[i - 1] = g[i - 1]
        BY <3>1
      <4> QED BY <3>1, <4>1
    <3>2. CASE i # n + 1
      <4>1. i \in 0..n /\ h[i] = g[i]
        BY <3>2
      <4>2. g[i] = F(g, i)
        BY <2>0, <4>1
      <4>3. i # 0 => h[i - 1] = g[i - 1]
        BY <4>1
      <4> QED BY <4>1, <4>2, <4>3
    <3> QED BY <3>1, <3>2
  <2>2. Is(h, n + 1)
    BY <2>1
  <2> QED BY <2>2, Zenon
<1>3. Q(Len(Stake))
  <2> HIDE DEF Q
  <2>1. 0 \in S /\ \A n \in Nat : n \in S => n + 1 \in S
    BY <1>1, <1>2
  <2> HIDE DEF S
  <2>2. Len(Stake) \in S
    BY <1>0, <2>1, SetInduction
  <2> QED BY <2>2 DEF S
<1>4. cumulativeStake(out) = [i \in 0..Len(Stake) |-> F(cumulativeStake(out), i)]
  BY <1>3, Zenon DEF cumulativeStake
<1> QED BY <1>4, Zenon

(* The running sums are natural numbers.                                   *)
LEMMA StakeNat ==
    ASSUME NEW out
    PROVE  \A i \in 0..Len(Stake) : cumulativeStake(out)[i] \in Nat
<1> DEFINE Q(n) == n =< Len(Stake) => cumulativeStake(out)[n] \in Nat
           S == {n \in Nat : Q(n)}
<1>0. Len(Stake) \in Nat /\ \A i \in 1..Len(Stake) : Stake[i] \in Nat
  BY StakeAssumption
<1>1. Q(0)
  BY <1>0, StakeDef
<1>2. ASSUME NEW n \in Nat, Q(n) PROVE Q(n + 1)
  <2> SUFFICES ASSUME n + 1 =< Len(Stake) PROVE cumulativeStake(out)[n + 1] \in Nat
    OBVIOUS
  <2>1. cumulativeStake(out)[n] \in Nat /\ n + 1 \in 1..Len(Stake) /\ n + 1 \in 0..Len(Stake)
    BY <1>0, <1>2
  <2>2. cumulativeStake(out)[n + 1] = IF n + 1 \in out THEN cumulativeStake(out)[n]
                                      ELSE cumulativeStake(out)[n] + Stake[n + 1]
    BY <2>1, StakeDef
  <2> QED BY <1>0, <2>1, <2>2
<1>3. \A n \in Nat : Q(n)
  <2> HIDE DEF Q
  <2>1. 0 \in S /\ \A n \in Nat : n \in S => n + 1 \in S
    BY <1>1, <1>2
  <2> HIDE DEF S
  <2>2. \A n \in Nat : n \in S
    BY <2>1, SetInduction
  <2> QED BY <2>2 DEF S
<1> QED BY <1>0, <1>3

(* Jailing more validators never raises the effective stake.               *)
LEMMA StakeAntitone ==
    ASSUME NEW out, NEW more, out \subseteq more
    PROVE  EffectiveStake(more) =< EffectiveStake(out)
<1> DEFINE Q(n) == n =< Len(Stake) => cumulativeStake(more)[n] =< cumulativeStake(out)[n]
           S == {n \in Nat : Q(n)}
<1>0. Len(Stake) \in Nat /\ \A i \in 1..Len(Stake) : Stake[i] \in Nat
  BY StakeAssumption
<1>1. Q(0)
  <2>1. 0 \in 0..Len(Stake)
    BY <1>0
  <2>2. cumulativeStake(more)[0] = 0 /\ cumulativeStake(out)[0] = 0
    BY <2>1, StakeDef
  <2> QED BY <2>2
<1>2. ASSUME NEW n \in Nat, Q(n) PROVE Q(n + 1)
  <2> SUFFICES ASSUME n + 1 =< Len(Stake)
               PROVE  cumulativeStake(more)[n + 1] =< cumulativeStake(out)[n + 1]
    OBVIOUS
  <2>1. n \in 0..Len(Stake) /\ n + 1 \in 0..Len(Stake) /\ Stake[n + 1] \in Nat
    BY <1>0
  <2>2. cumulativeStake(more)[n] \in Nat /\ cumulativeStake(out)[n] \in Nat
    BY <2>1, StakeNat
  <2>3. cumulativeStake(more)[n + 1] = IF n + 1 \in more THEN cumulativeStake(more)[n]
                                       ELSE cumulativeStake(more)[n] + Stake[n + 1]
    BY <2>1, StakeDef
  <2>4. cumulativeStake(out)[n + 1] = IF n + 1 \in out THEN cumulativeStake(out)[n]
                                      ELSE cumulativeStake(out)[n] + Stake[n + 1]
    BY <2>1, StakeDef
  <2>5. cumulativeStake(more)[n] =< cumulativeStake(out)[n]
    BY <1>0, <1>2
  <2> QED BY <2>1, <2>2, <2>3, <2>4, <2>5
<1>3. \A n \in Nat : Q(n)
  <2> HIDE DEF Q
  <2>1. 0 \in S /\ \A n \in Nat : n \in S => n + 1 \in S
    BY <1>1, <1>2
  <2> HIDE DEF S
  <2>2. \A n \in Nat : n \in S
    BY <2>1, SetInduction
  <2> QED BY <2>2 DEF S
<1> QED BY <1>0, <1>3 DEF EffectiveStake

(* So is the total that EffectiveStake returns.                            *)
LEMMA EffectiveStakeNat ==
    ASSUME NEW out PROVE EffectiveStake(out) \in Nat
<1>1. Len(Stake) \in 0..Len(Stake)
  BY StakeAssumption
<1> QED BY <1>1, StakeNat DEF EffectiveStake

(* The stake ranges are disjoint, cover 0..total-1 and leave out the       *)
(* excluded validators.                                                    *)
LEMMA Lottery ==
    ASSUME NEW out, NEW seed \in Nat, EffectiveStake(out) > 0
    PROVE  \E v \in Validator \ out :
              \A w \in Validator : SelectProposer(w, out, seed) <=> w = v
<1> DEFINE cum == cumulativeStake(out)
           x == seed % EffectiveStake(out)
           Q(n) == n =< Len(Stake) /\ x < cum[n] =>
                      \E v \in 1..n : cum[v - 1] =< x /\ x < cum[v]
           M(n) == \A i \in 0..n : n =< Len(Stake) => cum[i] =< cum[n]
           S == {n \in Nat : Q(n) /\ M(n)}
<1>0. /\ Len(Stake) \in Nat /\ \A i \in 1..Len(Stake) : Stake[i] \in Nat
      /\ EffectiveStake(out) \in Nat
  BY StakeAssumption, EffectiveStakeNat
<1>1. x \in Nat /\ x < EffectiveStake(out)
  BY <1>0
<1>2. /\ \A i \in 0..Len(Stake) : cum[i] \in Nat
      /\ 0 \in 0..Len(Stake) /\ cum[0] = 0
      /\ \A i \in 1..Len(Stake) : cum[i] = IF i \in out THEN cum[i - 1] ELSE cum[i - 1] + Stake[i]
  <2>1. \A i \in 0..Len(Stake) : cum[i] \in Nat
    BY StakeNat
  <2>2. 0 \in 0..Len(Stake) /\ \A i \in 1..Len(Stake) : i \in 0..Len(Stake) /\ i # 0
    BY <1>0
  <2> QED BY <2>1, <2>2, StakeDef
<1> HIDE DEF cum, x
<1>3. Q(0) /\ M(0)
  BY <1>1, <1>2
<1>4. ASSUME NEW n \in Nat, Q(n), M(n) PROVE Q(n + 1) /\ M(n + 1)
  <2>1. CASE n + 1 > Len(Stake)
    BY <1>0, <2>1
  <2>2. CASE n + 1 =< Len(Stake)
    <3>1. n + 1 \in 1..Len(Stake) /\ n \in 0..Len(Stake) /\ n + 1 \in 0..Len(Stake)
      BY <1>0, <2>2
    <3>2. cum[n] \in Nat /\ cum[n + 1] \in Nat /\ cum[n] =< cum[n + 1]
      <4>1. cum[n + 1] = IF n + 1 \in out THEN cum[n] ELSE cum[n] + Stake[n + 1]
        BY <1>2, <3>1
      <4> QED BY <1>0, <1>2, <3>1, <4>1
    <3>3. M(n + 1)
      <4> SUFFICES ASSUME NEW i \in 0..(n + 1) PROVE cum[i] =< cum[n + 1]
        OBVIOUS
      <4>1. CASE i = n + 1
        BY <3>2, <4>1
      <4>2. CASE i # n + 1
        <5>1. i \in 0..n /\ i \in 0..Len(Stake)
          BY <3>1, <4>2
        <5>2. cum[i] =< cum[n] /\ cum[i] \in Nat
          BY <1>0, <1>2, <1>4, <3>1, <5>1
        <5> QED BY <3>2, <5>2
      <4> QED BY <4>1, <4>2
    <3>4. Q(n + 1)
      <4> SUFFICES ASSUME x < cum[n + 1]
                   PROVE  \E v \in 1..(n + 1) : cum[v - 1] =< x /\ x < cum[v]
        OBVIOUS
      <4>1. CASE x < cum[n]
        <5>1. PICK v \in 1..n : cum[v - 1] =< x /\ x < cum[v]
          BY <1>4, <2>2, <4>1, <1>0
        <5> QED BY <5>1
      <4>2. CASE ~(x < cum[n])
        <5>1. n + 1 \in 1..(n + 1) /\ (n + 1) - 1 = n /\ cum[n] =< x
          BY <1>1, <3>2, <4>2
        <5> QED BY <5>1
      <4> QED BY <4>1, <4>2
    <3> QED BY <3>3, <3>4
  <2> QED BY <1>0, <2>1, <2>2
<1>5. \A n \in Nat : Q(n) /\ M(n)
  <2> HIDE DEF Q, M
  <2>1. 0 \in S /\ \A n \in Nat : n \in S => n + 1 \in S
    BY <1>3, <1>4
  <2> HIDE DEF S
  <2>2. \A n \in Nat : n \in S
    BY <2>1, SetInduction
  <2> QED BY <2>2 DEF S
<1>6. PICK v \in Validator : cum[v - 1] =< x /\ x < cum[v]
  BY <1>0, <1>1, <1>5 DEF Validator, EffectiveStake, cum
<1>7. \A w \in Validator : SelectProposer(w, out, seed) <=> cum[w - 1] =< x /\ x < cum[w]
  BY DEF SelectProposer, cum, x
<1>8. ASSUME NEW w \in Validator, cum[w - 1] =< x, x < cum[w], w # v PROVE FALSE
  <2>1. /\ v \in 1..Len(Stake) /\ w \in 1..Len(Stake)
        /\ v - 1 \in 0..Len(Stake) /\ w - 1 \in 0..Len(Stake)
    BY <1>0 DEF Validator
  <2>2. cum[v - 1] \in Nat /\ cum[w - 1] \in Nat /\ cum[v] \in Nat /\ cum[w] \in Nat
    BY <1>2, <2>1
  <2>3. CASE v < w
    <3>1. v \in 0..(w - 1) /\ w - 1 \in Nat /\ w - 1 =< Len(Stake)
      BY <2>1, <2>3
    <3>2. cum[v] =< cum[w - 1]
      BY <1>5, <3>1
    <3> QED BY <1>1, <1>6, <1>8, <2>2, <3>2
  <2>4. CASE w < v
    <3>1. w \in 0..(v - 1) /\ v - 1 \in Nat /\ v - 1 =< Len(Stake)
      BY <2>1, <2>4
    <3>2. cum[w] =< cum[v - 1]
      BY <1>5, <3>1
    <3> QED BY <1>1, <1>6, <1>8, <2>2, <3>2
  <2> QED BY <1>8, <2>1, <2>3, <2>4
<1>9. v \notin out
  <2> SUFFICES ASSUME v \in out PROVE FALSE
    OBVIOUS
  <2>1. cum[v] = cum[v - 1]
    BY <1>2 DEF Validator
  <2>2. v - 1 \in 0..Len(Stake)
    BY <1>0 DEF Validator
  <2>3. cum[v - 1] \in Nat
    BY <1>2, <2>2
  <2> QED BY <1>1, <1>6, <2>1, <2>3
<1> QED BY <1>6, <1>7, <1>8, <1>9

-----------------------------------------------------------------------------
(* One attestation, then all attestations of a block.                      *)

Tally ==
    [attestedRound   : SUBSET [round : Nat, from : Validator, hash : Hash],
     checkpointStake : [Hash -> Nat],
     finalizedHash   : Hash,
     finalizedHeight : Nat,
     jailed          : SUBSET Validator]

Quorum(t) ==
    t.finalizedHash # NoHash =>
        t.checkpointStake[t.finalizedHash] * 3 >= EffectiveStake(t.jailed) * 2

(* t accounts for the votes in cast: P are the validators that evidence    *)
(* other than votes has jailed.                                            *)
Accounts(t, cast, P) ==
    /\ t \in Tally
    /\ Recorded(t, cast)
    /\ \A v \in t.jailed : v \in P \/ AttestedTwice(v, cast)
    /\ Quorum(t)

Extends(t, u) ==
    /\ u.finalizedHeight >= t.finalizedHeight
    /\ u.finalizedHash # t.finalizedHash => u.finalizedHeight > t.finalizedHeight
    /\ t.jailed \subseteq u.jailed

(* The vote recordAttestations files has the type of a registry entry.     *)
LEMMA VoteType ==
    ASSUME NEW a \in Attestation
    PROVE  /\ VoteOf(a) \in [round : Nat, from : Validator, hash : Hash]
           /\ VoteOf(a).round = CheckpointRound(a.height)
           /\ VoteOf(a).from = a.from /\ VoteOf(a).hash = a.hash
<1>1. a.height \in Nat /\ a.from \in Validator /\ a.hash \in Hash
  BY DEF Attestation
<1>2. CheckpointRound(a.height) \in Nat
  BY <1>1, IntervalAssumption DEF CheckpointRound
<1> QED BY <1>1, <1>2 DEF VoteOf

(* One pass of recordAttestations' loop keeps the accounts: its registry   *)
(* still matches the votes read so far, jailing stays backed by evidence,  *)
(* a finalized target keeps its two thirds, and jail and finality only     *)
(* advance.                                                                *)
LEMMA RecordOne ==
    ASSUME NEW t, NEW cast \in SUBSET Attestation, NEW P, NEW a \in Attestation,
           Accounts(t, cast, P)
    PROVE  /\ Accounts(recordAttestation(t, a), cast \cup {a}, P)
           /\ Extends(t, recordAttestation(t, a))
<1> DEFINE u == recordAttestation(t, a)
           vote == VoteOf(a)
           stake == t.checkpointStake[a.hash] + Stake[a.from]
<1>0. /\ t \in Tally /\ Recorded(t, cast) /\ Quorum(t)
      /\ \A v \in t.jailed : v \in P \/ AttestedTwice(v, cast)
  BY DEF Accounts
<1>1. /\ a.height \in Nat /\ a.from \in Validator /\ a.hash \in Hash
      /\ vote \in [round : Nat, from : Validator, hash : Hash]
      /\ vote.round = CheckpointRound(a.height) /\ vote.from = a.from /\ vote.hash = a.hash
  BY VoteType DEF Attestation
<1>2. Stake[a.from] \in Nat /\ stake \in Nat /\ stake >= t.checkpointStake[a.hash]
  BY <1>0, <1>1, StakeAssumption, SMTT(30) DEF Tally, Validator
<1>3. \A v : AttestedTwice(v, cast) => AttestedTwice(v, cast \cup {a})
  BY DEF AttestedTwice
<1> HIDE DEF vote
<1>4. CASE Voted(t, vote.round, a.from) /\ vote \in t.attestedRound
  <2>1. u = t
    BY <1>4 DEF recordAttestation, vote
  <2>2. Recorded(t, cast \cup {a})
    BY <1>0, <1>4 DEF Recorded, vote
  <2>3. t.finalizedHeight \in Nat
    BY <1>0 DEF Tally
  <2>4. Extends(t, t)
    BY <2>3 DEF Extends
  <2> QED BY <1>0, <1>3, <2>1, <2>2, <2>4, Zenon DEF Accounts
<1>5. CASE Voted(t, vote.round, a.from) /\ vote \notin t.attestedRound
  <2>1. u = [t EXCEPT !.jailed = @ \cup {a.from}]
    BY <1>5 DEF recordAttestation, vote
  <2>2. /\ u \in Tally /\ u.attestedRound = t.attestedRound
        /\ u.checkpointStake = t.checkpointStake /\ u.finalizedHash = t.finalizedHash
        /\ u.finalizedHeight = t.finalizedHeight /\ u.jailed = t.jailed \cup {a.from}
    BY <1>0, <1>1, <2>1 DEF Tally
  <2> HIDE DEF u
  <2>3. Recorded(u, cast \cup {a})
    BY <1>0, <2>2 DEF Recorded
  <2>4. AttestedTwice(a.from, cast \cup {a})
    <3>1. PICK r \in t.attestedRound : r.round = vote.round /\ r.from = a.from
      BY <1>5 DEF Voted
    <3>2. PICK c \in cast : r = VoteOf(c)
      BY <1>0 DEF Recorded
    <3>3. c.from = a.from /\ CheckpointRound(c.height) = CheckpointRound(a.height)
      BY <1>1, <3>1, <3>2, VoteType
    <3>4. c.hash # a.hash
      <4> SUFFICES ASSUME c.hash = a.hash PROVE r = vote
        BY <1>5
      <4> QED BY <3>2, <3>3 DEF VoteOf, vote
    <3> QED BY <3>3, <3>4 DEF AttestedTwice
  <2>5. Quorum(u)
    <3>1. EffectiveStake(u.jailed) =< EffectiveStake(t.jailed)
      BY <2>2, StakeAntitone
    <3>2. EffectiveStake(u.jailed) \in Nat /\ EffectiveStake(t.jailed) \in Nat
      BY EffectiveStakeNat
    <3>3. t.finalizedHash \in Hash /\ t.checkpointStake[t.finalizedHash] \in Nat
      BY <1>0 DEF Tally
    <3> QED BY <1>0, <2>2, <3>1, <3>2, <3>3 DEF Quorum
  <2>6. Extends(t, u)
    BY <1>0, <2>2 DEF Extends, Tally
  <2> QED BY <1>0, <1>3, <2>2, <2>3, <2>4, <2>5, <2>6 DEF Accounts, u
<1>6. CASE ~Voted(t, vote.round, a.from) /\ a.from \in t.jailed
  <2>1. u = t
    BY <1>6 DEF recordAttestation, vote
  <2>2. Recorded(t, cast \cup {a})
    BY <1>0, <1>6 DEF Recorded
  <2>3. t.finalizedHeight \in Nat
    BY <1>0 DEF Tally
  <2>4. Extends(t, t)
    BY <2>3 DEF Extends
  <2> QED BY <1>0, <1>3, <2>1, <2>2, <2>4, Zenon DEF Accounts
<1>7. CASE ~Voted(t, vote.round, a.from) /\ a.from \notin t.jailed
  <2> DEFINE final == Finalizes(t, a, stake)
  <2>1. u = [attestedRound   |-> t.attestedRound \cup {vote},
             checkpointStake |-> [t.checkpointStake EXCEPT ![a.hash] = stake],
             finalizedHash   |-> IF final THEN a.hash ELSE t.finalizedHash,
             finalizedHeight |-> IF final THEN a.height ELSE t.finalizedHeight,
             jailed          |-> t.jailed]
    BY <1>7 DEF recordAttestation, vote
  <2> HIDE DEF final
  <2>2. /\ u.attestedRound = t.attestedRound \cup {vote}
        /\ u.checkpointStake = [t.checkpointStake EXCEPT ![a.hash] = stake]
        /\ u.finalizedHash = IF final THEN a.hash ELSE t.finalizedHash
        /\ u.finalizedHeight = IF final THEN a.height ELSE t.finalizedHeight
        /\ u.jailed = t.jailed
    BY <2>1
  <2>3. u \in Tally
    <3>1. /\ t.attestedRound \in SUBSET [round : Nat, from : Validator, hash : Hash]
          /\ t.checkpointStake \in [Hash -> Nat] /\ t.finalizedHash \in Hash
          /\ t.finalizedHeight \in Nat /\ t.jailed \in SUBSET Validator
      BY <1>0 DEF Tally
    <3>2. [t.checkpointStake EXCEPT ![a.hash] = stake] \in [Hash -> Nat]
      BY <1>2, <3>1, Zenon
    <3>3. t.attestedRound \cup {vote} \in SUBSET [round : Nat, from : Validator, hash : Hash]
      BY <1>1, <3>1, Zenon
    <3> HIDE DEF stake
    <3> QED BY <1>1, <2>1, <3>1, <3>2, <3>3 DEF Tally
  <2> HIDE DEF u
  <2>4. Recorded(u, cast \cup {a})
    <3>1. \A r, s \in u.attestedRound : r.round = s.round /\ r.from = s.from => r = s
      BY <1>0, <1>1, <1>7, <2>2 DEF Recorded, Voted
    <3>2. \A r \in u.attestedRound : \E c \in cast \cup {a} : r = VoteOf(c)
      BY <1>0, <2>2 DEF Recorded, vote
    <3>3. \A c \in cast \cup {a} : VoteOf(c) \in u.attestedRound \/ c.from \in u.jailed
      BY <1>0, <2>2 DEF Recorded, vote
    <3> QED BY <3>1, <3>2, <3>3 DEF Recorded
  <2>5. Quorum(u)
    <3>1. EffectiveStake(t.jailed) \in Nat
      BY EffectiveStakeNat
    <3>2. /\ t.checkpointStake \in [Hash -> Nat] /\ t.finalizedHash \in Hash
          /\ u.checkpointStake[a.hash] = stake
          /\ \A h \in Hash : u.checkpointStake[h] >= t.checkpointStake[h]
      <4>1. t.checkpointStake \in [Hash -> Nat] /\ t.finalizedHash \in Hash
        BY <1>0 DEF Tally
      <4>2. \A h \in Hash : t.checkpointStake[h] >= t.checkpointStake[h]
        BY <4>1
      <4> QED BY <1>1, <1>2, <2>2, <4>1, <4>2
    <3>3. \A h \in Hash : u.checkpointStake[h] \in Nat /\ t.checkpointStake[h] \in Nat
      BY <1>0, <2>3 DEF Tally
    <3> HIDE DEF stake
    <3>4. CASE final
      BY <2>2, <3>1, <3>2, <3>4 DEF Quorum, final, Finalizes
    <3>5. CASE ~final
      BY <1>0, <2>2, <3>1, <3>2, <3>3, <3>5 DEF Quorum
    <3> QED BY <3>4, <3>5
  <2>6. Extends(t, u)
    BY <1>0, <1>1, <2>2 DEF Extends, Tally, final, Finalizes
  <2> QED BY <1>0, <1>3, <2>2, <2>3, <2>4, <2>5, <2>6, Zenon DEF Accounts, u
<1> QED BY <1>4, <1>5, <1>6, <1>7

(* The recursion over a block's attestations has a solution, and this is   *)
(* it.                                                                     *)
LEMMA TalliesDef ==
    ASSUME NEW b, Len(sealed[b].attestations) \in Nat
    PROVE  \A i \in 0..Len(sealed[b].attestations) :
              tallies(b)[i] =
                 IF i = 0 THEN tally
                 ELSE recordAttestation(tallies(b)[i - 1], sealed[b].attestations[i])
<1> DEFINE N == Len(sealed[b].attestations)
           F(g, i) == IF i = 0 THEN tally
                      ELSE recordAttestation(g[i - 1], sealed[b].attestations[i])
           Is(g, n) == g = [i \in 0..n |-> F(g, i)]
           Q(n) == \E g : Is(g, n)
           S == {n \in Nat : Q(n)}
<1>1. Q(0)
  <2>1. Is([i \in 0..0 |-> tally], 0)
    OBVIOUS
  <2> QED BY <2>1, Zenon
<1>2. ASSUME NEW n \in Nat, Q(n) PROVE Q(n + 1)
  <2>0. PICK g : Is(g, n)
    BY <1>2
  <2> DEFINE h == [i \in 0..(n + 1) |-> IF i = n + 1 THEN F(g, n + 1) ELSE g[i]]
  <2>1. ASSUME NEW i \in 0..(n + 1) PROVE h[i] = F(h, i)
    <3>1. CASE i = n + 1
      <4>1. h[i - 1] = g[i - 1]
        BY <3>1
      <4> QED BY <3>1, <4>1
    <3>2. CASE i # n + 1
      <4>1. i \in 0..n /\ h[i] = g[i]
        BY <3>2
      <4>2. g[i] = F(g, i)
        BY <2>0, <4>1
      <4>3. i # 0 => h[i - 1] = g[i - 1]
        BY <4>1
      <4> QED BY <4>1, <4>2, <4>3
    <3> QED BY <3>1, <3>2
  <2>2. Is(h, n + 1)
    BY <2>1
  <2> QED BY <2>2, Zenon
<1>3. Q(N)
  <2> HIDE DEF Q, N
  <2>1. 0 \in S /\ \A n \in Nat : n \in S => n + 1 \in S
    BY <1>1, <1>2
  <2> HIDE DEF S
  <2>2. N \in S
    BY <2>1, SetInduction, Zenon DEF N
  <2> QED BY <2>2 DEF S
<1>4. tallies(b) = [i \in 0..N |-> F(tallies(b), i)]
  BY <1>3, Zenon DEF tallies
<1> QED BY <1>4, Zenon

(* The whole loop of recordAttestations keeps what one pass of it keeps.   *)
LEMMA RecordAll ==
    ASSUME NEW b, sealed[b].attestations \in Seq(Attestation),
           NEW cast \in SUBSET Attestation, NEW P, Accounts(tally, cast, P)
    PROVE  LET votes == sealed[b].attestations
               t     == recordAttestations(b)
           IN  /\ Accounts(t, cast \cup {votes[i] : i \in 1..Len(votes)}, P)
               /\ Extends(tally, t)
<1> DEFINE votes == sealed[b].attestations
           Upto(n) == cast \cup {votes[i] : i \in 1..n}
           Q(n) == n =< Len(votes) => /\ Accounts(tallies(b)[n], Upto(n), P)
                                      /\ Extends(tally, tallies(b)[n])
           S == {n \in Nat : Q(n)}
<1>0. Len(votes) \in Nat /\ \A i \in 1..Len(votes) : votes[i] \in Attestation
  OBVIOUS
<1>1. Q(0)
  <2>1. 0 \in 0..Len(votes)
    BY <1>0
  <2>2. tallies(b)[0] = tally
    BY <1>0, <2>1, TalliesDef
  <2>3. Upto(0) = cast
    OBVIOUS
  <2>4. Extends(tally, tally)
    BY DEF Extends, Accounts, Tally
  <2> QED BY <2>2, <2>3, <2>4, Zenon
<1>2. ASSUME NEW n \in Nat, Q(n) PROVE Q(n + 1)
  <2> SUFFICES ASSUME n + 1 =< Len(votes)
               PROVE  /\ Accounts(tallies(b)[n + 1], Upto(n + 1), P)
                      /\ Extends(tally, tallies(b)[n + 1])
    OBVIOUS
  <2> DEFINE t == tallies(b)[n]
             u == tallies(b)[n + 1]
  <2>1. n + 1 \in 0..Len(votes) /\ n + 1 \in 1..Len(votes)
    BY <1>0
  <2>2. u = recordAttestation(t, votes[n + 1])
    BY <1>0, <2>1, TalliesDef
  <2>3. Accounts(t, Upto(n), P) /\ Extends(tally, t)
    BY <1>0, <1>2
  <2>4. Upto(n) \in SUBSET Attestation /\ votes[n + 1] \in Attestation
    BY <1>0, <2>1
  <2>5. Upto(n + 1) = Upto(n) \cup {votes[n + 1]}
    BY <2>1
  <2> HIDE DEF t, u, Upto, votes
  <2>6. Accounts(u, Upto(n) \cup {votes[n + 1]}, P) /\ Extends(t, u)
    BY <2>2, <2>3, <2>4, RecordOne
  <2>7. t \in Tally /\ u \in Tally /\ tally \in Tally
    BY <2>3, <2>6 DEF Accounts
  <2>8. Extends(tally, u)
    BY <2>3, <2>6, <2>7, SMTT(30) DEF Extends, Tally
  <2> QED BY <2>5, <2>6, <2>8, Zenon DEF u
<1>3. Q(Len(votes))
  <2> HIDE DEF Q, votes
  <2>1. 0 \in S /\ \A n \in Nat : n \in S => n + 1 \in S
    BY <1>1, <1>2
  <2> HIDE DEF S
  <2>2. Len(votes) \in S
    BY <1>0, <2>1, SetInduction, Zenon
  <2> QED BY <2>2 DEF S
<1>4. Len(votes) =< Len(votes)
  BY <1>0
<1> QED BY <1>3, <1>4, Zenon DEF recordAttestations

-----------------------------------------------------------------------------
(* The inductive invariant.                                                *)

Inv == TreeInv /\ EvidenceInv /\ TalliedQuorum

(* The tree invariant gives what the lemmas about branches assume.         *)
LEMMA TreeIsLinked ==
    ASSUME TreeInv PROVE IsTable(sealed) /\ Linked(blocks)
BY DEF TreeInv, TypeOK, Rooted, Linked

(* NewChainWithAlloc establishes the tree invariant.                       *)
LEMMA InitTree == Init => TreeInv
<1> SUFFICES ASSUME Init PROVE TreeInv
  OBVIOUS
<1>1. IsTable(sealed)
  BY DEF Init
<1>2. chainTo[Genesis] = {Genesis}
  BY <1>1, TableTypes, ChainToDef, Zenon
<1>3. HeadViews
  BY <1>2 DEF Init, HeadViews
<1>4. Rooted /\ HeaviestHead
  <2>1. sealed[Genesis].difficulty \in Nat /\ Genesis \in BlockHash
    BY <1>1, TableTypes
  <2>2. td[Genesis] \in Nat /\ td[Genesis] = sealed[Genesis].difficulty
    BY <2>1 DEF Init
  <2> QED BY <2>2 DEF Init, Rooted, HeaviestHead
<1>5. TypeOK
  <2>1. td \in [BlockHash -> Nat]
    BY <1>1, TableTypes DEF Init
  <2>2. DOMAIN heightIndex \subseteq Nat /\ \A h \in DOMAIN heightIndex : heightIndex[h] \in blocks
    <3>1. Linked(blocks)
      BY <1>1, TableTypes DEF Init, Linked
    <3>2. LET index == rebuildIndex(chainTo[Genesis]) IN
          /\ DOMAIN index = 0..sealed[Genesis].height
          /\ \A h \in DOMAIN index : index[h] \in chainTo[Genesis]
      BY <1>1, <3>1, IndexIsBranch DEF Init
    <3>3. heightIndex = rebuildIndex(chainTo[Genesis]) /\ chainTo[Genesis] = blocks
      BY <1>2, <1>3 DEF HeadViews, Init
    <3>4. 0..sealed[Genesis].height \subseteq Nat
      BY <1>1, TableTypes
    <3> QED BY <3>2, <3>3, <3>4
  <2>3. checkpointStake \in [Hash -> Nat] /\ finalizedHash \in Hash /\ finalizedHeight \in Nat
    BY DEF Init, Hash, NoHash
  <2> QED BY <1>1, <2>1, <2>2, <2>3, TableTypes, Zenon DEF Init, TypeOK
<1> QED BY <1>3, <1>4, <1>5 DEF TreeInv, Init

(* NewChainWithAlloc establishes the evidence invariant.                   *)
LEMMA InitEvidence == Init => EvidenceInv /\ TalliedQuorum
<1> SUFFICES ASSUME Init PROVE EvidenceInv /\ TalliedQuorum
  OBVIOUS
<1>1. blocks \ {Genesis} = {} /\ CastVotes = {}
  BY DEF Init, CastVotes
<1>2. Recorded(tally, CastVotes)
  BY <1>1 DEF Init, Recorded, tally
<1>3. ProposalsRecorded
  BY <1>1 DEF Init, ProposalsRecorded
<1>4. JailedHasEvidence /\ TalliedQuorum
  BY DEF Init, JailedHasEvidence, TalliedQuorum
<1> QED BY <1>2, <1>3, <1>4 DEF EvidenceInv, Init

(* The walks do not change while the table does not.                       *)
LEMMA ChainToStable == sealed' = sealed => chainTo' = chainTo
BY DEF chainTo

(* The attestations in accepted blocks are attestations.                   *)
LEMMA CastVotesType ==
    ASSUME IsTable(sealed), blocks \subseteq DOMAIN sealed
    PROVE  CastVotes \subseteq Attestation
<1> SUFFICES ASSUME NEW b \in blocks, NEW i \in 1..Len(sealed[b].attestations)
             PROVE  sealed[b].attestations[i] \in Attestation
  BY DEF CastVotes
<1>1. sealed[b].attestations \in Seq(Attestation)
  BY TableTypes
<1> QED BY <1>1

(* The tallies a PoS node commits with a block account for its votes too.  *)
LEMMA TallyTyped ==
    ASSUME TreeInv, EvidenceInv, TalliedQuorum, Mode = "PoS", NEW b \in DOMAIN sealed
    PROVE  LET votes == sealed[b].attestations IN
           /\ Accounts(recordAttestations(b),
                       CastVotes \cup {votes[i] : i \in 1..Len(votes)},
                       {v \in Validator : DoublePropose(v)})
           /\ Extends(tally, recordAttestations(b))
<1> DEFINE P == {v \in Validator : DoublePropose(v)}
<1>1. IsTable(sealed) /\ TypeOK /\ CastVotes \in SUBSET Attestation
  BY TreeIsLinked, CastVotesType DEF TreeInv, TypeOK
<1>2. sealed[b].attestations \in Seq(Attestation)
  BY <1>1, TableTypes
<1>3. Accounts(tally, CastVotes, P)
  <2>1. tally \in Tally
    BY <1>1 DEF TypeOK, tally, Tally
  <2>2. Recorded(tally, CastVotes) /\ JailedHasEvidence
    BY DEF EvidenceInv
  <2>3. \A v \in tally.jailed : v \in P \/ AttestedTwice(v, CastVotes)
    BY <1>1, <2>2 DEF JailedHasEvidence, DoubleAttest, tally, TypeOK
  <2>4. Quorum(tally)
    BY DEF TalliedQuorum, Quorum, tally
  <2> QED BY <2>1, <2>2, <2>3, <2>4 DEF Accounts
<1> HIDE DEF P
<1>4. QED BY <1>1, <1>2, <1>3, RecordAll DEF P

(* AddBlock preserves the tree invariant.                                  *)
LEMMA StepTree == Inv /\ [Next]_vars => TreeInv'
<1> SUFFICES ASSUME TreeInv, EvidenceInv, TalliedQuorum, [Next]_vars PROVE TreeInv'
  BY DEF Inv
<1>0. IsTable(sealed) /\ Linked(blocks) /\ TypeOK
  BY TreeIsLinked DEF TreeInv
<1>1. ASSUME NEW b \in 2..Len(sealed), AddBlock(b) PROVE TreeInv'
  <2> DEFINE p == sealed[b].prev
  <2>1. /\ sealed' = sealed /\ blocks' = blocks \cup {b} /\ b \notin blocks /\ p \in blocks
        /\ sealed[b].height = sealed[p].height + 1
        /\ td' = [td EXCEPT ![b] = td[p] + weight(b)]
    BY <1>1 DEF AddBlock, IsValid
  <2>2. /\ b \in DOMAIN sealed /\ b \in BlockHash /\ blocks \subseteq BlockHash
        /\ b # Genesis /\ Genesis \in blocks /\ weight(b) \in Nat /\ td \in [BlockHash -> Nat]
    BY <1>0, TableTypes DEF weight, Genesis, TypeOK, TreeInv
  <2>3. td[p] \in Nat /\ td' \in [BlockHash -> Nat] /\ td'[b] = td[p] + weight(b)
    <3>1. p \in BlockHash
      BY <2>1, <2>2, Zenon
    <3>2. td[p] \in Nat
      BY <2>2, <3>1, Zenon
    <3>3. td[p] + weight(b) \in Nat
      <4>1. weight(b) \in Nat
        BY <2>2
      <4> QED BY <3>2, <4>1
    <3> QED BY <2>1, <2>2, <3>2, <3>3, Zenon
  <2>4. \A c \in blocks : td'[c] = td[c] /\ td[c] \in Nat
    BY <2>1, <2>2
  <2>5. Linked(blocks')
    BY <1>0, <2>1, <2>2 DEF Linked
  <2>6. chainTo' = chainTo
    BY <2>1, ChainToStable
  <2>7. Rooted'
    <3>1. td'[Genesis] = sealed'[Genesis].difficulty
      BY <2>1, <2>2, <2>4 DEF Rooted, TreeInv
    <3>2. ASSUME NEW c \in blocks' \ {Genesis}
          PROVE  /\ sealed[c].prev \in blocks'
                 /\ sealed[c].height = sealed[sealed[c].prev].height + 1
                 /\ td'[c] = td'[sealed[c].prev] + weight(c)
      <4>1. CASE c = b
        <5>1. td'[p] = td[p]
          BY <2>1, <2>4
        <5> QED BY <2>1, <2>3, <4>1, <5>1
      <4>2. CASE c # b
        <5>1. c \in blocks \ {Genesis}
          BY <2>1, <4>2
        <5>2. /\ sealed[c].prev \in blocks
              /\ sealed[c].height = sealed[sealed[c].prev].height + 1
              /\ td[c] = td[sealed[c].prev] + weight(c)
          BY <5>1, Zenon DEF TreeInv, Rooted
        <5> QED BY <2>1, <2>4, <5>1, <5>2
      <4> QED BY <4>1, <4>2
    <3>3. \A c : weight(c)' = weight(c)
      BY <2>1 DEF weight
    <3> QED BY <2>1, <3>1, <3>2, <3>3 DEF Rooted
  <2>8. head' \in blocks' /\ HeaviestHead'
    <3>1. head \in blocks /\ \A c \in blocks : td[c] =< td[head]
      BY DEF TreeInv, HeaviestHead, TypeOK
    <3>2. CASE td'[b] > td[head]
      <4>1. head' = b
        BY <1>1, <3>2 DEF AddBlock, Reorg
      <4>2. ASSUME NEW c \in blocks PROVE td'[c] =< td'[b]
        <5>1. /\ td'[c] = td[c] /\ td[c] \in Nat /\ td[head] \in Nat
              /\ td[c] =< td[head]
          BY <2>4, <3>1, Zenon
        <5>2. td'[b] \in Nat
          BY <2>2, <2>3
        <5> QED BY <3>2, <5>1, <5>2
      <4>3. td'[b] =< td'[b]
        BY <2>2, <2>3
      <4>4. \A c \in blocks \cup {b} : td'[c] =< td'[b]
        BY <4>2, <4>3, Zenon
      <4> QED BY <2>1, <4>1, <4>4, Zenon DEF HeaviestHead
    <3>3. CASE ~(td'[b] > td[head])
      <4>1. head' = head
        BY <1>1, <3>3 DEF AddBlock, Reorg
      <4>2. td'[head] = td[head] /\ td[head] \in Nat /\ td'[b] \in Nat
        BY <2>2, <2>3, <2>4, <3>1
      <4>3. td'[b] =< td'[head]
        BY <3>3, <4>2
      <4>4. \A c \in blocks : td'[c] =< td'[head]
        BY <2>4, <3>1, <4>2, Zenon
      <4>5. \A c \in blocks \cup {b} : td'[c] =< td'[head]
        BY <4>3, <4>4, Zenon
      <4> QED BY <2>1, <3>1, <4>1, <4>5, Zenon DEF HeaviestHead
    <3> QED BY <3>2, <3>3
  <2>9. HeadViews'
    <3>1. CASE td'[b] > td[head]
      <4>1. head' = b /\ headState' = chainTo[b] /\ heightIndex' = rebuildIndex(chainTo[b])
        BY <1>1, <3>1 DEF AddBlock, Reorg
      <4> QED BY <2>1, <2>6, <4>1 DEF HeadViews, rebuildIndex
    <3>2. CASE ~(td'[b] > td[head])
      <4>1. head' = head /\ headState' = headState /\ heightIndex' = heightIndex
        BY <1>1, <3>2 DEF AddBlock, Reorg
      <4> QED BY <2>1, <2>6, <4>1 DEF HeadViews, rebuildIndex, TreeInv
    <3> QED BY <3>1, <3>2
  <2>10. /\ headState' \subseteq blocks' /\ DOMAIN heightIndex' \subseteq Nat
         /\ \A h \in DOMAIN heightIndex' : heightIndex'[h] \in blocks'
    <3>1. headState' = chainTo[head'] /\ heightIndex' = rebuildIndex(chainTo[head'])
      BY <2>1, <2>6, <2>9 DEF HeadViews, rebuildIndex
    <3>2. chainTo[head'] \subseteq blocks'
      BY <1>0, <2>5, <2>8, BranchIsPath DEF Branch
    <3>3. /\ DOMAIN rebuildIndex(chainTo[head']) = 0..sealed[head'].height
          /\ \A h \in DOMAIN rebuildIndex(chainTo[head']) :
                rebuildIndex(chainTo[head'])[h] \in chainTo[head']
      BY <1>0, <2>5, <2>8, IndexIsBranch
    <3>4. sealed[head'].height \in Nat
      BY <1>0, <2>5, <2>8, TableTypes DEF Linked
    <3> QED BY <3>1, <3>2, <3>3, <3>4
  <2>11. /\ attestedRound' \subseteq [round : Nat, from : Validator, hash : Hash]
         /\ checkpointStake' \in [Hash -> Nat] /\ finalizedHash' \in Hash
         /\ finalizedHeight' \in Nat /\ jailed' \subseteq Validator
         /\ proposedAtHeight' \subseteq [prev : Hash, from : Validator, hash : BlockHash]
    <3>1. CASE Mode # "PoS"
      BY <1>0, <1>1, <3>1 DEF AddBlock, Finality, TypeOK
    <3>2. CASE Mode = "PoS"
      <4> DEFINE t == recordAttestations(b)
      <4>1. t \in Tally
        <5>1. Accounts(t, CastVotes \cup {sealed[b].attestations[i] :
                                            i \in 1..Len(sealed[b].attestations)},
                       {v \in Validator : DoublePropose(v)})
          BY <2>2, <3>2, TallyTyped, Zenon
        <5> QED BY <5>1, Zenon DEF Accounts
      <4>2. /\ attestedRound' = t.attestedRound /\ checkpointStake' = t.checkpointStake
            /\ finalizedHash' = t.finalizedHash /\ finalizedHeight' = t.finalizedHeight
            /\ jailed' = t.jailed \cup Equivocators(b)
            /\ proposedAtHeight' = IF Proposed(b) THEN proposedAtHeight
                                   ELSE proposedAtHeight \cup {Proposal(b)}
        BY <1>1, <3>2 DEF AddBlock, Finality
      <4>3. Equivocators(b) \subseteq Validator
        BY <1>0, <2>2, TableTypes DEF Equivocators
      <4>4. Proposal(b) \in [prev : Hash, from : Validator, hash : BlockHash]
        BY <1>0, <2>2, TableTypes, Zenon DEF Proposal
      <4> HIDE DEF t
      <4> QED BY <1>0, <4>1, <4>2, <4>3, <4>4 DEF Tally, TypeOK
    <3> QED BY <3>1, <3>2
  <2>12. TypeOK'
    <3>1. IsTable(sealed)' /\ blocks' \subseteq DOMAIN sealed'
      BY <1>0, <2>1, <2>2, Zenon DEF IsTable, TypeOK
    <3> QED BY <2>3, <2>8, <2>10, <2>11, <3>1, Zenon DEF TypeOK
  <2> QED BY <2>1, <2>2, <2>7, <2>8, <2>9, <2>12 DEF TreeInv
<1>2. CASE UNCHANGED vars
  <2>1. chainTo' = chainTo
    BY <1>2, ChainToStable DEF vars
  <2>2. TypeOK' /\ Genesis \in blocks'
    BY <1>2, Zenon DEF vars, TreeInv, TypeOK
  <2>3. Rooted'
    BY <1>2 DEF vars, TreeInv, Rooted, weight
  <2>4. HeaviestHead'
    BY <1>2 DEF vars, TreeInv, HeaviestHead
  <2>5. HeadViews'
    <3>1. /\ sealed' = sealed /\ head' = head /\ headState' = headState
          /\ heightIndex' = heightIndex
      BY <1>2 DEF vars
    <3>2. HeadViews
      BY DEF TreeInv
    <3> QED BY <2>1, <3>1, <3>2 DEF HeadViews, rebuildIndex
  <2> QED BY <2>2, <2>3, <2>4, <2>5 DEF TreeInv
<1> QED BY <1>1, <1>2 DEF Next

(* AddBlock preserves the evidence invariant and the quorum of what is     *)
(* finalized.                                                              *)
LEMMA StepEvidence == Inv /\ [Next]_vars => EvidenceInv' /\ TalliedQuorum'
<1> SUFFICES ASSUME TreeInv, EvidenceInv, TalliedQuorum, [Next]_vars
             PROVE  EvidenceInv' /\ TalliedQuorum'
  BY DEF Inv
<1>0. IsTable(sealed) /\ Linked(blocks) /\ TypeOK
  BY TreeIsLinked DEF TreeInv
<1>1. ASSUME NEW b \in 2..Len(sealed), AddBlock(b), Mode = "PoS"
      PROVE  EvidenceInv' /\ TalliedQuorum'
  <2> DEFINE t == recordAttestations(b)
             votes == sealed[b].attestations
             cast == CastVotes \cup {votes[i] : i \in 1..Len(votes)}
  <2>1. /\ sealed' = sealed /\ blocks' = blocks \cup {b} /\ b \notin blocks
        /\ b \in DOMAIN sealed /\ b # Genesis
    <3>1. sealed' = sealed /\ blocks' = blocks \cup {b} /\ b \notin blocks
      BY <1>1, Zenon DEF AddBlock, IsValid
    <3>2. b \in DOMAIN sealed /\ b # Genesis
      BY <1>0, TableTypes DEF Genesis
    <3> QED BY <3>1, <3>2
  <2>2. /\ attestedRound' = t.attestedRound /\ checkpointStake' = t.checkpointStake
        /\ finalizedHash' = t.finalizedHash /\ finalizedHeight' = t.finalizedHeight
        /\ jailed' = t.jailed \cup Equivocators(b)
        /\ proposedAtHeight' = IF Proposed(b) THEN proposedAtHeight
                               ELSE proposedAtHeight \cup {Proposal(b)}
    <3>1. Finality(b)
      BY <1>1, Zenon DEF AddBlock
    <3> QED BY <1>1, <3>1, Zenon DEF Finality
  <2>3. /\ Accounts(t, cast, {v \in Validator : DoublePropose(v)})
        /\ Extends(tally, t)
    BY <1>1, <2>1, TallyTyped, Zenon
  <2>4. CastVotes' = cast
    BY <2>1 DEF CastVotes
  <2> HIDE DEF t, cast, votes
  <2>5. Recorded(tally', cast)
    BY <2>2, <2>3, Zenon DEF Accounts, Recorded, tally
  <2>6. ProposalsRecorded /\ jailed \subseteq t.jailed
    BY <1>1, <2>3, Zenon DEF EvidenceInv, Extends, tally
  <2>7. Proposal(b).prev = sealed[b].prev /\ Proposal(b).from = sealed[b].coinbase
        /\ Proposal(b).hash = b
    BY DEF Proposal
  <2>8. \A c : Proposal(c)' = Proposal(c)
    BY <2>1 DEF Proposal
  <2>9. ProposalsRecorded'
    <3>1. \A p, q \in proposedAtHeight' : p.prev = q.prev /\ p.from = q.from => p = q
      BY <2>2, <2>6, <2>7 DEF ProposalsRecorded, Proposed
    <3>2. \A p \in proposedAtHeight' : p.hash \in blocks' \ {Genesis} /\ p = Proposal(p.hash)
      BY <2>1, <2>2, <2>6, <2>7 DEF ProposalsRecorded
    <3>3. \A c \in blocks' \ {Genesis} :
             Proposal(c) \in proposedAtHeight' \/ sealed[c].coinbase \in jailed'
      BY <2>1, <2>2, <2>6 DEF ProposalsRecorded, Equivocators
    <3> QED BY <2>1, <2>8, <3>1, <3>2, <3>3 DEF ProposalsRecorded, Proposal
  <2>10. JailedHasEvidence'
    <3> SUFFICES ASSUME NEW v \in jailed' PROVE DoublePropose(v)' \/ DoubleAttest(v)'
      BY DEF JailedHasEvidence
    <3>1. DoublePropose(v) => DoublePropose(v)'
      BY <2>1 DEF DoublePropose
    <3>2. AttestedTwice(v, cast) => DoubleAttest(v)'
      BY <2>4 DEF DoubleAttest, AttestedTwice, CheckpointRound
    <3>3. CASE v \in t.jailed
      BY <2>3, <3>1, <3>2, <3>3, Zenon DEF Accounts
    <3>4. CASE v \in Equivocators(b)
      <4>1. v = sealed[b].coinbase /\ Proposed(b)
        BY <3>4 DEF Equivocators
      <4>2. PICK p \in proposedAtHeight : p.prev = sealed[b].prev /\ p.from = v
        BY <4>1 DEF Proposed
      <4>3. p.hash \in blocks \ {Genesis} /\ p = Proposal(p.hash)
        BY <2>6, <4>2 DEF ProposalsRecorded
      <4>4. sealed[p.hash].prev = sealed[b].prev /\ sealed[p.hash].coinbase = v /\ p.hash # b
        BY <2>1, <4>2, <4>3 DEF Proposal
      <4> QED BY <2>1, <4>1, <4>3, <4>4 DEF DoublePropose
    <3> QED BY <2>2, <3>3, <3>4
  <2>11. TalliedQuorum'
    <3>1. EffectiveStake(jailed') =< EffectiveStake(t.jailed)
      BY <2>2, StakeAntitone
    <3>2. EffectiveStake(jailed') \in Nat /\ EffectiveStake(t.jailed) \in Nat
      BY EffectiveStakeNat
    <3>3. t \in Tally /\ Quorum(t)
      BY <2>3 DEF Accounts
    <3>4. t.checkpointStake[t.finalizedHash] \in Nat
      BY <3>3 DEF Tally
    <3>5. finalizedHash' # NoHash =>
             checkpointStake'[finalizedHash'] * 3 >= EffectiveStake(jailed') * 2
      BY <2>2, <3>1, <3>2, <3>3, <3>4, SMTT(30) DEF Quorum
    <3> QED BY <3>5 DEF TalliedQuorum, EffectiveStake, cumulativeStake
  <2> QED BY <1>1, <2>4, <2>5, <2>9, <2>10, <2>11
          DEF EvidenceInv, Recorded, VoteOf, CheckpointRound
<1>2. ASSUME NEW b \in 2..Len(sealed), AddBlock(b), Mode # "PoS"
      PROVE  EvidenceInv' /\ TalliedQuorum'
  <2>1. UNCHANGED <<checkpointStake, finalizedHash, jailed>>
    BY <1>2 DEF AddBlock, Finality
  <2> QED BY <1>2, <2>1, ModeAssumption
          DEF EvidenceInv, TalliedQuorum, EffectiveStake, cumulativeStake
<1>3. CASE UNCHANGED vars
  <2>1. tally' = tally /\ CastVotes' = CastVotes /\ sealed' = sealed /\ blocks' = blocks
    <3>1. /\ sealed' = sealed /\ blocks' = blocks /\ attestedRound' = attestedRound
          /\ checkpointStake' = checkpointStake /\ finalizedHash' = finalizedHash
          /\ finalizedHeight' = finalizedHeight /\ jailed' = jailed
      BY <1>3 DEF vars
    <3>2. tally' = tally
      BY <3>1, Zenon DEF tally
    <3>3. CastVotes' = CastVotes
      BY <3>1 DEF CastVotes
    <3> QED BY <3>1, <3>2, <3>3
  <2>2. ProposalsRecorded => ProposalsRecorded'
    BY <1>3 DEF vars, ProposalsRecorded, Proposal
  <2>3. JailedHasEvidence => JailedHasEvidence'
    <3>1. jailed' = jailed
      BY <1>3 DEF vars
    <3>2. \A v : DoublePropose(v)' <=> DoublePropose(v)
      BY <2>1 DEF DoublePropose
    <3>3. \A v : DoubleAttest(v)' <=> DoubleAttest(v)
      BY <2>1 DEF DoubleAttest, AttestedTwice, CheckpointRound
    <3> QED BY <3>1, <3>2, <3>3, Zenon DEF JailedHasEvidence
  <2>4. Recorded(tally, CastVotes) => Recorded(tally, CastVotes)'
    BY <2>1 DEF Recorded, VoteOf, CheckpointRound
  <2>5. TalliedQuorum'
    BY <1>3 DEF vars, TalliedQuorum, EffectiveStake, cumulativeStake
  <2> QED BY <1>3, <2>2, <2>3, <2>4, <2>5 DEF EvidenceInv, vars
<1> QED BY <1>1, <1>2, <1>3 DEF Next

(* The inductive invariant holds throughout.                               *)
LEMMA Invariance == Spec => []Inv
<1>1. Init => Inv
  BY InitTree, InitEvidence DEF Inv
<1>2. Inv /\ [Next]_vars => Inv'
  BY StepTree, StepEvidence DEF Inv
<1> QED BY <1>1, <1>2, PTL DEF Spec

-----------------------------------------------------------------------------
(* The results.                                                            *)

(* The chain's fields keep their types.                                    *)
THEOREM TypeCorrect == Spec => []TypeOK
<1>1. Inv => TypeOK
  BY DEF Inv, TreeInv
<1> QED BY <1>1, Invariance, PTL

(* AddBlock, comparing each new block with the head only, keeps the head a *)
(* heaviest block of all it has accepted.                                  *)
THEOREM ForkChoice == Spec => [](Rooted /\ HeaviestHead)
<1>1. Inv => Rooted /\ HeaviestHead
  BY DEF Inv, TreeInv
<1> QED BY <1>1, Invariance, PTL

(* The height index and the state of a consistent tree are those of the    *)
(* one path from genesis to the head.                                      *)
LEMMA TreeHasIndex ==
    ASSUME TreeInv PROVE CanonicalIndex
<1>1. /\ IsTable(sealed) /\ Linked(blocks) /\ head \in blocks
      /\ headState = chainTo[head] /\ heightIndex = rebuildIndex(chainTo[head])
  BY TreeIsLinked, Zenon DEF TreeInv, TypeOK, HeadViews
<1>2. /\ DOMAIN heightIndex = 0..sealed[head].height
      /\ \A h \in DOMAIN heightIndex :
            heightIndex[h] \in chainTo[head] /\ sealed[heightIndex[h]].height = h
      /\ \A a \in chainTo[head] : heightIndex[sealed[a].height] = a
  BY <1>1, IndexIsBranch
<1>3. /\ head \in DOMAIN sealed /\ head \in chainTo[head] /\ Genesis \in chainTo[head]
      /\ sealed[Genesis].height = 0 /\ Branch(blocks, head)
      /\ \A a \in blocks : sealed[a].height \in Nat
  BY <1>1, ChainToRange, BranchIsPath, TableTypes DEF Linked
<1>4. heightIndex[0] = Genesis /\ heightIndex[sealed[head].height] = head
  BY <1>2, <1>3
<1>5. \A h \in 1..sealed[head].height : sealed[heightIndex[h]].prev = heightIndex[h - 1]
  <2> TAKE h \in 1..sealed[head].height
  <2>0. h \in 0..sealed[head].height
    OBVIOUS
  <2>1. /\ h \in DOMAIN heightIndex /\ heightIndex[h] \in chainTo[head]
        /\ sealed[heightIndex[h]].height = h
    BY <1>2, <2>0, Zenon
  <2>2. heightIndex[h] \in blocks \ {Genesis}
    <3>1. heightIndex[h] \in blocks
      BY <1>3, <2>1, Zenon DEF Branch
    <3>2. h # 0
      OBVIOUS
    <3>3. heightIndex[h] # Genesis
      BY <1>3, <2>1, <3>2, Zenon
    <3> QED BY <3>1, <3>3, Zenon
  <2>3. /\ sealed[heightIndex[h]].prev \in chainTo[head]
        /\ h = sealed[sealed[heightIndex[h]].prev].height + 1
        /\ sealed[sealed[heightIndex[h]].prev].height \in Nat
    BY <1>1, <1>3, <2>1, <2>2, Zenon DEF Branch, Linked
  <2>4. sealed[sealed[heightIndex[h]].prev].height = h - 1
    BY <2>3
  <2>5. heightIndex[sealed[sealed[heightIndex[h]].prev].height] = sealed[heightIndex[h]].prev
    BY <1>2, <2>3, Zenon
  <2> QED BY <2>4, <2>5, Zenon
<1>6. headState = {heightIndex[h] : h \in DOMAIN heightIndex}
  <2>1. \A a \in chainTo[head] : sealed[a].height \in DOMAIN heightIndex
    <3> TAKE a \in chainTo[head]
    <3>1. sealed[a].height \in Nat /\ sealed[head].height \in Nat
      BY <1>1, <1>3, Zenon DEF Branch
    <3>2. a # head => sealed[a].height < sealed[head].height
      BY <1>3, Zenon DEF Branch
    <3>3. sealed[a].height =< sealed[head].height
      BY <3>1, <3>2
    <3>4. sealed[a].height \in 0..sealed[head].height
      BY <3>1, <3>3
    <3> QED BY <1>2, <3>4, Zenon
  <2> QED BY <1>1, <1>2, <2>1
<1> QED BY <1>2, <1>4, <1>5, <1>6 DEF CanonicalIndex

(* After every reorg the height index and the state are those of the one   *)
(* path from genesis to the head.                                          *)
THEOREM IndexIsCanonical == Spec => []CanonicalIndex
<1>1. Inv => CanonicalIndex
  BY TreeHasIndex DEF Inv
<1> QED BY <1>1, Invariance, PTL

(* A PoS node jails exactly the validators that equivocated in the blocks  *)
(* it has accepted, so what it holds against a validator depends on the    *)
(* set of accepted blocks and not on their order.                          *)
THEOREM JailIsEvidence == Spec => []JailedIffEvidence
<1>1. Inv => JailedIffEvidence
  <2> SUFFICES ASSUME Inv, Mode = "PoS", NEW v \in Validator
               PROVE  v \in jailed <=> DoublePropose(v) \/ DoubleAttest(v)
    BY DEF JailedIffEvidence
  <2>0. /\ Recorded(tally, CastVotes) /\ ProposalsRecorded /\ JailedHasEvidence
        /\ CastVotes \subseteq Attestation
    BY TreeIsLinked, CastVotesType, Zenon DEF Inv, EvidenceInv, TreeInv, TypeOK
  <2>1. ASSUME DoublePropose(v), v \notin jailed PROVE FALSE
    <3>1. PICK b, c \in blocks \ {Genesis} :
             /\ b # c /\ sealed[b].prev = sealed[c].prev
             /\ sealed[b].coinbase = v /\ sealed[c].coinbase = v
      BY <2>1 DEF DoublePropose
    <3>2. Proposal(b) \in proposedAtHeight /\ Proposal(c) \in proposedAtHeight
      BY <2>0, <2>1, <3>1 DEF ProposalsRecorded
    <3>3. Proposal(b) = Proposal(c)
      BY <2>0, <3>1, <3>2 DEF ProposalsRecorded, Proposal
    <3> QED BY <3>1, <3>3 DEF Proposal
  <2>2. ASSUME DoubleAttest(v), v \notin jailed PROVE FALSE
    <3>1. PICK x, y \in CastVotes :
             /\ x.from = v /\ y.from = v /\ x.hash # y.hash
             /\ CheckpointRound(x.height) = CheckpointRound(y.height)
      BY <2>2 DEF DoubleAttest, AttestedTwice
    <3>2. VoteOf(x) \in attestedRound /\ VoteOf(y) \in attestedRound
      BY <2>0, <2>2, <3>1 DEF Recorded, tally
    <3>3. VoteOf(x) = VoteOf(y)
      <4>1. VoteOf(x).round = VoteOf(y).round /\ VoteOf(x).from = VoteOf(y).from
        BY <2>0, <3>1, VoteType
      <4> QED BY <2>0, <3>2, <4>1 DEF Recorded, tally
    <3> QED BY <2>0, <3>1, <3>3, VoteType
  <2> QED BY <2>0, <2>1, <2>2 DEF JailedHasEvidence
<1> QED BY <1>1, Invariance, PTL

(* The stake lottery never leaves a slot open to two validators, to none   *)
(* or to a jailed one while someone is left.                               *)
THEOREM LotteryIsDecisive == Spec => []OneProposerPerSlot
<1>1. Inv => OneProposerPerSlot
  <2> SUFFICES ASSUME Inv, EffectiveStake(jailed) > 0, NEW b \in blocks
               PROVE  \E v \in Validator \ jailed :
                         \A w \in Validator :
                            SelectProposer(w, jailed, sealed[b].seed) <=> w = v
    BY DEF OneProposerPerSlot
  <2>1. IsTable(sealed) /\ b \in DOMAIN sealed
    BY DEF Inv, TreeInv, TypeOK
  <2>2. sealed[b].seed \in Nat
    BY <2>1, TableTypes
  <2> QED BY <2>2, Lottery
<1> QED BY <1>1, Invariance, PTL

(* A finalized checkpoint and everything below it stay canonical across    *)
(* every reorg while it is the finalized checkpoint.                       *)
THEOREM FinalizedStaysCanonical == Spec => FinalizedPrefix
<1> DEFINE A == finalizedHash # NoHash /\ head' # head =>
                  /\ heightIndex'[finalizedHeight] = finalizedHash
                  /\ finalizedHash \in headState =>
                       \A h \in 0..finalizedHeight : heightIndex'[h] = heightIndex[h]
<1>1. Inv /\ Inv' /\ [Next]_vars => [A]_vars
  <2> SUFFICES ASSUME Inv, Inv', Next, finalizedHash # NoHash, head' # head PROVE A
    BY DEF vars
  <2>0. PICK b \in 2..Len(sealed) : AddBlock(b)
    BY DEF Next
  <2> DEFINE F == finalizedHash
             p == sealed[b].prev
  <2>1. /\ sealed' = sealed /\ head' = b /\ blocks' = blocks \cup {b} /\ p \in blocks
        /\ headState' = chainTo[b] /\ heightIndex' = rebuildIndex(chainTo[b])
    <3>1. IsValid(b) /\ Reorg(b) /\ sealed' = sealed /\ blocks' = blocks \cup {b}
      BY <2>0, Zenon DEF AddBlock
    <3>2. p \in blocks
      BY <3>1, Zenon DEF IsValid
    <3>3. head' = b /\ headState' = chainTo[b] /\ heightIndex' = rebuildIndex(chainTo[b])
      BY <3>1, Zenon DEF Reorg
    <3> QED BY <3>1, <3>2, <3>3
  <2>2. /\ IsTable(sealed) /\ Linked(blocks) /\ head \in blocks
        /\ headState = chainTo[head] /\ heightIndex = rebuildIndex(chainTo[head])
    <3>1. TreeInv
      BY DEF Inv
    <3> QED BY <3>1, TreeIsLinked, Zenon DEF TreeInv, TypeOK, HeadViews
  <2>3. Linked(blocks')
    <3>0. Len(sealed) \in Nat /\ DOMAIN sealed = 1..Len(sealed)
      BY <2>2, TableTypes
    <3>1. b \in DOMAIN sealed /\ sealed[b].height = sealed[p].height + 1
      <4>1. b \in DOMAIN sealed
        BY <3>0
      <4>2. sealed[b].height = sealed[p].height + 1
        BY <2>0, Zenon DEF AddBlock, IsValid
      <4> QED BY <4>1, <4>2
    <3> QED BY <2>1, <2>2, <3>1 DEF Linked
  <2>4. F \in chainTo[p] /\ sealed[F].height = finalizedHeight
    <3>1. Mode # "PoW"
      BY DEF Inv, EvidenceInv
    <3> QED BY <2>0, <3>1 DEF AddBlock, IsValid, respectsFinality
  <2>5. b \in DOMAIN sealed /\ b # Genesis /\ b \in blocks' /\ chainTo[b] = {b} \cup chainTo[p]
    <3>1. b \in DOMAIN sealed /\ b # Genesis
      BY <2>2, TableTypes, SMTT(30) DEF Genesis
    <3> QED BY <2>1, <2>2, <3>1, ChainToDef, Zenon
  <2>6. F \in chainTo[b] /\ F \in blocks
    <3>1. Branch(blocks, p)
      BY <2>1, <2>2, BranchIsPath, Zenon
    <3>2. F \in blocks
      BY <2>4, <3>1 DEF Branch
    <3> QED BY <2>4, <2>5, <3>2
  <2>7. \A a \in chainTo[b] : heightIndex'[sealed[a].height] = a
    <3>1. \A a \in chainTo[b] : rebuildIndex(chainTo[b])[sealed[a].height] = a
      BY <2>2, <2>3, <2>5, IndexIsBranch, Zenon
    <3> QED BY <2>1, <3>1, Zenon
  <2>8. heightIndex'[finalizedHeight] = F
    BY <2>4, <2>6, <2>7
  <2>9. ASSUME F \in headState, NEW h \in 0..finalizedHeight
        PROVE  heightIndex'[h] = heightIndex[h]
    <3>1. PICK a \in chainTo[F] : sealed[a].height = h
      BY <2>2, <2>4, <2>6, <2>9, BranchIsPath DEF Branch
    <3>2. b \in DOMAIN sealed /\ head \in DOMAIN sealed
      BY <2>2, <2>5 DEF Linked
    <3>3. a \in chainTo[b] /\ a \in chainTo[head]
      BY <2>2, <2>6, <2>9, <3>1, <3>2, ChainToTransitive
    <3>4. heightIndex[h] = a
      BY <2>2, <3>1, <3>3, IndexIsBranch, Zenon
    <3>5. heightIndex'[h] = a
      BY <2>7, <3>1, <3>3, Zenon
    <3> QED BY <3>4, <3>5
  <2> QED BY <2>8, <2>9
<1> QED BY <1>1, Invariance, PTL DEF Spec, FinalizedPrefix

(* Finality and jail are permanent.                                        *)
THEOREM FinalityIsPermanent == Spec => Permanent
<1> DEFINE A == /\ finalizedHeight' >= finalizedHeight
                /\ finalizedHash' # finalizedHash => finalizedHeight' > finalizedHeight
                /\ jailed \subseteq jailed'
<1>1. Inv /\ [Next]_vars => [A]_vars
  <2> SUFFICES ASSUME Inv, Next PROVE A
    BY DEF vars
  <2>0. PICK b \in 2..Len(sealed) : AddBlock(b)
    BY DEF Next
  <2>1. finalizedHeight \in Nat /\ b \in DOMAIN sealed
    <3>1. IsTable(sealed) /\ finalizedHeight \in Nat
      BY DEF Inv, TreeInv, TypeOK
    <3> QED BY <3>1, TableTypes
  <2>2. CASE Mode = "PoS"
    <3>1. Extends(tally, recordAttestations(b))
      BY <2>1, <2>2, TallyTyped, Zenon DEF Inv
    <3>2. /\ finalizedHash' = recordAttestations(b).finalizedHash
          /\ finalizedHeight' = recordAttestations(b).finalizedHeight
          /\ jailed' = recordAttestations(b).jailed \cup Equivocators(b)
      BY <2>0, <2>2, Zenon DEF AddBlock, Finality
    <3> QED BY <3>1, <3>2, Zenon DEF Extends, tally
  <2>3. CASE Mode # "PoS"
    <3>1. UNCHANGED <<finalizedHash, finalizedHeight, jailed>>
      BY <2>0, <2>3 DEF AddBlock, Finality
    <3> QED BY <2>1, <3>1
  <2> QED BY <2>2, <2>3
<1> QED BY <1>1, Invariance, PTL DEF Spec, Permanent

(* While nobody is jailed, every accepted block was drawn in the lottery   *)
(* that is held with everybody in it.                                      *)
SlotsDrawn ==
    Mode = "PoS" /\ jailed = {} =>
        \A b \in blocks \ {Genesis} :
            SelectProposer(sealed[b].coinbase, {}, sealed[sealed[b].prev].seed)

(* AddBlock asks the lottery of the moment, and nobody leaves the jail.    *)
LEMMA DrawnInOneLottery == Spec => []SlotsDrawn
<1> DEFINE A == /\ finalizedHeight' >= finalizedHeight
                /\ finalizedHash' # finalizedHash => finalizedHeight' > finalizedHeight
                /\ jailed \subseteq jailed'
<1>1. Init => SlotsDrawn
  BY Zenon DEF Init, SlotsDrawn
<1>2. SlotsDrawn /\ [Next]_vars /\ [A]_vars => SlotsDrawn'
  <2> SUFFICES ASSUME SlotsDrawn, [Next]_vars, [A]_vars, Mode = "PoS", jailed' = {},
                      NEW b \in blocks' \ {Genesis}
               PROVE  SelectProposer(sealed[b].coinbase, {}, sealed[sealed[b].prev].seed)'
    BY Zenon DEF SlotsDrawn
  <2>1. CASE UNCHANGED vars
    BY <2>1, Zenon DEF vars, SlotsDrawn, SelectProposer, EffectiveStake, cumulativeStake
  <2>2. ASSUME NEW c \in 2..Len(sealed), AddBlock(c), A
        PROVE  SelectProposer(sealed[b].coinbase, {}, sealed[sealed[b].prev].seed)'
    <3>1. jailed = {} /\ sealed' = sealed /\ blocks' = blocks \cup {c}
      BY <2>2 DEF AddBlock
    <3>2. SelectProposer(sealed[b].coinbase, {}, sealed[sealed[b].prev].seed)
      <4>1. CASE b = c
        BY <2>2, <3>1, <4>1, Zenon DEF AddBlock, IsValid
      <4>2. CASE b # c
        BY <3>1, <4>2, Zenon DEF SlotsDrawn
      <4> QED BY <4>1, <4>2
    <3> QED BY <3>1, <3>2, Zenon DEF SelectProposer, EffectiveStake, cumulativeStake
  <2> QED BY <2>1, <2>2, Zenon DEF Next, vars
<1>3. Spec => [][A]_vars
  BY FinalityIsPermanent DEF Permanent
<1> QED BY <1>1, <1>2, <1>3, PTL DEF Spec

(* A PoS node has two blocks on one parent only if it has somebody in      *)
(* jail: the lottery of AddBlock leaves a slot to one validator for as     *)
(* long as the jailed set is the same.                                     *)
THEOREM ForksProveEquivocation == Spec => []ForksNeedEquivocation
<1>1. Inv /\ JailedIffEvidence /\ SlotsDrawn => ForksNeedEquivocation
  <2> SUFFICES ASSUME Inv, JailedIffEvidence, SlotsDrawn, Mode = "PoS", jailed = {},
                      NEW b \in blocks \ {Genesis}, NEW c \in blocks \ {Genesis},
                      b # c, sealed[b].prev = sealed[c].prev
               PROVE  FALSE
    BY DEF ForksNeedEquivocation
  <2> DEFINE seed == sealed[sealed[b].prev].seed
  <2>1. /\ IsTable(sealed) /\ b \in DOMAIN sealed /\ c \in DOMAIN sealed
        /\ sealed[b].prev \in DOMAIN sealed
    BY Zenon DEF Inv, TreeInv, TypeOK, Rooted
  <2>2. /\ sealed[b].coinbase \in Validator /\ sealed[c].coinbase \in Validator
        /\ seed \in Nat
    BY <2>1, TableTypes
  <2>3. SelectProposer(sealed[b].coinbase, {}, seed) /\ SelectProposer(sealed[c].coinbase, {}, seed)
    BY DEF SlotsDrawn
  <2>4. EffectiveStake({}) > 0
    BY <2>3, Zenon DEF SelectProposer
  <2> HIDE DEF seed
  <2>5. PICK v \in Validator : \A w \in Validator : SelectProposer(w, {}, seed) <=> w = v
    BY <2>2, <2>4, Lottery
  <2>6. sealed[b].coinbase = v /\ sealed[c].coinbase = v
    BY <2>2, <2>3, <2>5
  <2>7. DoublePropose(v)
    BY <2>6 DEF DoublePropose
  <2> QED BY <2>7 DEF JailedIffEvidence
<1> QED BY <1>1, Invariance, JailIsEvidence, DrawnInOneLottery, PTL

-----------------------------------------------------------------------------
(* The tallies are the stakes of the recorded votes.                       *)

Vote == [round : Nat, from : Validator, hash : Hash]

Tallied(t) ==
    /\ t.attestedRound \in SUBSET Vote
    /\ IsFiniteSet(t.attestedRound)
    /\ t.checkpointStake = [h \in Hash |-> RecordedStake(t.attestedRound, h)]

(* One vote more adds the stake of its validator to its target's tally.    *)
LEMMA OneVoteMore ==
    ASSUME NEW votes \in SUBSET Vote, IsFiniteSet(votes), NEW v \in Vote, v \notin votes,
           NEW h
    PROVE  /\ RecordedStake(votes, h) \in Int
           /\ v.hash = h =>
                RecordedStake(votes \cup {v}, h) = RecordedStake(votes, h) + Stake[v.from]
           /\ v.hash # h => RecordedStake(votes \cup {v}, h) = RecordedStake(votes, h)
<1> DEFINE all == votes \cup {v}
           f == [r \in votes |-> Stake[r.from]]
           g == [r \in all |-> Stake[r.from]]
           S == {r \in votes : r.hash = h}
           T == {r \in all : r.hash = h}
<1>1. \A r \in Vote : Stake[r.from] \in Int
  BY StakeAssumption DEF Vote, Validator
<1>2. /\ \A x \in S : f[x] = Stake[x.from] /\ g[x] = f[x] /\ x \in Vote
      /\ g[v] = Stake[v.from] /\ v \notin S
  OBVIOUS
<1>3. IsFiniteSet(S)
  <2>1. S \in SUBSET votes
    OBVIOUS
  <2> QED BY <2>1, FinitePart, Zenon
<1>4. /\ SumFunctionOnSet(f, S) = RecordedStake(votes, h)
      /\ SumFunctionOnSet(g, T) = RecordedStake(all, h)
  BY Zenon DEF RecordedStake
<1>5. v.hash = h => T = S \cup {v}
  OBVIOUS
<1>6. v.hash # h => T = S
  OBVIOUS
<1> HIDE DEF all, f, g, S, T
<1>7. Ints(f, S) /\ g[v] \in Int /\ \A x \in S : g[x] = f[x]
  BY <1>1, <1>2, Zenon DEF Ints
<1>8. SumFunctionOnSet(f, S) \in Int
  BY <1>3, <1>7, SumInt, Zenon
<1>9. SumFunctionOnSet(g, S \cup {v}) = SumFunctionOnSet(f, S) + g[v]
  <2>1. v \notin S /\ g[v] \in Int /\ \A x \in S : g[x] = f[x]
    BY <1>2, <1>7, Zenon
  <2> QED BY <1>3, <1>7, <2>1, SumMore
<1>10. SumFunctionOnSet(g, S) = SumFunctionOnSet(f, S)
  BY <1>3, <1>7, SumSame, Zenon
<1> QED BY <1>2, <1>4, <1>5, <1>6, <1>8, <1>9, <1>10, Zenon DEF all

(* One pass of recordAttestations' loop keeps the tallies right: it adds   *)
(* a vote's stake where it records the vote, and only if no vote of the    *)
(* same validator and round is recorded.                                   *)
LEMMA TallyOne ==
    ASSUME NEW t, Tallied(t), NEW a \in Attestation
    PROVE  Tallied(recordAttestation(t, a))
<1> DEFINE u == recordAttestation(t, a)
           vote == VoteOf(a)
           votes == t.attestedRound
           stake == t.checkpointStake[a.hash] + Stake[a.from]
<1>1. /\ vote \in Vote /\ vote.round = CheckpointRound(a.height)
      /\ vote.from = a.from /\ vote.hash = a.hash /\ a.hash \in Hash
  BY VoteType DEF Vote, Attestation
<1>2. /\ votes \in SUBSET Vote /\ IsFiniteSet(votes)
      /\ t.checkpointStake = [h \in Hash |-> RecordedStake(votes, h)]
  BY DEF Tallied
<1>3. CASE Voted(t, vote.round, a.from) /\ vote \notin votes
  <2>1. u = [t EXCEPT !.jailed = @ \cup {a.from}]
    BY <1>3 DEF recordAttestation
  <2>2. u.attestedRound = votes /\ u.checkpointStake = t.checkpointStake
    BY <2>1
  <2> QED BY <1>2, <2>2, Zenon DEF Tallied
<1>4. CASE ~Voted(t, vote.round, a.from) /\ a.from \notin t.jailed
  <2>1. /\ u.attestedRound = votes \cup {vote}
        /\ u.checkpointStake = [t.checkpointStake EXCEPT ![a.hash] = stake]
    BY <1>4 DEF recordAttestation
  <2>2. vote \notin votes
    BY <1>1, <1>4, Zenon DEF Voted
  <2>3. u.attestedRound \in SUBSET Vote /\ IsFiniteSet(u.attestedRound)
    <3>1. votes \cup {vote} \in SUBSET Vote
      BY <1>1, <1>2, Zenon
    <3>2. IsFiniteSet(votes \cup {vote})
      <4> HIDE DEF vote, votes
      <4> QED BY <1>2, FiniteMore, Zenon
    <3> QED BY <2>1, <3>1, <3>2, Zenon
  <2> HIDE DEF u, vote, votes
  <2>4. ASSUME NEW h \in Hash
        PROVE  (IF h = a.hash THEN stake ELSE t.checkpointStake[h])
                  = RecordedStake(votes \cup {vote}, h)
    <3>1. t.checkpointStake[h] = RecordedStake(votes, h)
      BY <1>2, Zenon
    <3>2. CASE h = a.hash
      <4>1. RecordedStake(votes \cup {vote}, h) = RecordedStake(votes, h) + Stake[vote.from]
        BY <1>1, <1>2, <2>2, <3>2, OneVoteMore, Zenon
      <4> QED BY <1>1, <3>1, <3>2, <4>1, Zenon
    <3>3. CASE h # a.hash
      BY <1>1, <1>2, <2>2, <3>1, <3>3, OneVoteMore, Zenon
    <3> QED BY <3>2, <3>3
  <2> DEFINE new(h) == RecordedStake(votes \cup {vote}, h)
  <2>5. [t.checkpointStake EXCEPT ![a.hash] = stake] = [h \in Hash |-> new(h)]
    <3> HIDE DEF stake, new
    <3>1. DOMAIN t.checkpointStake = Hash
      BY <1>2, Zenon
    <3>2. t.checkpointStake = [h \in Hash |-> t.checkpointStake[h]]
      BY <1>2, Zenon
    <3>3. \A h \in Hash : (IF h = a.hash THEN stake ELSE t.checkpointStake[h]) = new(h)
      BY <2>4 DEF new
    <3> QED BY <3>1, <3>2, <3>3
  <2> QED BY <2>1, <2>3, <2>5, Zenon DEF Tallied, u
<1>5. CASE \/ Voted(t, vote.round, a.from) /\ vote \in votes
           \/ ~Voted(t, vote.round, a.from) /\ a.from \in t.jailed
  <2>1. u = t
    BY <1>5 DEF recordAttestation
  <2> QED BY <2>1
<1> QED BY <1>3, <1>4, <1>5

(* The whole loop does.                                                    *)
LEMMA TallyAll ==
    ASSUME NEW b, sealed[b].attestations \in Seq(Attestation), Tallied(tally)
    PROVE  Tallied(recordAttestations(b))
<1> DEFINE votes == sealed[b].attestations
           S == {n \in Nat : n =< Len(votes) => Tallied(tallies(b)[n])}
<1>0. Len(votes) \in Nat /\ \A i \in 1..Len(votes) : votes[i] \in Attestation
  OBVIOUS
<1>1. 0 \in S
  <2>1. tallies(b)[0] = tally
    BY <1>0, TalliesDef
  <2> QED BY <2>1
<1>2. ASSUME NEW n \in Nat, n \in S PROVE n + 1 \in S
  <2> SUFFICES ASSUME n + 1 =< Len(votes) PROVE Tallied(tallies(b)[n + 1])
    OBVIOUS
  <2>1. n + 1 \in 0..Len(votes) /\ votes[n + 1] \in Attestation /\ Tallied(tallies(b)[n])
    BY <1>0, <1>2
  <2>2. tallies(b)[n + 1] = recordAttestation(tallies(b)[n], votes[n + 1])
    BY <1>0, <2>1, TalliesDef
  <2> QED BY <2>1, <2>2, TallyOne, Zenon
<1>3. Len(votes) \in S
  <2> HIDE DEF S, votes
  <2> QED BY <1>0, <1>1, <1>2, SetInduction, Zenon
<1> QED BY <1>0, <1>3 DEF recordAttestations

(* And so does every block.                                                *)
LEMMA TallyInvariance == Spec => []Tallied(tally)
<1>1. Init => Tallied(tally)
  <2> SUFFICES ASSUME Init PROVE Tallied(tally)
    OBVIOUS
  <2>1. tally.attestedRound = {} /\ tally.checkpointStake = [h \in Hash |-> 0]
    BY DEF Init, tally
  <2>2. IsFiniteSet({})
    BY FitsFinite DEF FitsIn
  <2>3. ASSUME NEW h PROVE RecordedStake({}, h) = 0
    <3>1. {r \in {} : r.hash = h} = {}
      OBVIOUS
    <3> QED BY <3>1, SumEmpty, Zenon DEF RecordedStake
  <2> QED BY <2>1, <2>2, <2>3 DEF Tallied
<1>2. Inv /\ Tallied(tally) /\ [Next]_vars => Tallied(tally)'
  <2> SUFFICES ASSUME Inv, Tallied(tally), [Next]_vars PROVE Tallied(tally)'
    OBVIOUS
  <2>1. IsTable(sealed)
    BY DEF Inv, TreeInv, TypeOK
  <2>2. ASSUME NEW t, Tallied(t), attestedRound' = t.attestedRound,
               checkpointStake' = t.checkpointStake
        PROVE  Tallied(tally)'
    <3>1. tally'.attestedRound = t.attestedRound /\ tally'.checkpointStake = t.checkpointStake
      BY <2>2 DEF tally
    <3> QED BY <2>2, <3>1, Zenon DEF Tallied, RecordedStake
  <2>3. ASSUME NEW b \in 2..Len(sealed), AddBlock(b), Mode = "PoS" PROVE Tallied(tally)'
    <3>1. sealed[b].attestations \in Seq(Attestation)
      BY <2>1, TableTypes
    <3>2. Tallied(recordAttestations(b))
      BY <3>1, TallyAll, Zenon
    <3>3. /\ attestedRound' = recordAttestations(b).attestedRound
          /\ checkpointStake' = recordAttestations(b).checkpointStake
      BY <2>3, Zenon DEF AddBlock, Finality
    <3> QED BY <2>2, <3>2, <3>3, Zenon
  <2>4. tally.attestedRound = attestedRound /\ tally.checkpointStake = checkpointStake
    BY DEF tally
  <2>5. ASSUME NEW b \in 2..Len(sealed), AddBlock(b), Mode # "PoS" PROVE Tallied(tally)'
    BY <2>2, <2>4, <2>5, Zenon DEF AddBlock, Finality
  <2>6. CASE UNCHANGED vars
    BY <2>2, <2>4, <2>6, Zenon DEF vars
  <2> QED BY <2>3, <2>5, <2>6 DEF Next
<1> QED BY <1>1, <1>2, Invariance, PTL DEF Spec

(* The stake counted for a checkpoint is the stake of the votes recorded   *)
(* for it, each once, however often and in whichever blocks of whichever   *)
(* branches a vote arrives.                                                *)
THEOREM TallyMatchesVotes == Spec => []TallyIsRecorded
<1>1. Tallied(tally) => TallyIsRecorded
  BY DEF Tallied, TallyIsRecorded, tally
<1> QED BY <1>1, TallyInvariance, PTL

(* Terms that are told apart by their places in T add up to no more than   *)
(* T does.                                                                 *)
LEMMA SumPlaced ==
    ASSUME NEW f, NEW S, IsFiniteSet(S), Ints(f, S),
           NEW g, NEW T, IsFiniteSet(T), \A y \in T : g[y] \in Nat,
           NEW k, \A x \in S : k[x] \in T /\ g[k[x]] = f[x],
           \A x, y \in S : k[x] = k[y] => x = y
    PROVE  SumFunctionOnSet(f, S) <= SumFunctionOnSet(g, T)
<1> DEFINE Placed(s, t) == \A x \in s : k[x] \in t
           Q == {s \in SUBSET S : \A t \in SUBSET T :
                    Placed(s, t) => SumFunctionOnSet(f, s) <= SumFunctionOnSet(g, t)}
<1>1. ASSUME NEW t \in SUBSET T
      PROVE  IsFiniteSet(t) /\ Ints(g, t) /\ SumFunctionOnSet(g, t) \in Nat
  <2>1. IsFiniteSet(t) /\ \A y \in t : g[y] \in Nat
    BY FinitePart
  <2>2. Ints(g, t)
    BY <2>1 DEF Ints
  <2> QED BY <2>1, <2>2, SumNat
<1>2. {} \in Q
  BY <1>1, SumEmpty
<1>3. ASSUME NEW s \in SUBSET S, s # {}, \A x \in s : s \ {x} \in Q PROVE s \in Q
  <2> SUFFICES ASSUME NEW t \in SUBSET T, Placed(s, t)
               PROVE  SumFunctionOnSet(f, s) <= SumFunctionOnSet(g, t)
    OBVIOUS
  <2>1. PICK x : x \in s
    BY <1>3
  <2> DEFINE y == k[x]
             r == s \ {x}
             u == t \ {y}
  <2>2. y \in t /\ g[y] = f[x] /\ g[y] \in Nat /\ u \in SUBSET T
    BY <2>1
  <2>3. IsFiniteSet(s) /\ Ints(f, s) /\ Ints(f, r) /\ IsFiniteSet(r)
    BY FinitePart DEF Ints
  <2>4. SumFunctionOnSet(f, s) = f[x] + SumFunctionOnSet(f, r) /\ SumFunctionOnSet(f, r) \in Int
    BY <2>1, <2>3, SumRemove, SumInt
  <2>5. SumFunctionOnSet(g, t) = g[y] + SumFunctionOnSet(g, u) /\ SumFunctionOnSet(g, u) \in Nat
    BY <1>1, <2>2, SumRemove
  <2>6. Placed(r, u)
    BY <2>1
  <2>7. SumFunctionOnSet(f, r) <= SumFunctionOnSet(g, u)
    BY <1>3, <2>1, <2>2, <2>6
  <2> HIDE DEF y, r, u
  <2> QED BY <2>2, <2>4, <2>5, <2>7
<1>4. \A s \in SUBSET S : s \in Q
  <2> HIDE DEF Q
  <2> QED BY <1>2, <1>3, SubsetInduction
<1>5. S \in Q /\ Placed(S, T)
  BY <1>4
<1> QED BY <1>5

(* There are finitely many validators.                                     *)
LEMMA ValidatorsFinite == IsFiniteSet(Validator) /\ \A v \in Validator : Stake[v] \in Nat
<1>1. Len(Stake) \in Nat /\ \A v \in Validator : Stake[v] \in Nat
  BY StakeAssumption DEF Validator
<1>2. FitsIn(Len(Stake), Validator)
  <2> DEFINE e == [i \in Validator |-> i]
  <2>1. \A x \in Validator : \E i \in 1..Len(Stake) : e[i] = x
    BY DEF Validator
  <2> HIDE DEF e
  <2> QED BY <2>1 DEF FitsIn
<1> QED BY <1>1, <1>2, FitsFinite

(* Two thirds of the effective stake stand behind a finalized checkpoint,  *)
(* each validator counted once, unless somebody voted for it in two        *)
(* rounds: the votes that recordAttestations has counted are in accepted   *)
(* blocks, and no two of them are of the same validator.                   *)
THEOREM QuorumKept == Spec => []FinalizedHasQuorum
<1>1. Inv /\ Tallied(tally) => FinalizedHasQuorum
  <2> SUFFICES ASSUME Inv, Tallied(tally), finalizedHash # NoHash, ~BackedTwice(finalizedHash)
               PROVE  BackingStake(finalizedHash) * 3 >= EffectiveStake(jailed) * 2
    BY DEF FinalizedHasQuorum
  <2> DEFINE h == finalizedHash
             votes == attestedRound
             S == {r \in votes : r.hash = h}
             f == [r \in votes |-> Stake[r.from]]
             k == [r \in votes |-> r.from]
  <2>1. /\ votes \in SUBSET Vote /\ IsFiniteSet(votes) /\ h \in Hash /\ jailed \subseteq Validator
        /\ checkpointStake[h] = SumFunctionOnSet(f, S)
    <3>1. votes \in SUBSET Vote /\ IsFiniteSet(votes)
      BY DEF Tallied, tally
    <3>2. h \in Hash /\ jailed \subseteq Validator
      BY DEF Inv, TreeInv, TypeOK
    <3>3. checkpointStake = [g \in Hash |-> RecordedStake(votes, g)]
      BY DEF Tallied, tally
    <3> QED BY <3>1, <3>2, <3>3 DEF RecordedStake
  <2>2. checkpointStake[h] * 3 >= EffectiveStake(jailed) * 2
    BY DEF Inv, TalliedQuorum
  <2>3. /\ \A x, y \in votes : x.round = y.round /\ x.from = y.from => x = y
        /\ \A x \in votes : \E a \in CastVotes : x = VoteOf(a)
    <3>1. Mode = "PoS"
      BY ModeAssumption DEF Inv, EvidenceInv
    <3> QED BY <3>1 DEF Inv, EvidenceInv, Recorded, tally
  <2>4. ASSUME NEW x \in S
        PROVE  /\ x \in Vote /\ k[x] = x.from /\ f[x] = Stake[x.from]
               /\ \E a \in CastVotes : a.from = x.from /\ a.hash = h /\ CheckpointRound(a.height) = x.round
    <3>1. PICK a \in CastVotes : x = VoteOf(a)
      BY <2>3
    <3> QED BY <2>1, <3>1 DEF VoteOf
  <2>5. ASSUME NEW x \in S, NEW y \in S, x.from = y.from PROVE x = y
    <3>1. x.round = y.round
      BY <2>4, <2>5 DEF BackedTwice
    <3> QED BY <2>3, <2>5, <3>1
  <2>6. \A x \in S : x.from \in Backers(h)
    BY <2>4 DEF Backers
  <2>7. Backers(h) \subseteq Validator
    <3>1. IsTable(sealed) /\ blocks \subseteq DOMAIN sealed
      BY DEF Inv, TreeInv, TypeOK
    <3>2. CastVotes \subseteq Attestation
      BY <3>1, CastVotesType
    <3> QED BY <3>2 DEF Backers, Attestation
  <2>8. IsFiniteSet(S) /\ IsFiniteSet(Backers(h))
    BY <2>1, <2>7, ValidatorsFinite, FinitePart
  <2>9. \A v \in Backers(h) : Stake[v] \in Nat
    BY <2>7, ValidatorsFinite
  <2>10. Ints(f, S)
    BY <2>4, <2>6, <2>9 DEF Ints
  <2>11. /\ \A x \in S : k[x] \in Backers(h) /\ Stake[k[x]] = f[x]
         /\ \A x, y \in S : k[x] = k[y] => x = y
    BY <2>4, <2>5, <2>6
  <2> HIDE DEF S, f, k
  <2>12. SumFunctionOnSet(f, S) <= SumFunctionOnSet(Stake, Backers(h))
    BY <2>8, <2>9, <2>10, <2>11, SumPlaced
  <2>13. SumFunctionOnSet(f, S) \in Int /\ SumFunctionOnSet(Stake, Backers(h)) \in Nat
    BY <2>8, <2>9, <2>10, SumInt, SumNat
  <2>14. EffectiveStake(jailed) \in Nat
    BY <2>1, EffectiveStakeNat
  <2> QED BY <2>1, <2>2, <2>12, <2>13, <2>14 DEF BackingStake
<1> QED BY <1>1, TallyInvariance, Invariance, PTL

-----------------------------------------------------------------------------
(* Chain implements HeaviestChain: td holds the weight of whole branches,  *)
(* so the one comparison in AddBlock keeps the maximum over all blocks.    *)

BranchWeight == Promise!branchWeight

OwnWeight(b) == IF b = Genesis THEN sealed[b].difficulty ELSE weight(b)

(* The weight of a branch is what its recursive definition says.           *)
LEMMA BranchWeightDef ==
    ASSUME IsTable(sealed)
    PROVE  \A b \in DOMAIN sealed :
              BranchWeight[b] =
                 IF b = Genesis THEN OwnWeight(b)
                 ELSE OwnWeight(b) + BranchWeight[sealed[b].prev]
<1> DEFINE F(g, b) == IF b = Genesis THEN OwnWeight(b) ELSE OwnWeight(b) + g[sealed[b].prev]
           Is(g, n) == g = [b \in 1..n |-> F(g, b)]
           Q(n) == n =< Len(sealed) => \E g : Is(g, n)
           S == {n \in Nat : Q(n)}
<1>0. /\ Len(sealed) \in Nat /\ DOMAIN sealed = 1..Len(sealed)
      /\ \A b \in DOMAIN sealed \ {Genesis} : sealed[b].prev \in 1..(b - 1)
  BY TableTypes
<1>1. Q(0)
  <2>1. Is([b \in 1..0 |-> {}], 0)
    OBVIOUS
  <2> QED BY <2>1
<1>2. ASSUME NEW n \in Nat, Q(n) PROVE Q(n + 1)
  <2> SUFFICES ASSUME n + 1 =< Len(sealed) PROVE \E h : Is(h, n + 1)
    OBVIOUS
  <2>0. PICK g : Is(g, n)
    BY <1>0, <1>2
  <2> DEFINE h == [b \in 1..(n + 1) |-> IF b = n + 1 THEN F(g, n + 1) ELSE g[b]]
  <2>1. ASSUME NEW b \in 1..(n + 1) PROVE h[b] = F(h, b)
    <3>1. b \in DOMAIN sealed
      BY <1>0
    <3>2. b # Genesis => h[sealed[b].prev] = g[sealed[b].prev]
      <4> SUFFICES ASSUME b # Genesis PROVE h[sealed[b].prev] = g[sealed[b].prev]
        OBVIOUS
      <4>1. sealed[b].prev \in 1..(b - 1)
        BY <1>0, <3>1
      <4>2. sealed[b].prev \in 1..(n + 1) /\ sealed[b].prev # n + 1
        BY <4>1
      <4> QED BY <4>2
    <3>3. CASE b = n + 1
      <4>1. h[b] = F(g, b)
        BY <3>3
      <4> QED BY <3>2, <4>1
    <3>4. CASE b # n + 1
      <4>1. b \in 1..n /\ h[b] = g[b]
        BY <3>4
      <4>2. g[b] = F(g, b)
        BY <2>0, <4>1, Zenon
      <4> QED BY <3>2, <4>1, <4>2, Zenon
    <3> QED BY <3>3, <3>4, Zenon
  <2>2. Is(h, n + 1)
    BY <2>1, Zenon
  <2> QED BY <2>2, Zenon
<1>3. Q(Len(sealed))
  <2> HIDE DEF Q
  <2>1. 0 \in S /\ \A n \in Nat : n \in S => n + 1 \in S
    BY <1>1, <1>2
  <2> HIDE DEF S
  <2>2. Len(sealed) \in S
    BY <1>0, <2>1, SetInduction
  <2> QED BY <2>2 DEF S
<1> DEFINE own == [b \in DOMAIN sealed |-> OwnWeight(b)]
           parent == [b \in DOMAIN sealed |-> sealed[b].prev]
           G(g, b) == IF b = Genesis THEN own[b] ELSE own[b] + g[parent[b]]
<1>4. PICK g : Is(g, Len(sealed))
  BY <1>0, <1>3
<1>5. g = [b \in DOMAIN parent |-> G(g, b)]
  BY <1>0, <1>4
<1>6. BranchWeight = CHOOSE w : w = [b \in DOMAIN parent |-> G(w, b)]
  BY DEF BranchWeight, Promise!branchWeight, OwnWeight
<1>7. BranchWeight = [b \in DOMAIN parent |-> G(BranchWeight, b)]
  <2> HIDE DEF G, parent
  <2> QED BY <1>5, <1>6, Zenon
<1>8. \A b \in DOMAIN parent : BranchWeight[b] = G(BranchWeight, b)
  <2> HIDE DEF G, parent
  <2> QED BY <1>7, Zenon
<1> QED BY <1>8

(* td is the weight of whole branches.                                     *)
LEMMA TotalIsBranchWeight ==
    ASSUME TreeInv
    PROVE  \A b \in blocks : BranchWeight[b] = td[b]
<1> DEFINE Q(n) == \A b \in blocks : b =< n => BranchWeight[b] = td[b]
           S == {n \in Nat : Q(n)}
<1>0. /\ IsTable(sealed) /\ Len(sealed) \in Nat /\ blocks \subseteq 1..Len(sealed)
      /\ DOMAIN sealed = 1..Len(sealed)
      /\ \A b \in DOMAIN sealed \ {Genesis} : sealed[b].prev \in 1..(b - 1)
  BY TreeIsLinked, TableTypes DEF Linked
<1>1. Q(0)
  BY <1>0
<1>2. ASSUME NEW n \in Nat, Q(n) PROVE Q(n + 1)
  <2> SUFFICES ASSUME n + 1 \in blocks PROVE BranchWeight[n + 1] = td[n + 1]
    BY <1>0, <1>2
  <2>1. n + 1 \in DOMAIN sealed
    BY <1>0
  <2>2. CASE n + 1 = Genesis
    <3>1. BranchWeight[n + 1] = sealed[n + 1].difficulty
      BY <1>0, <2>1, <2>2, BranchWeightDef DEF OwnWeight
    <3> QED BY <2>2, <3>1 DEF TreeInv, Rooted
  <2>3. CASE n + 1 # Genesis
    <3>1. BranchWeight[n + 1] = weight(n + 1) + BranchWeight[sealed[n + 1].prev]
      BY <1>0, <2>1, <2>3, BranchWeightDef DEF OwnWeight
    <3>2. sealed[n + 1].prev \in blocks /\ td[n + 1] = td[sealed[n + 1].prev] + weight(n + 1)
      BY <2>3 DEF TreeInv, Rooted
    <3>3. sealed[n + 1].prev \in 1..n
      BY <1>0, <2>1, <2>3
    <3>4. BranchWeight[sealed[n + 1].prev] = td[sealed[n + 1].prev]
      BY <1>2, <3>2, <3>3
    <3>5. td[sealed[n + 1].prev] \in Nat /\ weight(n + 1) \in Nat
      BY <1>0, <2>1, <3>2, TableTypes, Zenon DEF TreeInv, TypeOK, weight
    <3> QED BY <3>1, <3>2, <3>4, <3>5
  <2> QED BY <2>2, <2>3
<1>3. Q(Len(sealed))
  <2> HIDE DEF Q
  <2>1. 0 \in S /\ \A n \in Nat : n \in S => n + 1 \in S
    BY <1>1, <1>2
  <2> HIDE DEF S
  <2>2. Len(sealed) \in S
    BY <1>0, <2>1, SetInduction
  <2> QED BY <2>2 DEF S
<1> QED BY <1>0, <1>3

(* Every initial state and every step of a node's chain is one of the      *)
(* abstract chain: AddBlock does what HeaviestChain promises.              *)
THEOREM ChainImplementsPromise == Spec => ImplementsPromise
<1>1. Init => Promise!Init
  BY DEF Init, Promise!Init
<1>2. Inv /\ Inv' /\ [Next]_vars => [Promise!Next]_(Promise!vars)
  <2> SUFFICES ASSUME Inv, Inv', Next PROVE Promise!Next
    BY DEF vars, Promise!vars, weight
  <2>0. PICK b \in 2..Len(sealed) : AddBlock(b)
    BY DEF Next
  <2>1. /\ sealed' = sealed /\ blocks' = blocks \cup {b} /\ b \notin blocks
        /\ sealed[b].prev \in blocks
    BY <2>0 DEF AddBlock, IsValid
  <2>2. IsTable(sealed) /\ TreeInv /\ TreeInv'
    BY Zenon DEF Inv, TreeInv, TypeOK
  <2>3. b \in DOMAIN sealed /\ b # Genesis
    <3>1. DOMAIN sealed = 1..Len(sealed) /\ Len(sealed) \in Nat
      BY <2>2, TableTypes, Zenon
    <3> QED BY <2>0, <3>1 DEF Genesis
  <2>4. \A c \in blocks : BranchWeight[c] = td[c]
    BY <2>2, TotalIsBranchWeight
  <2>5. \A c \in blocks' : BranchWeight[c] = td'[c]
    <3>1. /\ td' = [td EXCEPT ![b] = td[sealed[b].prev] + weight(b)]
          /\ td \in [BlockHash -> Nat] /\ blocks \subseteq BlockHash /\ b \in BlockHash
      BY <2>0, <2>2, <2>3, TableTypes, Zenon DEF AddBlock, TreeInv, TypeOK
    <3>2. td'[b] = td[sealed[b].prev] + weight(b) /\ \A c \in blocks : td'[c] = td[c]
      BY <2>1, <3>1
    <3>3. BranchWeight[b] = weight(b) + BranchWeight[sealed[b].prev]
      BY <2>2, <2>3, BranchWeightDef DEF OwnWeight
    <3>4. weight(b) \in Nat /\ td[sealed[b].prev] \in Nat
      BY <2>1, <2>2, <2>3, <3>1, TableTypes, Zenon DEF weight
    <3> QED BY <2>1, <2>4, <3>2, <3>3, <3>4
  <2>6. head' \in blocks' /\ \A c \in blocks' : BranchWeight[c] =< BranchWeight[head']
    BY <2>2, <2>5, Zenon DEF TreeInv, TypeOK, HeaviestHead
  <2>7. head' # head => BranchWeight[head'] > BranchWeight[head]
    <3>1. head' # head => head' = b /\ td'[b] > td[head]
      BY <2>0 DEF AddBlock, Reorg
    <3> QED BY <2>1, <2>2, <2>4, <2>5, <3>1, Zenon DEF TreeInv, TypeOK
  <2>8. Promise!Accept(b)
    BY <2>1, <2>3, <2>6, <2>7 DEF Promise!Accept, Promise!Heaviest, BranchWeight, weight
  <2> QED BY <2>3, <2>8 DEF Promise!Next
<1> QED BY <1>1, <1>2, Invariance, PTL DEF Spec, ImplementsPromise, Promise!Spec

-----------------------------------------------------------------------------
(* What a chain's view leaves behind of the verdicts that led to it, for   *)
(* the comparison of two nodes.                                            *)

VotesIn(S) ==
    UNION {{sealed[b].attestations[i] : i \in 1..Len(sealed[b].attestations)} :
              b \in S \ {Genesis}}

(* v equivocated in the blocks of S.                                       *)
EvidenceOf(v, S) ==
    \/ \E b, c \in S \ {Genesis} :
          /\ b # c
          /\ sealed[b].prev = sealed[c].prev
          /\ sealed[b].coinbase = v /\ sealed[c].coinbase = v
    \/ AttestedTwice(v, VotesIn(S))

EvidenceIn(S) == \E v \in Validator : EvidenceOf(v, S)

(* S is a tree of blocks that were all drawn with everybody in the lottery. *)
Drawn(S) ==
    \A b \in S \ {Genesis} :
        /\ sealed[b].prev \in S
        /\ SelectProposer(sealed[b].coinbase, {}, sealed[sealed[b].prev].seed)

(* What was accepted passed the checks that depend on the block alone, has *)
(* a weight and nothing else does; PoW jails nobody; and whatever was      *)
(* accepted after the first jailing, the evidence for that one is in       *)
(* blocks that were drawn before it.                                       *)
VerdictInv ==
    /\ \A b \in blocks \ {Genesis} :
         sealed[b].wellFormed /\ (Mode = "PoS" => verifyAttestations(b))
    /\ \A b \in BlockHash \ blocks : td[b] = 0
    /\ Mode = "PoW" => jailed = {}
    /\ Mode = "PoS" /\ jailed # {} => \E S \in SUBSET blocks : Drawn(S) /\ EvidenceIn(S)

(* More blocks carry more votes.                                           *)
LEMMA VotesGrow ==
    ASSUME NEW S, NEW D \in SUBSET S
    PROVE  VotesIn(D) \subseteq VotesIn(S)
<1> DEFINE castIn(b) == {sealed[b].attestations[i] : i \in 1..Len(sealed[b].attestations)}
<1>1. VotesIn(D) = UNION {castIn(b) : b \in D \ {Genesis}}
      /\ VotesIn(S) = UNION {castIn(b) : b \in S \ {Genesis}}
  BY DEF VotesIn
<1> HIDE DEF castIn
<1> QED BY <1>1

(* Somebody is jailed for something.                                       *)
LEMMA JailedHasSome ==
    Inv /\ JailedIffEvidence /\ Mode = "PoS" /\ jailed # {} => EvidenceIn(blocks)
<1> SUFFICES ASSUME Inv, JailedIffEvidence, Mode = "PoS", jailed # {} PROVE EvidenceIn(blocks)
  OBVIOUS
<1>1. PICK v \in Validator : v \in jailed
  BY DEF Inv, TreeInv, TypeOK
<1>2. DoublePropose(v) \/ DoubleAttest(v)
  BY <1>1 DEF JailedIffEvidence
<1> QED BY <1>2, Zenon DEF EvidenceIn, EvidenceOf, DoublePropose, DoubleAttest, VotesIn, CastVotes

(* What AddBlock leaves alone of S.                                        *)
LEMMA DrawnStable ==
    ASSUME NEW S, sealed' = sealed
    PROVE  (Drawn(S) => Drawn(S)') /\ (EvidenceIn(S) => EvidenceIn(S)')
<1>1. Drawn(S) => Drawn(S)'
  BY DEF Drawn, SelectProposer, EffectiveStake, cumulativeStake
<1>2. EvidenceIn(S) => EvidenceIn(S)'
  <2>1. VotesIn(S)' = VotesIn(S)
    BY DEF VotesIn
  <2> QED BY <2>1, SMTT(30) DEF EvidenceIn, EvidenceOf, AttestedTwice, CheckpointRound
<1> QED BY <1>1, <1>2

(* AddBlock keeps the record of its verdicts.                              *)
LEMMA StepVerdict ==
    ASSUME VerdictInv, Inv, Inv', JailedIffEvidence', SlotsDrawn, NEW c \in 2..Len(sealed), AddBlock(c)
    PROVE  VerdictInv'
<1>1. /\ sealed' = sealed /\ blocks' = blocks \cup {c} /\ c \in DOMAIN sealed \ {Genesis}
      /\ c \in BlockHash /\ td \in [BlockHash -> Nat]
  <2>1. IsTable(sealed) /\ td \in [BlockHash -> Nat]
    BY Zenon DEF Inv, TreeInv, TypeOK
  <2>2. DOMAIN sealed = 1..Len(sealed) /\ DOMAIN sealed \subseteq BlockHash /\ Len(sealed) \in Nat
    BY <2>1, TableTypes, Zenon
  <2>3. c \in DOMAIN sealed /\ c # Genesis
    BY <2>2 DEF Genesis
  <2>4. sealed' = sealed /\ blocks' = blocks \cup {c}
    BY DEF AddBlock
  <2> QED BY <2>1, <2>2, <2>3, <2>4, Zenon
<1>2. /\ sealed[c].wellFormed /\ sealed[c].prev \in blocks
      /\ Mode = "PoS" =>
           /\ SelectProposer(sealed[c].coinbase, jailed, sealed[sealed[c].prev].seed)
           /\ verifyAttestations(c)
  BY DEF AddBlock, IsValid
<1>3. (\A b \in blocks \ {Genesis} :
         sealed[b].wellFormed /\ (Mode = "PoS" => verifyAttestations(b)))'
  BY <1>1, <1>2, Zenon DEF VerdictInv, verifyAttestations
<1>4. (\A b \in BlockHash \ blocks : td[b] = 0)'
  <2>1. \A b \in BlockHash \ {c} : td'[b] = td[b]
    BY <1>1 DEF AddBlock
  <2> QED BY <1>1, <2>1, Zenon DEF VerdictInv, BlockHash
<1>5. (Mode = "PoW" => jailed = {})'
  BY Zenon DEF VerdictInv, AddBlock, Finality
<1>6. ASSUME Mode = "PoS", jailed' # {}
      PROVE  \E S \in SUBSET (blocks') : Drawn(S)' /\ EvidenceIn(S)'
  <2>1. CASE jailed # {}
    <3>1. PICK S \in SUBSET blocks : Drawn(S) /\ EvidenceIn(S)
      BY <1>6, <2>1 DEF VerdictInv
    <3>2. S \in SUBSET (blocks') /\ Drawn(S)' /\ EvidenceIn(S)'
      BY <1>1, <3>1, DrawnStable
    <3> QED BY <3>2
  <2>2. CASE jailed = {}
    <3>1. EvidenceIn(blocks)'
      <4>1. (Inv /\ JailedIffEvidence /\ Mode = "PoS" /\ jailed # {} => EvidenceIn(blocks))'
        BY JailedHasSome, PTL
      <4> QED BY <1>6, <4>1
    <3>2. \A b \in blocks \ {Genesis} :
            /\ sealed[b].prev \in blocks
            /\ SelectProposer(sealed[b].coinbase, {}, sealed[sealed[b].prev].seed)
      BY <1>6, <2>2, Zenon DEF SlotsDrawn, Inv, TreeInv, Rooted
    <3>3. PICK S : S = blocks \cup {c}
      OBVIOUS
    <3>4. Drawn(S)
      BY <1>2, <1>6, <2>2, <3>2, <3>3, Zenon DEF Drawn
    <3>5. Drawn(S)'
      BY <1>1, <3>4, DrawnStable
    <3>6. blocks' = S
      BY <1>1, <3>3
    <3>7. EvidenceIn(S)'
      BY <3>1, <3>6, Zenon DEF EvidenceIn, EvidenceOf, VotesIn
    <3> QED BY <3>5, <3>6, <3>7
  <2> QED BY <2>1, <2>2
<1> QED BY <1>3, <1>4, <1>5, <1>6, Zenon DEF VerdictInv

(* A node's state bears out its verdicts.                                  *)
LEMMA VerdictInvariance == Spec => []VerdictInv
<1>1. Init => VerdictInv
  BY DEF Init, VerdictInv
<1>2. VerdictInv /\ Inv /\ Inv' /\ JailedIffEvidence' /\ SlotsDrawn /\ [Next]_vars => VerdictInv'
  <2> SUFFICES ASSUME VerdictInv, Inv, Inv', JailedIffEvidence', SlotsDrawn, [Next]_vars
               PROVE  VerdictInv'
    OBVIOUS
  <2>1. CASE UNCHANGED vars
    <3>1. sealed' = sealed /\ blocks' = blocks /\ td' = td /\ jailed' = jailed
      BY <2>1 DEF vars
    <3>2. ASSUME NEW S PROVE (Drawn(S) => Drawn(S)') /\ (EvidenceIn(S) => EvidenceIn(S)')
      BY <3>1, DrawnStable
    <3>3. \A b : verifyAttestations(b)' <=> verifyAttestations(b)
      BY <3>1 DEF verifyAttestations
    <3> QED BY <3>1, <3>2, <3>3, Zenon DEF VerdictInv
  <2>2. CASE Next
    BY <2>2, StepVerdict DEF Next
  <2> QED BY <2>1, <2>2
<1> QED BY <1>1, <1>2, Invariance, JailIsEvidence, DrawnInOneLottery, PTL DEF Spec

(* A view of a node: accepted blocks, their weights, the jail, and a head, *)
(* as AddBlock leaves them.                                                *)
Tree(S) ==
    /\ IsTable(sealed) /\ S \subseteq DOMAIN sealed /\ Genesis \in S
    /\ \A b \in S \ {Genesis} :
         /\ sealed[b].prev \in S
         /\ sealed[b].height = sealed[sealed[b].prev].height + 1
         /\ sealed[b].wellFormed
         /\ Mode = "PoS" => verifyAttestations(b)

Weights(S, w, h) ==
    /\ w \in [BlockHash -> Nat]
    /\ w[Genesis] = sealed[Genesis].difficulty
    /\ \A b \in S \ {Genesis} : w[b] = w[sealed[b].prev] + weight(b)
    /\ \A b \in BlockHash \ S : w[b] = 0
    /\ h \in S /\ \A b \in S : w[b] =< w[h]

Jail(S, out) ==
    /\ out \subseteq Validator
    /\ Mode = "PoW" => out = {}
    /\ Mode = "PoS" =>
         /\ \A v \in Validator : v \in out <=> EvidenceOf(v, S)
         /\ out = {} => Drawn(S)
         /\ out # {} => \E T \in SUBSET S : Drawn(T) /\ EvidenceIn(T)

View(S, w, h, out) == Tree(S) /\ Weights(S, w, h) /\ Jail(S, out)

LEMMA ViewInvariance == Spec => []View(blocks, td, head, jailed)
<1>1. Inv /\ JailedIffEvidence /\ SlotsDrawn /\ VerdictInv => View(blocks, td, head, jailed)
  <2> SUFFICES ASSUME Inv, JailedIffEvidence, SlotsDrawn, VerdictInv
               PROVE  View(blocks, td, head, jailed)
    OBVIOUS
  <2>1. Tree(blocks)
    BY Zenon DEF Tree, VerdictInv, Inv, TreeInv, TypeOK, Rooted
  <2>2. Weights(blocks, td, head)
    BY Zenon DEF Weights, VerdictInv, Inv, TreeInv, TypeOK, Rooted, HeaviestHead
  <2>3. \A v \in Validator : EvidenceOf(v, blocks) <=> DoublePropose(v) \/ DoubleAttest(v)
    BY DEF EvidenceOf, DoublePropose, DoubleAttest, VotesIn, CastVotes
  <2>4. Mode = "PoS" /\ jailed = {} => Drawn(blocks)
    BY <2>1, Zenon DEF SlotsDrawn, Drawn, Tree
  <2>5. Jail(blocks, jailed)
    BY <2>3, <2>4, Zenon DEF Jail, JailedIffEvidence, VerdictInv, Inv, TreeInv, TypeOK
  <2> QED BY <2>1, <2>2, <2>5 DEF View
<1> QED BY <1>1, Invariance, JailIsEvidence, DrawnInOneLottery, VerdictInvariance, PTL

(* The blocks determine the weights, the jail and how heavy a head is.     *)
LEMMA SameView ==
    ASSUME NEW S, NEW w, NEW h, NEW out, View(S, w, h, out),
           NEW u, NEW g, NEW away, View(S, u, g, away)
    PROVE  out = away /\ w = u /\ w[h] = u[g]
<1>1. Tree(S) /\ Weights(S, w, h) /\ Weights(S, u, g) /\ Jail(S, out) /\ Jail(S, away)
  BY DEF View
<1>2. out = away
  <2>1. out \subseteq Validator /\ away \subseteq Validator
    BY <1>1 DEF Jail
  <2>2. CASE Mode = "PoS"
    BY <1>1, <2>1, <2>2 DEF Jail
  <2>3. CASE Mode = "PoW"
    BY <1>1, <2>3 DEF Jail
  <2> QED BY <2>2, <2>3, ModeAssumption
<1>3. /\ IsTable(sealed) /\ S \subseteq DOMAIN sealed /\ DOMAIN sealed \subseteq BlockHash
      /\ DOMAIN sealed = 1..Len(sealed) /\ Len(sealed) \in Nat
      /\ \A b \in S \ {Genesis} : sealed[b].prev \in S /\ sealed[b].prev \in 1..(b - 1)
  <2>1. IsTable(sealed) /\ S \subseteq DOMAIN sealed
    BY <1>1, Zenon DEF Tree
  <2> QED BY <1>1, <2>1, TableTypes, Zenon DEF Tree
<1>4. \A b \in S : w[b] = u[b]
  <2> DEFINE N == {n \in Nat : \A b \in S : b =< n => w[b] = u[b]}
  <2>1. 0 \in N
    BY <1>3
  <2>2. ASSUME NEW n \in Nat, n \in N PROVE n + 1 \in N
    <3>1. ASSUME NEW b \in S, b =< n + 1 PROVE w[b] = u[b]
      <4>1. CASE b = Genesis
        BY <1>1, <4>1, Zenon DEF Weights
      <4>2. CASE b # Genesis
        <5>1. sealed[b].prev \in S /\ sealed[b].prev \in 1..(b - 1) /\ b \in Nat
          BY <1>3, <4>2, SMTT(30)
        <5>2. sealed[b].prev =< n
          BY <3>1, <5>1
        <5>3. w[sealed[b].prev] = u[sealed[b].prev]
          BY <2>2, <5>1, <5>2
        <5> QED BY <1>1, <4>2, <5>3, Zenon DEF Weights
      <4> QED BY <4>1, <4>2
    <3> QED BY <3>1
  <2> HIDE DEF N
  <2>3. \A n \in Nat : n \in N
    BY <2>1, <2>2, SetInduction
  <2>4. ASSUME NEW b \in S PROVE w[b] = u[b]
    <3>1. b \in Nat /\ b =< b
      BY <1>3
    <3> QED BY <2>3, <3>1 DEF N
  <2> QED BY <2>4
<1>5. \A b \in BlockHash : w[b] = u[b]
  BY <1>1, <1>4, Zenon DEF Weights
<1>6. w = u
  <2>1. w \in [BlockHash -> Nat] /\ u \in [BlockHash -> Nat]
    BY <1>1, Zenon DEF Weights
  <2> QED BY <1>5, <2>1
<1>7. h \in S /\ g \in S /\ w[g] =< w[h] /\ w[h] =< w[g] /\ w[g] \in Nat /\ w[h] \in Nat
  BY <1>1, <1>3, <1>6, Zenon DEF Weights
<1> QED BY <1>2, <1>6, <1>7

(* AddBlock's checks of b, as long as nothing is final: what they depend   *)
(* on of a node are its blocks and its jail.                               *)
Fits(b, S, out) ==
    /\ b \notin S
    /\ sealed[b].prev \in S
    /\ sealed[b].height = sealed[sealed[b].prev].height + 1
    /\ Mode = "PoS" =>
         /\ SelectProposer(sealed[b].coinbase, out, sealed[sealed[b].prev].seed)
         /\ verifyAttestations(b)
    /\ sealed[b].wellFormed

LEMMA FitsIsValid ==
    ASSUME finalizedHash = NoHash, NEW b PROVE IsValid(b) <=> Fits(b, blocks, jailed)
BY Zenon DEF IsValid, Fits, respectsFinality

(* A node that takes nothing more has every tree of drawn blocks that      *)
(* another node has.                                                       *)
LEMMA TakesDrawn ==
    ASSUME NEW S, NEW out, Genesis \in S, \A b \in 2..Len(sealed) : ~Fits(b, S, out),
           NEW T, Tree(T), NEW D \in SUBSET T,
           \A b \in D \ {Genesis} :
               /\ sealed[b].prev \in D
               /\ Mode = "PoS" =>
                    SelectProposer(sealed[b].coinbase, out, sealed[sealed[b].prev].seed)
    PROVE  D \subseteq S
<1>1. /\ D \subseteq 1..Len(sealed) /\ Len(sealed) \in Nat
      /\ \A b \in D \ {Genesis} : b \in 2..Len(sealed) /\ sealed[b].prev \in 1..(b - 1)
  BY TableTypes, Zenon DEF Tree
<1> DEFINE N == {n \in Nat : \A b \in D : b =< n => b \in S}
<1>2. 0 \in N
  BY <1>1
<1>3. ASSUME NEW n \in Nat, n \in N PROVE n + 1 \in N
  <2>1. ASSUME NEW b \in D, b =< n + 1, b \notin S PROVE FALSE
    <3>1. b \in 2..Len(sealed) /\ sealed[b].prev \in 1..(b - 1) /\ sealed[b].prev \in D
      BY <1>1, <2>1
    <3>2. sealed[b].prev =< n
      BY <2>1, <3>1
    <3>3. sealed[b].prev \in S
      BY <1>3, <3>1, <3>2
    <3>4. Fits(b, S, out)
      BY <2>1, <3>3, Zenon DEF Fits, Tree
    <3> QED BY <3>1, <3>4
  <2> QED BY <2>1
<1> HIDE DEF N
<1>4. \A n \in Nat : n \in N
  BY <1>2, <1>3, SetInduction
<1>5. ASSUME NEW b \in D PROVE b \in S
  <2>1. b \in Nat /\ b =< b
    BY <1>1
  <2> QED BY <1>4, <2>1, Zenon DEF N
<1> QED BY <1>5

(* Of two nodes that take nothing more, one with nobody in its jail has    *)
(* all of the other's blocks, and the other has nobody in its jail either. *)
LEMMA TakesAll ==
    ASSUME NEW S, NEW w, NEW h, NEW out, View(S, w, h, out),
           NEW T, NEW u, NEW g, NEW away, View(T, u, g, away),
           \A b \in 2..Len(sealed) : ~Fits(b, S, out), out = {}
    PROVE  T \subseteq S /\ away = {}
<1>1. Tree(S) /\ Tree(T) /\ Jail(S, out) /\ Jail(T, away) /\ Genesis \in S
  BY Zenon DEF View, Tree
<1>2. ASSUME Mode = "PoS", NEW D \in SUBSET T, Drawn(D) PROVE D \subseteq S
  BY <1>1, <1>2, TakesDrawn, Zenon DEF Drawn
<1>3. CASE Mode = "PoS"
  <2>1. SUFFICES ASSUME away # {} PROVE FALSE
    BY <1>1, <1>2, <1>3 DEF Jail
  <2>2. PICK D \in SUBSET T : Drawn(D) /\ EvidenceIn(D)
    BY <1>1, <1>3, <2>1 DEF Jail
  <2>3. D \subseteq S
    BY <1>2, <1>3, <2>2
  <2>4. PICK v \in Validator : EvidenceOf(v, D)
    BY <2>2 DEF EvidenceIn
  <2>5. VotesIn(D) \subseteq VotesIn(S)
    BY <2>3, VotesGrow, Zenon
  <2>6. EvidenceOf(v, S)
    BY <2>3, <2>4, <2>5, Zenon DEF EvidenceOf, AttestedTwice
  <2> QED BY <1>1, <1>3, <2>6 DEF Jail
<1>4. CASE Mode = "PoW"
  <2>1. T \subseteq S
    BY <1>1, <1>4, TakesDrawn, Zenon DEF Tree
  <2> QED BY <1>1, <1>4, <2>1 DEF Jail
<1> QED BY <1>3, <1>4, ModeAssumption
=============================================================================
