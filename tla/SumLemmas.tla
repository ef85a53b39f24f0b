----------------------------- MODULE SumLemmas -----------------------------
(***************************************************************************)
(* Induction, on the naturals and on the subsets of a finite set, and what *)
(* the theorems about balances and stakes need of a sum over a finite set: *)
(* the community module defines it by a recursion that takes the elements  *)
(* in the order CHOOSE picks them; here it is shown that the order does    *)
(* not matter, and how the sum follows a change of one term, or one more.  *)
(***************************************************************************)
EXTENDS Integers, Sequences, FiniteSetsExt, WellFoundedInduction, TLAPS

(* A set of naturals that holds 0 and is closed under successor is Nat.    *)
LEMMA SetInduction ==
    ASSUME NEW S, 0 \in S, \A n \in Nat : n \in S => n + 1 \in S
    PROVE  \A n \in Nat : n \in S
<1> DEFINE R == {p \in Nat \X Nat : p[1] < p[2]}
           T == Nat \ S
<1>1. IsWellFoundedOn(R, Nat)
  BY NatLessThanWellFounded DEF OpToRel
<1>2. SUFFICES ASSUME T # {} PROVE FALSE
  OBVIOUS
<1>3. PICK x \in T : \A y \in T : ~ (<<y, x>> \in R)
  <2> HIDE DEF R
  <2> QED BY <1>1, <1>2, WFMin
<1>4. x \in Nat /\ x # 0
  OBVIOUS
<1>5. x - 1 \in Nat /\ x - 1 < x
  BY <1>4
<1>6. x - 1 \in S
  BY <1>3, <1>4, <1>5
<1>7. (x - 1) + 1 \in S
  BY <1>5, <1>6
<1> QED BY <1>4, <1>7

(* Min of some naturals is the least of them.                              *)
LEMMA MinOf ==
    ASSUME NEW S \in SUBSET Nat, S # {}
    PROVE  Min(S) \in S /\ \A y \in S : Min(S) <= y
<1> DEFINE Least(x) == \A y \in S : x <= y
           P == {m \in Nat : \A k \in S : m <= k}
<1>1. ASSUME \A x \in S : ~ Least(x) PROVE FALSE
  <2>1. 0 \in P
    OBVIOUS
  <2>2. ASSUME NEW m \in Nat, m \in P PROVE m + 1 \in P
    <3>1. m \notin S
      BY <1>1, <2>2
    <3> QED BY <2>2, <3>1
  <2>3. \A m \in Nat : m \in P => m + 1 \in P
    BY <2>2
  <2> HIDE DEF P
  <2>4. \A m \in Nat : m \in P
    BY <2>1, <2>3, SetInduction
  <2>5. PICK k \in S : TRUE
    BY Zenon
  <2>6. k + 1 \in P
    BY <2>4, <2>5
  <2> QED BY <2>5, <2>6 DEF P
<1>2. \E x \in S : \A y \in S : x <= y
  BY <1>1
<1> QED BY <1>2, Zenon DEF Min

(* Of finitely many values below a bound one is the greatest.              *)
LEMMA BestOf ==
    ASSUME NEW T, T # {}, NEW f, NEW bound \in Nat, \A x \in T : f[x] \in 0..bound
    PROVE  \E x \in T : \A y \in T : f[x] >= f[y]
<1> DEFINE S == {bound - f[x] : x \in T}
<1>1. S \in SUBSET Nat /\ S # {}
  OBVIOUS
<1>2. Min(S) \in S /\ \A y \in S : Min(S) <= y
  <2> HIDE DEF S
  <2> QED BY <1>1, MinOf
<1>3. PICK x \in T : Min(S) = bound - f[x]
  BY <1>2, Zenon
<1>4. ASSUME NEW y \in T PROVE f[x] >= f[y]
  <2>1. bound - f[y] \in S
    OBVIOUS
  <2>2. bound - f[x] <= bound - f[y]
    BY <1>2, <1>3, <2>1
  <2> QED BY <2>2
<1> QED BY <1>3, <1>4

-----------------------------------------------------------------------------
(* A set has at most n elements: some list of length n has them all.       *)
FitsIn(n, s) == \E e : \A x \in s : \E i \in 1..n : e[i] = x

(* A finite set is one that fits some length, and so is any part of it.    *)
LEMMA FiniteFits ==
    ASSUME NEW S, IsFiniteSet(S)
    PROVE  \E n \in Nat : \A s \in SUBSET S : FitsIn(n, s)
<1>1. PICK e \in Seq(S) : \A x \in S : \E i \in 1..Len(e) : e[i] = x
  BY DEF IsFiniteSet
<1>2. Len(e) \in Nat /\ \A s \in SUBSET S : FitsIn(Len(e), s)
  BY <1>1 DEF FitsIn
<1> QED BY <1>2

(* What fits a length is finite.                                           *)
LEMMA FitsFinite ==
    ASSUME NEW n \in Nat, NEW s, FitsIn(n, s)
    PROVE  IsFiniteSet(s)
<1>1. PICK e : \A x \in s : \E i \in 1..n : e[i] = x
  BY DEF FitsIn
<1>2. CASE s = {}
  <2>1. <<>> \in Seq(s)
    OBVIOUS
  <2> QED BY <1>2, <2>1 DEF IsFiniteSet
<1>3. CASE s # {}
  <2>1. PICK y : y \in s
    BY <1>3
  <2> DEFINE d == [i \in 1..n |-> IF e[i] \in s THEN e[i] ELSE y]
  <2>2. d \in Seq(s) /\ Len(d) = n
    BY <2>1
  <2>3. \A x \in s : \E i \in 1..n : d[i] = x
    BY <1>1
  <2> HIDE DEF d
  <2> QED BY <2>2, <2>3 DEF IsFiniteSet
<1> QED BY <1>2, <1>3

(* So is a part of it.                                                     *)
LEMMA FinitePart ==
    ASSUME NEW S, IsFiniteSet(S), NEW s \in SUBSET S
    PROVE  IsFiniteSet(s)
BY FiniteFits, FitsFinite

(* And so is what has one element more.                                    *)
LEMMA FiniteMore ==
    ASSUME NEW S, IsFiniteSet(S), NEW x
    PROVE  IsFiniteSet(S \cup {x})
<1>1. PICK n \in Nat : FitsIn(n, S)
  BY FiniteFits
<1>2. PICK e : \A y \in S : \E i \in 1..n : e[i] = y
  BY <1>1 DEF FitsIn
<1> DEFINE d == [i \in 1..(n + 1) |-> IF i = n + 1 THEN x ELSE e[i]]
<1>3. \A y \in S \cup {x} : \E i \in 1..(n + 1) : d[i] = y
  <2>1. n + 1 \in 1..(n + 1) /\ d[n + 1] = x
    OBVIOUS
  <2>2. \A i \in 1..n : i \in 1..(n + 1) /\ d[i] = e[i]
    OBVIOUS
  <2> HIDE DEF d
  <2> QED BY <1>2, <2>1, <2>2, Zenon
<1> HIDE DEF d
<1>4. FitsIn(n + 1, S \cup {x})
  BY <1>3, Zenon DEF FitsIn
<1>5. n + 1 \in Nat
  OBVIOUS
<1> QED BY <1>4, <1>5, FitsFinite, Zenon

(* One element less, one place less.                                       *)
LEMMA FitsLess ==
    ASSUME NEW n \in Nat, NEW s, FitsIn(n + 1, s), NEW x \in s
    PROVE  FitsIn(n, s \ {x})
<1>1. PICK e : \A y \in s : \E i \in 1..(n + 1) : e[i] = y
  BY DEF FitsIn
<1>2. PICK k \in 1..(n + 1) : e[k] = x
  BY <1>1
<1> DEFINE d == [i \in 1..n |-> IF i = k THEN e[n + 1] ELSE e[i]]
<1>3. ASSUME NEW y \in s \ {x} PROVE \E i \in 1..n : d[i] = y
  <2>1. PICK j \in 1..(n + 1) : e[j] = y
    BY <1>1
  <2>2. j # k
    BY <1>2, <2>1
  <2>3. CASE j = n + 1
    <3>1. k \in 1..n
      BY <2>2, <2>3
    <3> QED BY <2>1, <2>3, <3>1
  <2>4. CASE j # n + 1
    <3>1. j \in 1..n
      BY <2>4
    <3> QED BY <2>1, <2>2, <3>1
  <2> QED BY <2>3, <2>4
<1> HIDE DEF d
<1> QED BY <1>3 DEF FitsIn

(* More places do no harm.                                                 *)
LEMMA FitsMore ==
    ASSUME NEW n \in Nat, NEW s, FitsIn(n, s)
    PROVE  FitsIn(n + 1, s)
BY DEF FitsIn

(* Only the empty set needs none.                                          *)
LEMMA FitsNone ==
    ASSUME NEW s, FitsIn(0, s)
    PROVE  s = {}
BY DEF FitsIn

(* Induction on the subsets of a finite set: Q has the empty one, and each *)
(* from which no element can be taken without getting into Q.              *)
LEMMA SubsetInduction ==
    ASSUME NEW S, IsFiniteSet(S), NEW Q, {} \in Q,
           \A s \in SUBSET S : s # {} /\ (\A x \in s : s \ {x} \in Q) => s \in Q
    PROVE  \A s \in SUBSET S : s \in Q
<1> DEFINE P == {n \in Nat : \A s \in SUBSET S : FitsIn(n, s) => s \in Q}
<1>1. 0 \in P
  BY FitsNone
<1>2. ASSUME NEW n \in Nat, n \in P PROVE n + 1 \in P
  <2>1. ASSUME NEW s \in SUBSET S, FitsIn(n + 1, s) PROVE s \in Q
    <3>1. \A x \in s : s \ {x} \in SUBSET S /\ FitsIn(n, s \ {x})
      BY <2>1, FitsLess
    <3>2. \A x \in s : s \ {x} \in Q
      BY <1>2, <3>1
    <3> QED BY <3>2
  <2>2. n + 1 \in Nat
    OBVIOUS
  <2> QED BY <2>1, <2>2
<1>3. \A n \in Nat : n \in P
  <2> HIDE DEF P
  <2> QED BY <1>1, <1>2, SetInduction
<1> QED BY <1>3, FiniteFits

-----------------------------------------------------------------------------
(* The element a sum takes first, and the recursion on the subsets of S:   *)
(* g satisfies it on the subsets in D.                                     *)
first(s) == CHOOSE x \in s : TRUE
sumStep(f, g, s) == IF s = {} THEN 0 ELSE f[first(s)] + g[s \ {first(s)}]
SumsOn(f, g, D) == g = [s \in D |-> sumStep(f, g, s)]
upTo(S, n) == {s \in SUBSET S : FitsIn(n, s)}

(* There is a first element where there are any.                           *)
LEMMA FirstIn == ASSUME NEW s, s # {} PROVE first(s) \in s
BY DEF first

(* Two solutions of the recursion agree where both are defined.            *)
LEMMA SumsAgree ==
    ASSUME NEW f, NEW g, NEW h, NEW S, NEW T \in SUBSET S, IsFiniteSet(S),
           SumsOn(f, g, SUBSET S), SumsOn(f, h, SUBSET T)
    PROVE  \A s \in SUBSET T : g[s] = h[s]
<1> DEFINE Q == {s \in SUBSET T : g[s] = h[s]}
<1>1. \A s \in SUBSET T : g[s] = sumStep(f, g, s) /\ h[s] = sumStep(f, h, s)
  BY DEF SumsOn
<1>2. {} \in Q
  BY <1>1 DEF sumStep
<1>3. ASSUME NEW s \in SUBSET T, s # {}, \A x \in s : s \ {x} \in Q PROVE s \in Q
  <2>1. g[s \ {first(s)}] = h[s \ {first(s)}]
    BY <1>3, FirstIn
  <2> QED BY <1>1, <1>3, <2>1 DEF sumStep
<1>4. IsFiniteSet(T)
  BY FinitePart
<1>5. \A s \in SUBSET T : s \in Q
  <2> HIDE DEF Q
  <2> QED BY <1>2, <1>3, <1>4, SubsetInduction
<1> QED BY <1>5

(* The recursion has a solution on the subsets of every finite set.        *)
LEMMA SumsExist ==
    ASSUME NEW f, NEW S, IsFiniteSet(S)
    PROVE  \E g : SumsOn(f, g, SUBSET S)
<1> DEFINE P == {n \in Nat : \E g : SumsOn(f, g, upTo(S, n))}
<1>1. 0 \in P
  <2> DEFINE g == [s \in upTo(S, 0) |-> 0]
  <2>1. \A s \in upTo(S, 0) : s = {}
    BY FitsNone DEF upTo
  <2>2. \A s \in upTo(S, 0) : sumStep(f, g, s) = 0
    BY <2>1 DEF sumStep
  <2>3. SumsOn(f, g, upTo(S, 0))
    BY <2>2 DEF SumsOn
  <2> HIDE DEF g
  <2> QED BY <2>3
<1>2. ASSUME NEW n \in Nat, n \in P PROVE n + 1 \in P
  <2>1. PICK g : SumsOn(f, g, upTo(S, n))
    BY <1>2
  <2> DEFINE h == [s \in upTo(S, n + 1) |-> sumStep(f, g, s)]
  <2>2. \A s \in upTo(S, n) : s \in upTo(S, n + 1) /\ h[s] = g[s]
    <3>1. \A s \in upTo(S, n) : s \in upTo(S, n + 1)
      BY FitsMore DEF upTo
    <3>2. \A s \in upTo(S, n) : g[s] = sumStep(f, g, s)
      BY <2>1 DEF SumsOn
    <3> QED BY <3>1, <3>2
  <2>3. ASSUME NEW s \in upTo(S, n + 1) PROVE sumStep(f, g, s) = sumStep(f, h, s)
    <3>1. CASE s = {}
      BY <3>1 DEF sumStep
    <3>2. CASE s # {}
      <4>1. first(s) \in s /\ s \in SUBSET S /\ FitsIn(n + 1, s)
        BY <3>2, <2>3, FirstIn DEF upTo
      <4>2. s \ {first(s)} \in upTo(S, n)
        BY <4>1, FitsLess DEF upTo
      <4>3. g[s \ {first(s)}] = h[s \ {first(s)}]
        BY <4>2, <2>2
      <4> HIDE DEF h
      <4> QED BY <4>3 DEF sumStep
    <3> QED BY <3>1, <3>2
  <2>4. SumsOn(f, h, upTo(S, n + 1))
    BY <2>3 DEF SumsOn
  <2> HIDE DEF h
  <2> QED BY <2>4
<1>3. \A n \in Nat : n \in P
  <2> HIDE DEF P
  <2> QED BY <1>1, <1>2, SetInduction
<1>4. PICK n \in Nat : upTo(S, n) = SUBSET S
  BY FiniteFits DEF upTo
<1> QED BY <1>3, <1>4

(* The community module's sum is the recursion.                            *)
LEMMA SumUnfold ==
    ASSUME NEW f, NEW S, IsFiniteSet(S)
    PROVE  SumFunctionOnSet(f, S) = IF S = {} THEN 0
                                    ELSE f[first(S)] + SumFunctionOnSet(f, S \ {first(S)})
<1> DEFINE iter(T) == CHOOSE g : SumsOn(f, g, SUBSET T)
<1>1. ASSUME NEW T PROVE SumFunctionOnSet(f, T) = iter(T)[T]
  BY DEF SumFunctionOnSet, FoldFunctionOnSet, MapThenFoldSet, SumsOn, sumStep, first
<1>2. ASSUME NEW T, IsFiniteSet(T) PROVE SumsOn(f, iter(T), SUBSET T)
  BY <1>2, SumsExist
<1>3. SumFunctionOnSet(f, S) = iter(S)[S]
  BY <1>1
<1> HIDE DEF iter
<1>4. iter(S)[S] = sumStep(f, iter(S), S)
  <2>1. SumsOn(f, iter(S), SUBSET S)
    BY <1>2
  <2> QED BY <2>1 DEF SumsOn
<1>5. CASE S = {}
  BY <1>3, <1>4, <1>5 DEF sumStep
<1>6. CASE S # {}
  <2> DEFINE T == S \ {first(S)}
  <2>1. T \in SUBSET S /\ IsFiniteSet(T)
    BY FinitePart
  <2> HIDE DEF T
  <2>2. SumsOn(f, iter(S), SUBSET S) /\ SumsOn(f, iter(T), SUBSET T)
    BY <1>2, <2>1
  <2>3. iter(S)[T] = iter(T)[T]
    <3>1. \A s \in SUBSET T : iter(S)[s] = iter(T)[s]
      BY <2>1, <2>2, SumsAgree
    <3> QED BY <3>1
  <2>4. SumFunctionOnSet(f, T) = iter(T)[T]
    BY <1>1
  <2>5. sumStep(f, iter(S), S) = f[first(S)] + iter(S)[T]
    BY <1>6 DEF sumStep, T
  <2>6. SumFunctionOnSet(f, S) = f[first(S)] + SumFunctionOnSet(f, T)
    BY <1>3, <1>4, <2>3, <2>4, <2>5
  <2> QED BY <1>6, <2>6 DEF T
<1> QED BY <1>5, <1>6

-----------------------------------------------------------------------------
Ints(f, S) == \A x \in S : f[x] \in Int
AnyOrder(f, s) == /\ SumFunctionOnSet(f, s) \in Int
                  /\ \A a \in s : SumFunctionOnSet(f, s) = f[a] + SumFunctionOnSet(f, s \ {a})

(* The empty sum.                                                          *)
LEMMA SumEmpty ==
    ASSUME NEW f
    PROVE  SumFunctionOnSet(f, {}) = 0
<1>1. IsFiniteSet({})
  BY FitsFinite DEF FitsIn
<1> QED BY <1>1, SumUnfold

(* A sum of integers is an integer.                                        *)
LEMMA SumInt ==
    ASSUME NEW f, NEW S, IsFiniteSet(S), Ints(f, S)
    PROVE  SumFunctionOnSet(f, S) \in Int
<1> DEFINE Q == {s \in SUBSET S : SumFunctionOnSet(f, s) \in Int}
<1>1. {} \in Q
  BY SumEmpty
<1>2. ASSUME NEW s \in SUBSET S, s # {}, \A x \in s : s \ {x} \in Q PROVE s \in Q
  <2>1. first(s) \in s /\ IsFiniteSet(s)
    BY <1>2, FirstIn, FinitePart
  <2>2. SumFunctionOnSet(f, s) = f[first(s)] + SumFunctionOnSet(f, s \ {first(s)})
    BY <1>2, <2>1, SumUnfold
  <2>3. f[first(s)] \in Int /\ SumFunctionOnSet(f, s \ {first(s)}) \in Int
    BY <1>2, <2>1 DEF Ints
  <2> QED BY <2>2, <2>3
<1>3. \A s \in SUBSET S : s \in Q
  <2> HIDE DEF Q
  <2> QED BY <1>1, <1>2, SubsetInduction
<1> QED BY <1>3

(* The sum of integers is one, and any element may be taken first.         *)
LEMMA SumAnyOrder ==
    ASSUME NEW f, NEW S, IsFiniteSet(S), Ints(f, S)
    PROVE  AnyOrder(f, S)
<1> DEFINE Q == {s \in SUBSET S : AnyOrder(f, s)}
<1>1. {} \in Q
  BY SumEmpty DEF AnyOrder
<1>2. ASSUME NEW s \in SUBSET S, s # {}, \A x \in s : s \ {x} \in Q PROVE s \in Q
  <2> DEFINE b == first(s)
             sum(t) == SumFunctionOnSet(f, t)
  <2>1. b \in s /\ IsFiniteSet(s)
    BY <1>2, FirstIn, FinitePart
  <2>2. sum(s) = f[b] + sum(s \ {b})
    BY <1>2, <2>1, SumUnfold
  <2> HIDE DEF b
  <2>3. \A a \in s : f[a] \in Int /\ AnyOrder(f, s \ {a}) /\ sum(s \ {a}) \in Int
    BY <1>2 DEF AnyOrder, Ints
  <2>4. ASSUME NEW a \in s, a # b PROVE sum(s) = f[a] + sum(s \ {a})
    <3>1. sum(s \ {b}) = f[a] + sum((s \ {b}) \ {a})
      BY <2>1, <2>3, <2>4 DEF AnyOrder
    <3>2. sum(s \ {a}) = f[b] + sum((s \ {a}) \ {b})
      BY <2>1, <2>3, <2>4 DEF AnyOrder
    <3>3. (s \ {b}) \ {a} = (s \ {a}) \ {b}
      OBVIOUS
    <3>4. sum((s \ {a}) \ {b}) \in Int
      <4>1. (s \ {a}) \ {b} \in SUBSET S /\ Ints(f, (s \ {a}) \ {b})
        BY DEF Ints
      <4> QED BY <4>1, FinitePart, SumInt
    <3>5. sum(s \ {b}) = f[a] + sum((s \ {a}) \ {b})
      BY <3>1, <3>3
    <3>6. f[a] \in Int /\ f[b] \in Int
      BY <2>1, <2>3
    <3> HIDE DEF sum
    <3> QED BY <2>2, <3>2, <3>4, <3>5, <3>6
  <2>5. \A a \in s : sum(s) = f[a] + sum(s \ {a})
    BY <2>2, <2>4
  <2>6. sum(s) \in Int
    BY <2>1, <2>2, <2>3
  <2> QED BY <2>5, <2>6 DEF AnyOrder
<1>3. \A s \in SUBSET S : s \in Q
  <2> HIDE DEF Q
  <2> QED BY <1>1, <1>2, SubsetInduction
<1> QED BY <1>3

(* The same, of the set itself.                                            *)
LEMMA SumRemove ==
    ASSUME NEW f, NEW S, IsFiniteSet(S), Ints(f, S), NEW a \in S
    PROVE  SumFunctionOnSet(f, S) = f[a] + SumFunctionOnSet(f, S \ {a})
BY SumAnyOrder DEF AnyOrder

(* Terms that are no larger have a sum that is no larger.                  *)
LEMMA SumMonotone ==
    ASSUME NEW f, NEW g, NEW S, IsFiniteSet(S), Ints(f, S), Ints(g, S),
           \A x \in S : f[x] <= g[x]
    PROVE  SumFunctionOnSet(f, S) <= SumFunctionOnSet(g, S)
<1> DEFINE Q == {s \in SUBSET S : SumFunctionOnSet(f, s) <= SumFunctionOnSet(g, s)}
<1>1. {} \in Q
  BY SumEmpty
<1>2. ASSUME NEW s \in SUBSET S, s # {}, \A x \in s : s \ {x} \in Q PROVE s \in Q
  <2> DEFINE r == s \ {first(s)}
  <2>1. first(s) \in s /\ IsFiniteSet(s) /\ IsFiniteSet(r) /\ r \in Q
    BY <1>2, FirstIn, FinitePart
  <2>2. /\ SumFunctionOnSet(f, s) = f[first(s)] + SumFunctionOnSet(f, r)
        /\ SumFunctionOnSet(g, s) = g[first(s)] + SumFunctionOnSet(g, r)
    BY <1>2, <2>1, SumUnfold
  <2>3. SumFunctionOnSet(f, r) \in Int /\ SumFunctionOnSet(g, r) \in Int
    <3>1. Ints(f, r) /\ Ints(g, r)
      BY DEF Ints
    <3> QED BY <2>1, <3>1, SumInt
  <2>4. f[first(s)] <= g[first(s)] /\ f[first(s)] \in Int /\ g[first(s)] \in Int
    BY <2>1 DEF Ints
  <2>5. SumFunctionOnSet(f, r) <= SumFunctionOnSet(g, r)
    BY <2>1
  <2> QED BY <2>2, <2>3, <2>4, <2>5
<1>3. \A s \in SUBSET S : s \in Q
  <2> HIDE DEF Q
  <2> QED BY <1>1, <1>2, SubsetInduction
<1> QED BY <1>3

(* Equal terms have equal sums.                                            *)
LEMMA SumSame ==
    ASSUME NEW f, NEW g, NEW S, IsFiniteSet(S), Ints(f, S), \A x \in S : g[x] = f[x]
    PROVE  SumFunctionOnSet(g, S) = SumFunctionOnSet(f, S)
<1>1. Ints(g, S) /\ \A x \in S : f[x] <= g[x] /\ g[x] <= f[x]
  BY DEF Ints
<1>2. SumFunctionOnSet(f, S) \in Int /\ SumFunctionOnSet(g, S) \in Int
  BY <1>1, SumInt
<1>3. /\ SumFunctionOnSet(f, S) <= SumFunctionOnSet(g, S)
      /\ SumFunctionOnSet(g, S) <= SumFunctionOnSet(f, S)
  BY <1>1, SumMonotone
<1> QED BY <1>2, <1>3

(* One term more.                                                          *)
LEMMA SumMore ==
    ASSUME NEW f, NEW g, NEW S, IsFiniteSet(S), Ints(f, S), \A x \in S : g[x] = f[x],
           NEW a, a \notin S, g[a] \in Int
    PROVE  SumFunctionOnSet(g, S \cup {a}) = SumFunctionOnSet(f, S) + g[a]
<1>1. IsFiniteSet(S \cup {a}) /\ Ints(g, S \cup {a}) /\ (S \cup {a}) \ {a} = S
  BY FiniteMore DEF Ints
<1>2. SumFunctionOnSet(g, S \cup {a}) = g[a] + SumFunctionOnSet(g, S)
  BY <1>1, SumRemove
<1>3. SumFunctionOnSet(g, S) = SumFunctionOnSet(f, S) /\ SumFunctionOnSet(f, S) \in Int
  BY SumSame, SumInt
<1> QED BY <1>2, <1>3

(* A sum follows the change of one of its terms.                           *)
LEMMA SumChange ==
    ASSUME NEW f, NEW g, NEW S, IsFiniteSet(S), Ints(f, S), Ints(g, S), NEW a \in S,
           \A x \in S \ {a} : g[x] = f[x]
    PROVE  SumFunctionOnSet(g, S) = SumFunctionOnSet(f, S) - f[a] + g[a]
<1> DEFINE T == S \ {a}
<1>1. IsFiniteSet(T) /\ Ints(f, T) /\ Ints(g, T) /\ \A x \in T : g[x] = f[x]
  BY FinitePart DEF Ints
<1>2. /\ SumFunctionOnSet(f, S) = f[a] + SumFunctionOnSet(f, T)
      /\ SumFunctionOnSet(g, S) = g[a] + SumFunctionOnSet(g, T)
  BY SumRemove
<1> HIDE DEF T
<1>3. SumFunctionOnSet(f, T) \in Int /\ SumFunctionOnSet(g, T) = SumFunctionOnSet(f, T)
  BY <1>1, SumInt, SumSame
<1>4. f[a] \in Int /\ g[a] \in Int
  BY DEF Ints
<1> QED BY <1>2, <1>3, <1>4

(* A sum of naturals is one, and no term is above it.                      *)
LEMMA SumNat ==
    ASSUME NEW f, NEW S, IsFiniteSet(S), \A x \in S : f[x] \in Nat
    PROVE  SumFunctionOnSet(f, S) \in Nat /\ \A a \in S : f[a] <= SumFunctionOnSet(f, S)
<1> DEFINE Q == {s \in SUBSET S : SumFunctionOnSet(f, s) \in Nat}
<1>1. {} \in Q
  BY SumEmpty
<1>2. ASSUME NEW s \in SUBSET S, s # {}, \A x \in s : s \ {x} \in Q PROVE s \in Q
  <2>1. first(s) \in s /\ IsFiniteSet(s)
    BY <1>2, FirstIn, FinitePart
  <2>2. SumFunctionOnSet(f, s) = f[first(s)] + SumFunctionOnSet(f, s \ {first(s)})
    BY <1>2, <2>1, SumUnfold
  <2>3. f[first(s)] \in Nat /\ SumFunctionOnSet(f, s \ {first(s)}) \in Nat
    BY <1>2, <2>1
  <2> QED BY <2>2, <2>3
<1>3. \A s \in SUBSET S : SumFunctionOnSet(f, s) \in Nat
  <2>1. \A s \in SUBSET S : s \in Q
    <3> HIDE DEF Q
    <3> QED BY <1>1, <1>2, SubsetInduction
  <2> QED BY <2>1
<1>4. ASSUME NEW a \in S PROVE f[a] <= SumFunctionOnSet(f, S)
  <2>1. Ints(f, S)
    BY DEF Ints
  <2>2. SumFunctionOnSet(f, S) = f[a] + SumFunctionOnSet(f, S \ {a})
    BY <2>1, SumRemove
  <2>3. SumFunctionOnSet(f, S \ {a}) \in Nat /\ f[a] \in Nat
    BY <1>3
  <2> QED BY <2>2, <2>3
<1> QED BY <1>3, <1>4
=============================================================================
