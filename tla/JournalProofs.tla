--------------------------- MODULE JournalProofs ---------------------------
(***************************************************************************)
(* The journal's theorems: undoing is exact, so the journal implements     *)
(* Snapshots, committed values are those before the transaction, a latched *)
(* error changes no account, and balances are kept.                        *)
(***************************************************************************)
EXTENDS Journal, SumLemmas

-----------------------------------------------------------------------------
(* What holds at m and, with i + 1, at i, holds from 0 to m.               *)
LEMMA DownInduction ==
    ASSUME NEW m \in Nat, NEW S, m \in S, \A i \in 0..(m - 1) : i + 1 \in S => i \in S
    PROVE  \A i \in 0..m : i \in S
<1> DEFINE T == {n \in Nat : n <= m => m - n \in S}
<1>1. 0 \in T
  OBVIOUS
<1>2. ASSUME NEW n \in Nat, n \in T PROVE n + 1 \in T
  <2>1. SUFFICES ASSUME n + 1 <= m PROVE m - (n + 1) \in S
    OBVIOUS
  <2>2. m - n \in S /\ m - (n + 1) \in 0..(m - 1) /\ (m - (n + 1)) + 1 = m - n
    BY <1>2, <2>1
  <2> QED BY <2>2
<1>3. \A n \in Nat : n \in T
  <2> HIDE DEF T
  <2> QED BY <1>1, <1>2, SetInduction
<1>4. ASSUME NEW i \in 0..m PROVE i \in S
  <2>1. m - i \in Nat /\ m - i <= m /\ m - (m - i) = i
    OBVIOUS
  <2>2. m - (m - i) \in S
    BY <1>3, <2>1
  <2> QED BY <2>1, <2>2
<1> QED BY <1>4

(* A sequence, of whatever elements.                                       *)
Log(j) == j \in Seq({j[i] : i \in DOMAIN j})

LEMMA LogFacts ==
    ASSUME NEW j, Log(j)
    PROVE  Len(j) \in Nat /\ DOMAIN j = 1..Len(j)
BY DEF Log

LEMMA LogAppend ==
    ASSUME NEW j, NEW e, Log(j)
    PROVE  /\ Log(Append(j, e)) /\ Len(Append(j, e)) = Len(j) + 1
           /\ \A i \in 1..Len(j) : Append(j, e)[i] = j[i]
           /\ Append(j, e)[Len(j) + 1] = e
<1> DEFINE R == {j[i] : i \in DOMAIN j}
           g == Append(j, e)
<1>1. j \in Seq(R \cup {e}) /\ e \in R \cup {e}
  BY DEF Log
<1>2. Len(j) \in Nat /\ DOMAIN j = 1..Len(j)
  BY LogFacts
<1> HIDE DEF R
<1>3. /\ g \in Seq(R \cup {e}) /\ Len(g) = Len(j) + 1
      /\ \A i \in 1..Len(j) : g[i] = j[i]
      /\ g[Len(j) + 1] = e
  BY <1>1
<1> HIDE DEF g
<1>4. Log(g)
  BY <1>3 DEF Log
<1> QED BY <1>3, <1>4 DEF g

LEMMA LogSub ==
    ASSUME NEW j, Log(j), NEW m \in 0..Len(j)
    PROVE  /\ Log(SubSeq(j, 1, m)) /\ Len(SubSeq(j, 1, m)) = m
           /\ \A i \in 1..m : SubSeq(j, 1, m)[i] = j[i]
<1> DEFINE g == SubSeq(j, 1, m)
           R == {j[i] : i \in DOMAIN j}
<1>1. j \in Seq(R)
  BY DEF Log
<1>2. Len(j) \in Nat /\ DOMAIN j = 1..Len(j)
  BY LogFacts
<1> HIDE DEF R
<1>3. /\ g \in Seq(R) /\ Len(g) = m
      /\ \A i \in 1..m : g[i] = j[i]
  BY <1>1, <1>2
<1> HIDE DEF g
<1>4. Log(g)
  BY <1>3 DEF Log
<1> QED BY <1>3, <1>4 DEF g

-----------------------------------------------------------------------------
(* The recursion that undoes entries.                                      *)
undoStep(d, j, g, id) == IF id = Len(j) THEN d ELSE undo(g[id + 1], j[id + 1])

LEMMA HistoryExists ==
    ASSUME NEW d, NEW j, Len(j) \in Nat
    PROVE  \E g : g = [id \in 0..Len(j) |-> undoStep(d, j, g, id)]
<1> DEFINE S == {m \in 0..Len(j) : \E g : g = [id \in m..Len(j) |-> undoStep(d, j, g, id)]}
<1>1. Len(j) \in S
  <2> DEFINE g == [id \in Len(j)..Len(j) |-> d]
  <2>1. g = [id \in Len(j)..Len(j) |-> undoStep(d, j, g, id)]
    BY DEF undoStep
  <2> HIDE DEF g
  <2> QED BY <2>1
<1>2. ASSUME NEW m \in 0..(Len(j) - 1), m + 1 \in S PROVE m \in S
  <2>1. PICK g : g = [id \in (m + 1)..Len(j) |-> undoStep(d, j, g, id)]
    BY <1>2
  <2> DEFINE h == [id \in m..Len(j) |-> undoStep(d, j, g, id)]
  <2>2. ASSUME NEW id \in (m + 1)..Len(j) PROVE h[id] = g[id]
    <3>1. id \in m..Len(j)
      OBVIOUS
    <3>2. h[id] = undoStep(d, j, g, id)
      BY <3>1
    <3>3. g[id] = undoStep(d, j, g, id)
      BY <2>1
    <3> QED BY <3>2, <3>3
  <2>3. ASSUME NEW id \in m..Len(j) PROVE undoStep(d, j, g, id) = undoStep(d, j, h, id)
    <3>1. CASE id = Len(j)
      BY <3>1 DEF undoStep
    <3>2. CASE id # Len(j)
      <4>1. id + 1 \in (m + 1)..Len(j)
        BY <3>2
      <4>2. h[id + 1] = g[id + 1]
        BY <4>1, <2>2, Zenon
      <4> HIDE DEF h
      <4> QED BY <4>2 DEF undoStep
    <3> QED BY <3>1, <3>2
  <2>4. h = [id \in m..Len(j) |-> undoStep(d, j, h, id)]
    BY <2>3
  <2> HIDE DEF h
  <2> QED BY <2>4
<1>3. \A m \in 0..Len(j) : m \in S
  <2> HIDE DEF S
  <2> QED BY <1>1, <1>2, DownInduction
<1>4. 0 \in S
  BY <1>3
<1> QED BY <1>4

(* The latest table is d itself, an earlier one is the next with one entry *)
(* undone.                                                                 *)
LEMMA HistoryDef ==
    ASSUME NEW d, NEW j, Len(j) \in Nat
    PROVE  /\ history(d, j)[Len(j)] = d
           /\ \A id \in 0..(Len(j) - 1) :
                history(d, j)[id] = undo(history(d, j)[id + 1], j[id + 1])
<1> DEFINE g == CHOOSE g : g = [id \in 0..Len(j) |-> undoStep(d, j, g, id)]
<1>1. history(d, j) = g
  BY DEF history, undoStep
<1>2. g = [id \in 0..Len(j) |-> undoStep(d, j, g, id)]
  BY HistoryExists
<1> HIDE DEF g
<1>3. \A id \in 0..Len(j) : g[id] = undoStep(d, j, g, id)
  BY <1>2
<1>4. g[Len(j)] = d
  BY <1>3 DEF undoStep
<1>5. \A id \in 0..(Len(j) - 1) : g[id] = undo(g[id + 1], j[id + 1])
  BY <1>3 DEF undoStep
<1> QED BY <1>1, <1>4, <1>5

-----------------------------------------------------------------------------
(* Tables of the adapter's shape, and entries that undo exactly: a code    *)
(* entry kept no code.                                                     *)
Shaped(d) == d = [p \in Parts |-> [k \in keysOf(p) |-> d[p][k]]]
Entry(e) == e.part \in Parts /\ e.key \in keysOf(e.part) /\ (e.part = "code" => e.prev = NoCode)
Entries(j) == Log(j) /\ \A i \in 1..Len(j) : Entry(j[i])

(* A table with the value of one key replaced.                             *)
put(d, p, k, v) == [d EXCEPT ![p][k] = v]
Puts(d, p, k, v, e) ==
    /\ Shaped(e)
    /\ e[p][k] = v
    /\ \A q \in Parts : q # p => e[q] = d[q]
    /\ \A m \in keysOf(p) : m # k => e[p][m] = d[p][m]

LEMMA PutFacts ==
    ASSUME NEW d, Shaped(d), NEW p \in Parts, NEW k \in keysOf(p), NEW v
    PROVE  Puts(d, p, k, v, put(d, p, k, v))
<1>1. DOMAIN d = Parts /\ DOMAIN d[p] = keysOf(p)
  BY DEF Shaped
<1>2. put(d, p, k, v) = [q \in Parts |-> IF q = p THEN [d[p] EXCEPT ![k] = v] ELSE d[q]]
  BY <1>1, Zenon DEF put
<1>3. ASSUME NEW q \in Parts
      PROVE  /\ d[q] = [m \in keysOf(q) |-> d[q][m]]
  BY DEF Shaped
<1>4. [d[p] EXCEPT ![k] = v] = [m \in keysOf(p) |-> IF m = k THEN v ELSE d[p][m]]
  BY <1>1, Zenon
<1> DEFINE e == put(d, p, k, v)
<1>5. ASSUME NEW q \in Parts PROVE e[q] = [m \in keysOf(q) |-> e[q][m]]
  <2>1. CASE q = p
    BY <1>2, <1>4, <2>1
  <2>2. CASE q # p
    BY <1>2, <1>3, <2>2
  <2> QED BY <2>1, <2>2
<1>6. e = [q \in Parts |-> e[q]]
  BY <1>2
<1>7. Shaped(e)
  <2> HIDE DEF e
  <2> QED BY <1>5, <1>6 DEF Shaped
<1> QED BY <1>2, <1>4, <1>7 DEF Puts

(* Writing back what was there is what undoing a write comes to.           *)
LEMMA PutBack ==
    ASSUME NEW d, Shaped(d), NEW p \in Parts, NEW k \in keysOf(p), NEW v
    PROVE  put(put(d, p, k, v), p, k, d[p][k]) = d
<1> DEFINE e == put(d, p, k, v)
           f == put(e, p, k, d[p][k])
<1>1. Puts(d, p, k, v, e)
  BY PutFacts
<1> HIDE DEF e
<1>2. Shaped(e)
  BY <1>1 DEF Puts
<1>3. Puts(e, p, k, d[p][k], f)
  BY <1>2, PutFacts
<1> HIDE DEF f
<1>4. ASSUME NEW q \in Parts, NEW m \in keysOf(q) PROVE f[q][m] = d[q][m]
  BY <1>1, <1>3 DEF Puts
<1>5. f = d
  BY <1>3, <1>4 DEF Shaped, Puts
<1> QED BY <1>5 DEF e, f

(* An entry's closure is one such write.                                   *)
LEMMA UndoPuts ==
    ASSUME NEW d, NEW e, Entry(e)
    PROVE  undo(d, e) = put(d, e.part, e.key, e.prev)
<1>1. ~(e.part = "code" /\ e.prev # NoCode)
  BY DEF Entry
<1> QED BY <1>1, Zenon DEF undo, put

(* Every table of the history has the shape.                               *)
LEMMA HistoryShaped ==
    ASSUME NEW d, NEW j, Shaped(d), Entries(j)
    PROVE  \A id \in 0..Len(j) : Shaped(history(d, j)[id])
<1> DEFINE S == {id \in 0..Len(j) : Shaped(history(d, j)[id])}
<1>1. Len(j) \in Nat
  BY LogFacts DEF Entries
<1>2. Len(j) \in S
  BY <1>1, HistoryDef
<1>3. ASSUME NEW id \in 0..(Len(j) - 1), id + 1 \in S PROVE id \in S
  <2>1. Entry(j[id + 1])
    BY <1>1 DEF Entries
  <2>2. history(d, j)[id] = undo(history(d, j)[id + 1], j[id + 1])
    BY <1>1, HistoryDef
  <2>3. undo(history(d, j)[id + 1], j[id + 1])
        = put(history(d, j)[id + 1], j[id + 1].part, j[id + 1].key, j[id + 1].prev)
    BY <2>1, UndoPuts
  <2>4. j[id + 1].part \in Parts /\ j[id + 1].key \in keysOf(j[id + 1].part)
    BY <2>1 DEF Entry
  <2>5. Puts(history(d, j)[id + 1], j[id + 1].part, j[id + 1].key, j[id + 1].prev, history(d, j)[id])
    BY <2>2, <2>3, <2>4, <1>3, PutFacts
  <2>6. Shaped(history(d, j)[id])
    BY <2>5 DEF Puts
  <2> QED BY <1>1, <2>6
<1>4. \A id \in 0..Len(j) : id \in S
  <2> HIDE DEF S
  <2> QED BY <1>1, <1>2, <1>3, DownInduction
<1> QED BY <1>4

(* An entry appended with the write it undoes changes no earlier table.    *)
LEMMA HistoryAppend ==
    ASSUME NEW d, NEW c, NEW j, NEW e, Log(j), undo(c, e) = d
    PROVE  \A id \in 0..Len(j) : history(c, Append(j, e))[id] = history(d, j)[id]
<1> DEFINE g == Append(j, e)
           S == {id \in 0..Len(j) : history(c, g)[id] = history(d, j)[id]}
<1>1. /\ Len(j) \in Nat /\ Len(g) = Len(j) + 1
      /\ \A i \in 1..Len(j) : g[i] = j[i]
      /\ g[Len(j) + 1] = e
  BY LogFacts, LogAppend
<1> HIDE DEF g
<1>2. history(c, g)[Len(g)] = c
  BY <1>1, HistoryDef
<1>3. \A id \in 0..Len(j) : history(c, g)[id] = undo(history(c, g)[id + 1], g[id + 1])
  BY <1>1, HistoryDef
<1>4. Len(j) \in S
  <2>1. history(c, g)[Len(j)] = undo(c, e)
    BY <1>1, <1>2, <1>3
  <2> QED BY <1>1, <2>1, HistoryDef
<1>5. ASSUME NEW id \in 0..(Len(j) - 1), id + 1 \in S PROVE id \in S
  <2>1. history(c, g)[id] = undo(history(c, g)[id + 1], j[id + 1])
    BY <1>1, <1>3
  <2>2. history(d, j)[id] = undo(history(d, j)[id + 1], j[id + 1])
    BY <1>1, HistoryDef
  <2> QED BY <1>1, <1>5, <2>1, <2>2
<1>6. \A id \in 0..Len(j) : id \in S
  <2> HIDE DEF S
  <2> QED BY <1>1, <1>4, <1>5, DownInduction
<1> QED BY <1>6 DEF g

(* Reverting to m leaves the tables before m as they were.                 *)
LEMMA HistoryRevert ==
    ASSUME NEW d, NEW j, Log(j), NEW m \in 0..Len(j)
    PROVE  \A id \in 0..m : history(history(d, j)[m], SubSeq(j, 1, m))[id] = history(d, j)[id]
<1> DEFINE g == SubSeq(j, 1, m)
           c == history(d, j)[m]
           S == {id \in 0..m : history(c, g)[id] = history(d, j)[id]}
<1>1. /\ Len(j) \in Nat /\ m \in Nat /\ Len(g) = m
      /\ \A i \in 1..m : g[i] = j[i]
  BY LogFacts, LogSub
<1> HIDE DEF g
<1>2. m \in S
  BY <1>1, HistoryDef
<1> HIDE DEF c
<1>3. ASSUME NEW id \in 0..(m - 1), id + 1 \in S PROVE id \in S
  <2>1. history(c, g)[id] = undo(history(c, g)[id + 1], j[id + 1])
    <3>1. id \in 0..(Len(g) - 1) /\ g[id + 1] = j[id + 1]
      BY <1>1
    <3>2. Len(g) \in Nat
      BY <1>1
    <3>3. history(c, g)[id] = undo(history(c, g)[id + 1], g[id + 1])
      BY <3>1, <3>2, HistoryDef
    <3> QED BY <3>1, <3>3
  <2>2. history(d, j)[id] = undo(history(d, j)[id + 1], j[id + 1])
    BY <1>1, HistoryDef
  <2> QED BY <1>1, <1>3, <2>1, <2>2
<1>4. \A id \in 0..m : id \in S
  <2> HIDE DEF S
  <2> QED BY <1>1, <1>2, <1>3, DownInduction
<1> QED BY <1>4 DEF g, c

(* A key none of the entries is about keeps its value through the history. *)
LEMMA HistoryKeeps ==
    ASSUME NEW d, NEW j, Shaped(d), Entries(j), NEW p \in Parts, NEW k \in keysOf(p),
           \A i \in 1..Len(j) : ~(j[i].part = p /\ j[i].key = k)
    PROVE  \A id \in 0..Len(j) : history(d, j)[id][p][k] = d[p][k]
<1> DEFINE S == {id \in 0..Len(j) : history(d, j)[id][p][k] = d[p][k]}
<1>1. Len(j) \in Nat
  BY LogFacts DEF Entries
<1>2. Len(j) \in S
  BY <1>1, HistoryDef
<1>3. ASSUME NEW id \in 0..(Len(j) - 1), id + 1 \in S PROVE id \in S
  <2> DEFINE h == history(d, j)[id + 1]
             e == j[id + 1]
  <2>1. Entry(e) /\ ~(e.part = p /\ e.key = k)
    BY <1>1 DEF Entries
  <2>2. history(d, j)[id] = undo(h, e)
    BY <1>1, HistoryDef
  <2>3. Shaped(h)
    BY <1>1, HistoryShaped
  <2> HIDE DEF h, e
  <2>4. undo(h, e) = put(h, e.part, e.key, e.prev)
    BY <2>1, UndoPuts
  <2>5. e.part \in Parts /\ e.key \in keysOf(e.part)
    BY <2>1 DEF Entry
  <2>6. Puts(h, e.part, e.key, e.prev, undo(h, e))
    BY <2>3, <2>4, <2>5, PutFacts
  <2>7. undo(h, e)[p][k] = h[p][k]
    BY <2>1, <2>6 DEF Puts
  <2> QED BY <1>1, <1>3, <2>2, <2>7 DEF h
<1>4. \A id \in 0..Len(j) : id \in S
  <2> HIDE DEF S
  <2> QED BY <1>1, <1>2, <1>3, DownInduction
<1> QED BY <1>4

-----------------------------------------------------------------------------
(* A method's writes: t follows from s by writes that can all be undone,   *)
(* to storage of the addresses of C only.                                  *)
State(s) == Shaped(s.db) /\ Entries(s.journal)
StorageIn(j, C) == \A i \in 1..Len(j) : j[i].part = "storage" => j[i].key \in C
SameBefore(s, t) ==
    \A id \in 0..Len(s.journal) : history(t.db, t.journal)[id] = history(s.db, s.journal)[id]
Follows(s, t, C) ==
    /\ State(t)
    /\ Len(s.journal) <= Len(t.journal)
    /\ SameBefore(s, t)
    /\ StorageIn(s.journal, C) => StorageIn(t.journal, C)

LEMMA FollowsItself ==
    ASSUME NEW s, State(s), NEW C
    PROVE  Follows(s, s, C)
<1>1. Len(s.journal) \in Nat
  BY LogFacts DEF State, Entries
<1> QED BY <1>1 DEF Follows, SameBefore

LEMMA FollowsOn ==
    ASSUME NEW s, NEW t, NEW u, NEW C, State(s), Follows(s, t, C), Follows(t, u, C)
    PROVE  Follows(s, u, C)
<1>1. Len(s.journal) \in Nat /\ Len(t.journal) \in Nat /\ Len(u.journal) \in Nat
  BY LogFacts DEF Follows, State, Entries
<1>2. Len(s.journal) <= Len(t.journal) /\ Len(t.journal) <= Len(u.journal)
  BY DEF Follows
<1>3. SameBefore(s, u)
  <2>1. ASSUME NEW id \in 0..Len(s.journal)
        PROVE  history(u.db, u.journal)[id] = history(s.db, s.journal)[id]
    <3>1. id \in 0..Len(t.journal)
      BY <1>1, <1>2
    <3> QED BY <3>1 DEF Follows, SameBefore
  <2> QED BY <2>1 DEF SameBefore
<1>4. StorageIn(s.journal, C) => StorageIn(u.journal, C)
  BY DEF Follows
<1> QED BY <1>1, <1>2, <1>3, <1>4 DEF Follows

LEMMA SetFollows ==
    ASSUME NEW s, State(s), NEW p \in Parts, NEW k \in keysOf(p), NEW v, NEW C,
           p = "code" => s.db[p][k] = NoCode, p = "storage" => k \in C
    PROVE  /\ Follows(s, set(s, p, k, v), C)
           /\ Puts(s.db, p, k, v, set(s, p, k, v).db)
<1> DEFINE e == [part |-> p, key |-> k, prev |-> s.db[p][k]]
           t == set(s, p, k, v)
<1>1. t.db = put(s.db, p, k, v) /\ t.journal = Append(s.journal, e)
  BY DEF set, put
<1>2. e.part = p /\ e.key = k /\ e.prev = s.db[p][k]
  OBVIOUS
<1> HIDE DEF t, e
<1>3. Shaped(s.db) /\ Log(s.journal) /\ \A i \in 1..Len(s.journal) : Entry(s.journal[i])
  BY DEF State, Entries
<1>4. Puts(s.db, p, k, v, t.db)
  BY <1>1, <1>3, PutFacts
<1>5. Entry(e)
  BY <1>2 DEF Entry
<1>6. undo(t.db, e) = s.db
  BY <1>1, <1>2, <1>3, <1>5, UndoPuts, PutBack
<1>7. SameBefore(s, t)
  BY <1>1, <1>3, <1>6, HistoryAppend DEF SameBefore
<1>8. /\ Len(s.journal) \in Nat /\ Log(t.journal) /\ Len(t.journal) = Len(s.journal) + 1
      /\ \A i \in 1..Len(s.journal) : t.journal[i] = s.journal[i]
      /\ t.journal[Len(s.journal) + 1] = e
  BY <1>1, <1>3, LogFacts, LogAppend
<1>9. Entries(t.journal)
  <2>1. ASSUME NEW i \in 1..Len(t.journal) PROVE Entry(t.journal[i])
    <3>1. CASE i = Len(s.journal) + 1
      BY <3>1, <1>5, <1>8
    <3>2. CASE i # Len(s.journal) + 1
      <4>1. i \in 1..Len(s.journal)
        BY <3>2, <1>8
      <4> QED BY <4>1, <1>3, <1>8
    <3> QED BY <3>1, <3>2
  <2> QED BY <2>1, <1>8 DEF Entries
<1>10. State(t)
  BY <1>4, <1>9 DEF State, Puts
<1>11. StorageIn(s.journal, C) => StorageIn(t.journal, C)
  <2>1. SUFFICES ASSUME StorageIn(s.journal, C), NEW i \in 1..Len(t.journal),
                        t.journal[i].part = "storage"
                 PROVE  t.journal[i].key \in C
    BY DEF StorageIn
  <2>2. CASE i = Len(s.journal) + 1
    <3>1. t.journal[i] = e
      BY <2>2, <1>8
    <3>2. p = "storage"
      BY <3>1, <2>1, <1>2
    <3> QED BY <3>1, <3>2, <1>2
  <2>3. CASE i # Len(s.journal) + 1
    <3>1. i \in 1..Len(s.journal)
      BY <2>3, <1>8
    <3> QED BY <3>1, <2>1, <1>8 DEF StorageIn
  <2> QED BY <2>2, <2>3
<1>12. Follows(s, t, C)
  BY <1>7, <1>8, <1>10, <1>11 DEF Follows
<1> QED BY <1>4, <1>12 DEF t

(* Flags are such writes, and change nothing else.                         *)
LEMMA FlagFollows ==
    ASSUME NEW s, State(s), NEW p \in FlagParts, NEW a \in Addr, NEW C
    PROVE  /\ Follows(s, flag(s, p, a), C)
           /\ \A q \in Parts : q # p => flag(s, p, a).db[q] = s.db[q]
<1>1. p \in Parts /\ a \in keysOf(p) /\ p # "code" /\ p # "storage"
  BY DEF Parts, FlagParts, keysOf
<1>2. CASE s.db[p][a]
  <2>1. flag(s, p, a) = s
    BY <1>2 DEF flag
  <2> QED BY <2>1, FollowsItself
<1>3. CASE ~s.db[p][a]
  <2>1. flag(s, p, a) = set(s, p, a, TRUE)
    BY <1>3 DEF flag
  <2>2. Follows(s, set(s, p, a, TRUE), C) /\ Puts(s.db, p, a, TRUE, set(s, p, a, TRUE).db)
    BY <1>1, SetFollows, Zenon
  <2> QED BY <2>1, <2>2, Zenon DEF Puts
<1> QED BY <1>2, <1>3

(* A touch and a write, as most methods make them.                         *)
LEMMA TouchSetFollows ==
    ASSUME NEW s, State(s), NEW a \in Addr, NEW p \in Parts \ FlagParts, NEW k \in keysOf(p),
           NEW v, NEW C, p = "code" => s.db[p][k] = NoCode, p = "storage" => k \in C
    PROVE  /\ Follows(s, set(touch(s, a), p, k, v), C)
           /\ Puts(touch(s, a).db, p, k, v, set(touch(s, a), p, k, v).db)
           /\ touch(s, a).db["balance"] = s.db["balance"]
           /\ p # "balance" => set(touch(s, a), p, k, v).db["balance"] = s.db["balance"]
<1> DEFINE t == touch(s, a)
<1>1. Follows(s, t, C) /\ \A q \in Parts : q # "touched" => t.db[q] = s.db[q]
  <2>1. "touched" \in FlagParts
    BY DEF FlagParts
  <2> QED BY <2>1, FlagFollows DEF touch
<1> HIDE DEF t
<1>2. /\ p \in Parts /\ p # "touched" /\ "balance" \in Parts
      /\ p = "code" => t.db[p][k] = NoCode
  BY <1>1 DEF Parts, FlagParts, AccountParts
<1>3. State(t)
  BY <1>1 DEF Follows
<1>4. Follows(t, set(t, p, k, v), C) /\ Puts(t.db, p, k, v, set(t, p, k, v).db)
  BY <1>2, <1>3, SetFollows
<1>5. Follows(s, set(t, p, k, v), C)
  BY <1>1, <1>4, FollowsOn
<1>6. t.db["balance"] = s.db["balance"]
  BY <1>1, <1>2
<1>7. p # "balance" => set(t, p, k, v).db["balance"] = s.db["balance"]
  BY <1>2, <1>4, <1>6 DEF Puts
<1> QED BY <1>4, <1>5, <1>6, <1>7 DEF t

-----------------------------------------------------------------------------
(* The inductive invariant.  The journal's history reaches back to the     *)
(* table the transaction began with, and frames are points of it.          *)
FramesInOrder ==
    /\ frames \in Seq(Nat)
    /\ \A i \in 1..Len(frames) : frames[i] <= Len(journal)
    /\ \A i, k \in 1..Len(frames) : i <= k => frames[i] <= frames[k]
    /\ phase = "running" => Len(frames) >= 1 /\ frames[1] = 0
    /\ phase # "running" => frames = <<>>

Core ==
    /\ original \in Accounts
    /\ phase \in {"running", "settled", "done"}
    /\ err \in BOOLEAN
    /\ Shaped(db) /\ Entries(journal)
    /\ FramesInOrder
    /\ phase = "running" => undone(0) = fresh(original)

(* A slot that was written to has its committed value cached.              *)
Committed ==
    /\ CommittedIsOriginal
    /\ DOMAIN committed \subseteq Addr
    /\ StorageIn(journal, DOMAIN committed)

Latched ==
    /\ phase = "settled" /\ err => db = fresh(original)
    /\ phase = "settled" => ended = ~err
    /\ ErrorChangesNothing

(* Balances of the current table and of every one a frame may go back to.  *)
total(d) == SumFunctionOnSet(d["balance"], Addr)
Kept(d, accounts, whole) ==
    /\ d["balance"] \in [Addr -> 0..(Uint64 - 1)]
    /\ total(d) <= total(accounts)
    /\ whole => total(d) = total(accounts)
Intact == phase = "running" /\ ~err
Balanced ==
    /\ Kept(db, original, Intact)
    /\ \A i \in 1..Len(frames) : Kept(undone(frames[i]), original, Intact)

(* What a method does to the table and the journal.                        *)
MethodTo(t, C) ==
    /\ Executing
    /\ Follows(now, t, C)
    /\ db' = t.db /\ journal' = t.journal
    /\ UNCHANGED methodVars

LEMMA NowIsState ==
    ASSUME Core
    PROVE  State(now) /\ now.db = db /\ now.journal = journal
BY DEF Core, State, now

(* The methods other than Transfer move no balance.                        *)
Methods ==
    \/ \E a \in Addr : SetNonce(a)
    \/ \E a \in Contracts : \/ SetCode(a) \/ CreateContract(a) \/ SelfDestruct(a)
                            \/ AddSlotToAccessList(a) \/ GetStateAndCommittedState(a)
    \/ \E a \in Contracts, v \in 0..1 : SetTransientState(a, v) \/ SetState(a, v)
    \/ \E gas \in 0..1 : SetRefund(gas)
    \/ AddLog

Moveless(t) == MethodTo(t, DOMAIN committed') /\ t.db["balance"] = db["balance"] /\ err' = err

LEMMA MethodsFollow ==
    ASSUME Core, Methods
    PROVE  \E t : Moveless(t)
<1> DEFINE C == DOMAIN committed'
<1>1. State(now) /\ now.db = db /\ now.journal = journal
  BY NowIsState
<1>2. Contracts \subseteq Addr
  BY JournalAssumption
<1>3. /\ "nonce" \in Parts \ FlagParts /\ "code" \in Parts \ FlagParts
      /\ "storage" \in Parts \ FlagParts
      /\ "refund" \in Parts /\ "logs" \in Parts /\ "transient" \in Parts /\ "balance" \in Parts
      /\ keysOf("nonce") = Addr /\ keysOf("code") = Addr /\ keysOf("storage") = Addr
      /\ keysOf("transient") = Addr /\ keysOf("refund") = {Whole} /\ keysOf("logs") = {Whole}
      /\ {"touched", "newContracts", "selfDestructed", "warmAddrs", "warmSlots"} \subseteq FlagParts
      /\ "balance" \notin FlagParts
  BY DEF Parts, AccountParts, FlagParts, keysOf
<1>4. ASSUME NEW t, Follows(now, t, C), t.db["balance"] = db["balance"], become(t), Executing,
             UNCHANGED methodVars, err' = err
      PROVE  \E u : Moveless(u)
  <2>1. Moveless(t)
    BY <1>4 DEF Moveless, MethodTo, become
  <2> QED BY <2>1
<1>5. ASSUME NEW a \in Addr, SetNonce(a) PROVE \E t : Moveless(t)
  <2> DEFINE t == set(touch(now, a), "nonce", a, db["nonce"][a] + 1)
  <2>1. Follows(now, t, C) /\ t.db["balance"] = db["balance"]
    BY <1>1, <1>3, TouchSetFollows
  <2> HIDE DEF t
  <2>2. become(t) /\ Executing /\ UNCHANGED methodVars /\ err' = err
    BY <1>5 DEF SetNonce, t
  <2> QED BY <1>4, <2>1, <2>2
<1>6. ASSUME NEW a \in Contracts, SetCode(a) PROVE \E t : Moveless(t)
  <2> DEFINE t == set(touch(now, a), "code", a, Tagged)
  <2>1. Follows(now, t, C) /\ t.db["balance"] = db["balance"]
    <3>1. a \in Addr /\ now.db["code"][a] = NoCode
      BY <1>1, <1>2, <1>6 DEF SetCode
    <3> QED BY <1>1, <1>3, <3>1, TouchSetFollows
  <2> HIDE DEF t
  <2>2. become(t) /\ Executing /\ UNCHANGED methodVars /\ err' = err
    BY <1>6 DEF SetCode, t
  <2> QED BY <1>4, <2>1, <2>2
<1>7. ASSUME NEW p \in FlagParts, NEW q \in FlagParts, NEW a \in Addr
      PROVE  /\ Follows(now, flag(flag(now, p, a), q, a), C)
             /\ flag(flag(now, p, a), q, a).db["balance"] = db["balance"]
  <2> DEFINE s == flag(now, p, a)
  <2>1. Follows(now, s, C) /\ s.db["balance"] = db["balance"]
    BY <1>1, <1>3, FlagFollows
  <2>2. State(s)
    BY <2>1 DEF Follows
  <2> HIDE DEF s
  <2>3. Follows(s, flag(s, q, a), C) /\ flag(s, q, a).db["balance"] = s.db["balance"]
    BY <1>3, <2>2, FlagFollows
  <2>4. Follows(now, flag(s, q, a), C)
    BY <1>1, <2>1, <2>3, FollowsOn
  <2> QED BY <2>1, <2>3, <2>4 DEF s
<1>8. ASSUME NEW a \in Contracts,
             CreateContract(a) \/ SelfDestruct(a) \/ AddSlotToAccessList(a)
      PROVE  \E t : Moveless(t)
  <2>1. PICK p \in FlagParts, q \in FlagParts : become(flag(flag(now, p, a), q, a))
    BY <1>3, <1>8 DEF CreateContract, SelfDestruct, AddSlotToAccessList, touch
  <2> DEFINE t == flag(flag(now, p, a), q, a)
  <2>2. a \in Addr
    BY <1>2
  <2>3. Follows(now, t, C) /\ t.db["balance"] = db["balance"]
    BY <1>7, <2>2
  <2> HIDE DEF t
  <2>4. become(t) /\ Executing /\ UNCHANGED methodVars /\ err' = err
    BY <1>8, <2>1 DEF CreateContract, SelfDestruct, AddSlotToAccessList, t
  <2> QED BY <1>4, <2>3, <2>4
<1>9. ASSUME NEW a \in Contracts, GetStateAndCommittedState(a) PROVE \E t : Moveless(t)
  <2>1. Follows(now, now, C)
    BY <1>1, FollowsItself
  <2>2. Moveless(now)
    BY <1>1, <1>9, <2>1 DEF Moveless, MethodTo, GetStateAndCommittedState
  <2> QED BY <2>2
<1>10. ASSUME NEW p \in {"refund", "logs", "transient"}, NEW k \in keysOf(p), NEW v
       PROVE  Follows(now, set(now, p, k, v), C) /\ set(now, p, k, v).db["balance"] = db["balance"]
  <2>1. /\ Follows(now, set(now, p, k, v), C)
        /\ Puts(now.db, p, k, v, set(now, p, k, v).db)
    BY <1>1, <1>3, SetFollows
  <2> QED BY <1>1, <1>3, <2>1 DEF Puts
<1>11. ASSUME NEW a \in Contracts, NEW v \in 0..1, SetTransientState(a, v)
       PROVE  \E t : Moveless(t)
  <2> DEFINE t == IF db["transient"][a] = v THEN now ELSE set(now, "transient", a, v)
  <2>1. Follows(now, t, C) /\ t.db["balance"] = db["balance"]
    BY <1>1, <1>2, <1>3, <1>10, FollowsItself
  <2> HIDE DEF t
  <2>2. become(t) /\ Executing /\ UNCHANGED methodVars /\ err' = err
    BY <1>11 DEF SetTransientState, t
  <2> QED BY <1>4, <2>1, <2>2
<1>12. ASSUME NEW a \in Contracts, NEW v \in 0..1, SetState(a, v)
       PROVE  \E t : Moveless(t)
  <2> DEFINE t == set(touch(now, a), "storage", a, v)
  <2>1. Follows(now, t, C) /\ t.db["balance"] = db["balance"]
    <3>1. a \in C
      BY <1>12 DEF SetState, cacheCommitted
    <3>2. a \in Addr
      BY <1>2
    <3> HIDE DEF C
    <3> QED BY <1>1, <1>3, <3>1, <3>2, TouchSetFollows
  <2> HIDE DEF t
  <2>2. become(t) /\ Executing /\ UNCHANGED methodVars /\ err' = err
    BY <1>12 DEF SetState, t
  <2> QED BY <1>4, <2>1, <2>2
<1>13. ASSUME NEW gas \in 0..1, SetRefund(gas) PROVE \E t : Moveless(t)
  <2> DEFINE t == set(now, "refund", Whole, gas)
  <2>1. Follows(now, t, C) /\ t.db["balance"] = db["balance"]
    BY <1>3, <1>10
  <2> HIDE DEF t
  <2>2. become(t) /\ Executing /\ UNCHANGED methodVars /\ err' = err
    BY <1>13 DEF SetRefund, t
  <2> QED BY <1>4, <2>1, <2>2
<1>14. ASSUME AddLog PROVE \E t : Moveless(t)
  <2> DEFINE t == set(now, "logs", Whole, db["logs"][Whole] + 1)
  <2>1. Follows(now, t, C) /\ t.db["balance"] = db["balance"]
    BY <1>3, <1>10
  <2> HIDE DEF t
  <2>2. become(t) /\ Executing /\ UNCHANGED methodVars /\ err' = err
    BY <1>14 DEF AddLog, t
  <2> QED BY <1>4, <2>1, <2>2
<1> QED BY <1>5, <1>6, <1>8, <1>9, <1>11, <1>12, <1>13, <1>14 DEF Methods

(* Transfer takes the amount from one balance and adds it to another, or   *)
(* to none when an error is latched.                                       *)
Moved(B, D, a, b, amount, over) ==
    \E P \in [Addr -> Int] :
        /\ P[a] = B[a] - amount
        /\ \A c \in Addr \ {a} : P[c] = B[c]
        /\ over <=> P[b] + amount >= Uint64
        /\ over => D = P
        /\ ~over => D \in [Addr -> Int] /\ D[b] = P[b] + amount /\ \A c \in Addr \ {b} : D[c] = P[c]

LEMMA TransferFollows ==
    ASSUME Core, db["balance"] \in [Addr -> Int],
           NEW a \in Addr, NEW b \in Addr, NEW amount \in Nat, Transfer(a, b, amount)
    PROVE  \E t : /\ MethodTo(t, DOMAIN committed')
                  /\ \E over \in BOOLEAN :
                        /\ err' = (err \/ over)
                        /\ Moved(db["balance"], t.db["balance"], a, b, amount, over)
<1> DEFINE C == DOMAIN committed'
           B == db["balance"]
           paid == set(touch(now, a), "balance", a, B[a] - amount)
           P == paid.db["balance"]
           sum == P[b] + amount
           over == sum >= Uint64
           added == set(touch(paid, b), "balance", b, sum)
           t == IF over THEN touch(paid, b) ELSE added
<1>1. State(now) /\ now.db = db /\ now.journal = journal
  BY NowIsState
<1>2. /\ "balance" \in Parts \ FlagParts /\ keysOf("balance") = Addr /\ "touched" \in FlagParts
      /\ "balance" \in Parts
  BY DEF Parts, AccountParts, FlagParts, keysOf
<1>3. /\ Executing /\ become(t) /\ err' = (err \/ over) /\ UNCHANGED methodVars
  BY Zenon DEF Transfer
<1>4. /\ Follows(now, paid, C)
      /\ Puts(touch(now, a).db, "balance", a, B[a] - amount, paid.db)
      /\ touch(now, a).db["balance"] = B
  BY <1>1, <1>2, TouchSetFollows, Zenon
<1> HIDE DEF paid, C
<1>5. State(paid)
  BY <1>4 DEF Follows
<1>6. /\ Follows(paid, added, C)
      /\ Puts(touch(paid, b).db, "balance", b, sum, added.db)
      /\ touch(paid, b).db["balance"] = P
  BY <1>2, <1>5, TouchSetFollows
<1>7. Follows(paid, touch(paid, b), C)
  BY <1>2, <1>5, FlagFollows DEF touch
<1>8. Follows(now, added, C) /\ Follows(now, touch(paid, b), C)
  BY <1>1, <1>4, <1>6, <1>7, FollowsOn
<1>9. P[a] = B[a] - amount /\ \A c \in Addr \ {a} : P[c] = B[c]
  BY <1>2, <1>4 DEF Puts
<1>10. P \in [Addr -> Int]
  <2>1. P = [c \in Addr |-> P[c]]
    BY <1>2, <1>5 DEF State, Shaped
  <2>2. \A c \in Addr : P[c] \in Int
    BY <1>9
  <2> HIDE DEF P
  <2> QED BY <2>1, <2>2
<1>11. added.db["balance"][b] = sum /\ \A c \in Addr \ {b} : added.db["balance"][c] = P[c]
  BY <1>2, <1>6, Zenon DEF Puts
<1>12. added.db["balance"] \in [Addr -> Int]
  <2> DEFINE D == added.db["balance"]
  <2>1. State(added)
    BY <1>8 DEF Follows
  <2>2. D = [c \in Addr |-> D[c]]
    BY <1>2, <2>1, Zenon DEF State, Shaped
  <2>3. ASSUME NEW c \in Addr PROVE D[c] \in Int
    <3>1. D[c] = P[c] \/ (c = b /\ D[c] = P[b] + amount)
      BY <1>11, Zenon
    <3> HIDE DEF D, P
    <3>2. P[c] \in Int /\ P[b] \in Int
      BY <1>10
    <3> QED BY <3>1, <3>2
  <2> HIDE DEF D
  <2>4. D \in [Addr -> Int]
    BY <2>2, <2>3
  <2> QED BY <2>4 DEF D
<1> HIDE DEF added, P
<1>13. Moved(B, t.db["balance"], a, b, amount, over)
  <2> HIDE DEF B
  <2>1. /\ over => t.db["balance"] = P
        /\ ~over => t.db["balance"] = added.db["balance"]
    BY <1>6
  <2> HIDE DEF t
  <2> QED BY <1>9, <1>10, <1>11, <1>12, <2>1 DEF Moved
<1>14. Follows(now, t, C)
  BY <1>8
<1>15. over \in BOOLEAN
  OBVIOUS
<1> HIDE DEF t, over, B
<1>16. MethodTo(t, C)
  BY <1>3, <1>14 DEF MethodTo, become
<1> QED BY <1>3, <1>13, <1>15, <1>16 DEF C, B

-----------------------------------------------------------------------------
(* The history an invariant speaks of, after a method.                     *)
LEMMA MethodKeepsHistory ==
    ASSUME Core, NEW t, NEW C, MethodTo(t, C)
    PROVE  /\ Shaped(db') /\ Entries(journal')
           /\ Len(journal) \in Nat /\ Len(journal') \in Nat /\ Len(journal) <= Len(journal')
           /\ \A id \in 0..Len(journal) : undone(id)' = undone(id)
           /\ StorageIn(journal, C) => StorageIn(journal', C)
           /\ phase = "running" /\ frames' = frames /\ phase' = phase /\ original' = original
<1>1. now.db = db /\ now.journal = journal
  BY DEF now
<1>2. Follows(now, t, C) /\ db' = t.db /\ journal' = t.journal
  BY DEF MethodTo
<1>3. State(t) /\ Len(journal) <= Len(journal') /\ SameBefore(now, t)
  BY <1>1, <1>2 DEF Follows
<1>4. Shaped(db') /\ Entries(journal')
  BY <1>2, <1>3 DEF State
<1>5. Len(journal) \in Nat /\ Len(journal') \in Nat
  BY <1>4, LogFacts DEF Core, Entries
<1>6. \A id \in 0..Len(journal) : undone(id)' = undone(id)
  BY <1>1, <1>2, <1>3 DEF SameBefore, undone
<1>7. StorageIn(journal, C) => StorageIn(journal', C)
  BY <1>1, <1>2 DEF Follows
<1> QED BY <1>3, <1>4, <1>5, <1>6, <1>7 DEF MethodTo, Executing, methodVars

LEMMA CoreMethod ==
    ASSUME Core, NEW t, NEW C, MethodTo(t, C), err' \in BOOLEAN
    PROVE  Core'
<1>1. /\ Shaped(db') /\ Entries(journal')
      /\ Len(journal) \in Nat /\ Len(journal') \in Nat /\ Len(journal) <= Len(journal')
      /\ \A id \in 0..Len(journal) : undone(id)' = undone(id)
      /\ phase = "running" /\ frames' = frames /\ phase' = phase /\ original' = original
  BY MethodKeepsHistory
<1>2. FramesInOrder'
  <2>1. FramesInOrder
    BY DEF Core
  <2> QED BY <1>1, <2>1 DEF FramesInOrder
<1>3. undone(0)' = fresh(original)
  <2>1. undone(0)' = undone(0)
    BY <1>1
  <2> QED BY <1>1, <2>1 DEF Core
<1>4. fresh(original)' = fresh(original)
  BY <1>1 DEF fresh, freshPart
<1> QED BY <1>1, <1>2, <1>3, <1>4 DEF Core

(* The same after reverting to m, and the tables that need no undoing.     *)
LEMMA RevertKeepsHistory ==
    ASSUME Core, NEW m \in 0..Len(journal), revert(m)
    PROVE  /\ Shaped(db') /\ Entries(journal') /\ db' = undone(m)
           /\ Len(journal) \in Nat /\ Len(journal') = m
           /\ \A id \in 0..m : undone(id)' = undone(id)
           /\ \A C : StorageIn(journal, C) => StorageIn(journal', C)
<1>1. Shaped(db) /\ Entries(journal) /\ Log(journal)
  BY DEF Core, Entries
<1>2. Len(journal) \in Nat
  BY <1>1, LogFacts
<1>3. db' = history(db, journal)[m] /\ journal' = SubSeq(journal, 1, m)
  BY DEF revert, undone
<1>4. Shaped(db')
  BY <1>1, <1>3, HistoryShaped
<1>5. Log(journal') /\ Len(journal') = m /\ \A i \in 1..m : journal'[i] = journal[i]
  BY <1>1, <1>3, LogSub
<1>6. \A i \in 1..m : i \in 1..Len(journal)
  BY <1>2
<1>7. Entries(journal')
  BY <1>1, <1>5, <1>6 DEF Entries
<1>8. \A id \in 0..m : undone(id)' = undone(id)
  BY <1>1, <1>3, HistoryRevert DEF undone
<1>9. \A C : StorageIn(journal, C) => StorageIn(journal', C)
  BY <1>5, <1>6 DEF StorageIn
<1> QED BY <1>2, <1>3, <1>4, <1>5, <1>7, <1>8, <1>9 DEF undone

LEMMA NowIsLast ==
    ASSUME Core
    PROVE  Len(journal) \in Nat /\ undone(Len(journal)) = db
<1>1. Len(journal) \in Nat
  BY LogFacts DEF Core, Entries
<1> QED BY <1>1, HistoryDef DEF undone

(* The steps that are not methods.                                         *)
Control == Snapshot \/ Leave \/ RevertToSnapshot \/ Settle \/ Finalise

LEMMA NextSplit ==
    ASSUME JournalNext
    PROVE  \/ Methods
           \/ \E a \in Addr, b \in Addr, amount \in Amounts : Transfer(a, b, amount)
           \/ Control
BY DEF JournalNext, Methods, Control

(* Frames stay in order when one is opened, left or failed.                *)
LEMMA FramesStep ==
    ASSUME Core, Control
    PROVE  FramesInOrder'
<1>1. FramesInOrder
  BY DEF Core
<1>2. Len(journal) \in Nat
  BY NowIsLast
<1>3. CASE Snapshot
  <2>1. phase = "running" /\ phase' = phase /\ journal' = journal /\ frames' = Append(frames, Len(journal))
    BY <1>3 DEF Snapshot, Executing
  <2>2. frames' \in Seq(Nat) /\ Len(frames') = Len(frames) + 1
    BY <1>1, <1>2, <2>1 DEF FramesInOrder
  <2>3. \A i \in 1..Len(frames') : frames'[i] = IF i = Len(frames) + 1 THEN Len(journal) ELSE frames[i]
    BY <1>1, <1>2, <2>1 DEF FramesInOrder
  <2>4. Len(frames) \in Nat /\ Len(frames) >= 1 /\ frames[1] = 0 /\ \A i \in 1..Len(frames) : frames[i] \in Nat
    BY <1>1, <2>1 DEF FramesInOrder
  <2>5. ASSUME NEW i \in 1..Len(frames') PROVE frames'[i] <= Len(journal')
    BY <1>1, <1>2, <2>1, <2>2, <2>3, <2>4, <2>5 DEF FramesInOrder
  <2>6. ASSUME NEW i \in 1..Len(frames'), NEW k \in 1..Len(frames'), i <= k
        PROVE  frames'[i] <= frames'[k]
    <3>1. CASE k = Len(frames) + 1
      BY <2>1, <2>3, <2>5, <3>1
    <3>2. CASE k # Len(frames) + 1
      <4>1. i \in 1..Len(frames) /\ k \in 1..Len(frames)
        BY <2>2, <2>4, <2>6, <3>2
      <4>2. frames'[i] = frames[i] /\ frames'[k] = frames[k]
        BY <2>3, <2>4, <3>2, <4>1
      <4> QED BY <1>1, <2>6, <4>1, <4>2 DEF FramesInOrder
    <3> QED BY <3>1, <3>2
  <2>7. frames'[1] = 0 /\ Len(frames') >= 1
    BY <2>2, <2>3, <2>4
  <2> QED BY <2>1, <2>2, <2>5, <2>6, <2>7 DEF FramesInOrder
<1>4. CASE Leave \/ RevertToSnapshot
  <2>1. /\ phase = "running" /\ phase' = phase /\ Len(frames) > 1
        /\ frames' = SubSeq(frames, 1, Len(frames) - 1)
    BY <1>4 DEF Leave, RevertToSnapshot, Executing
  <2>2. frames \in Seq(Nat) /\ Len(frames) \in Nat /\ frames[1] = 0
        /\ \A i \in 1..Len(frames) : frames[i] \in 0..Len(journal)
    BY <1>1, <1>2, <2>1 DEF FramesInOrder
  <2>3. /\ frames' \in Seq(Nat) /\ Len(frames') = Len(frames) - 1
        /\ \A i \in 1..Len(frames') : frames'[i] = frames[i]
    BY <2>1, <2>2, SMTT(30)
  <2>4. \A i, k \in 1..Len(frames) : i <= k => frames[i] <= frames[k]
    BY <1>1 DEF FramesInOrder
  <2>5. /\ \A i, k \in 1..Len(frames') : i <= k => frames'[i] <= frames'[k]
        /\ \A i \in 1..Len(frames') : frames'[i] <= frames[Len(frames)]
    <3>1. \A i \in 1..Len(frames') : i \in 1..Len(frames) /\ i <= Len(frames)
      BY <2>2, <2>3
    <3>2. Len(frames) \in 1..Len(frames)
      BY <2>1, <2>2
    <3>3. ASSUME NEW i \in 1..Len(frames'), NEW k \in 1..Len(frames'), i <= k
          PROVE  frames'[i] <= frames'[k]
      <4>1. frames'[i] = frames[i] /\ frames'[k] = frames[k]
        BY <2>3
      <4>2. frames[i] <= frames[k]
        BY <2>4, <3>1, <3>3
      <4> QED BY <4>1, <4>2
    <3>4. ASSUME NEW i \in 1..Len(frames') PROVE frames'[i] <= frames[Len(frames)]
      <4>1. frames'[i] = frames[i]
        BY <2>3
      <4>2. frames[i] <= frames[Len(frames)]
        BY <2>4, <3>1, <3>2
      <4> QED BY <4>1, <4>2
    <3> QED BY <3>3, <3>4
  <2>6. Len(journal') = Len(journal) \/ Len(journal') = frames[Len(frames)]
    <3>1. CASE Leave
      BY <3>1 DEF Leave
    <3>2. CASE RevertToSnapshot
      <4>1. frames[Len(frames)] \in 0..Len(journal) /\ revert(frames[Len(frames)])
        BY <2>1, <2>2, <3>2 DEF RevertToSnapshot
      <4> QED BY <4>1, RevertKeepsHistory
    <3> QED BY <1>4, <3>1, <3>2
  <2>7. ASSUME NEW i \in 1..Len(frames') PROVE frames'[i] <= Len(journal')
    <3>1. frames'[i] = frames[i] /\ i \in 1..Len(frames)
      BY <2>2, <2>3
    <3>2. frames[i] <= Len(journal) /\ frames'[i] <= frames[Len(frames)]
      BY <2>2, <2>5, <3>1
    <3> QED BY <2>6, <3>1, <3>2
  <2>8. Len(frames') >= 1 /\ frames'[1] = 0
    BY <2>1, <2>2, <2>3
  <2> QED BY <2>1, <2>3, <2>5, <2>7, <2>8 DEF FramesInOrder
<1>5. CASE Settle \/ Finalise
  <2>1. phase' # "running" /\ frames' = <<>>
    BY <1>1, <1>5, Zenon DEF Settle, Finalise, FramesInOrder
  <2> QED BY <2>1 DEF FramesInOrder
<1> QED BY <1>3, <1>4, <1>5 DEF Control

LEMMA CoreControl ==
    ASSUME Core, Control
    PROVE  Core'
<1>1. FramesInOrder' /\ FramesInOrder
  BY FramesStep DEF Core
<1>2. Len(journal) \in Nat
  BY NowIsLast
<1>3. original' = original /\ err' = err /\ phase' \in {"running", "settled", "done"}
  BY Zenon DEF Core, Control, Snapshot, Leave, RevertToSnapshot, Settle, Finalise
<1>4. fresh(original)' = fresh(original)
  BY <1>3 DEF fresh, freshPart
<1>5. Shaped(db') /\ Entries(journal') /\ (phase' = "running" => undone(0)' = fresh(original))
  <2>1. CASE Snapshot \/ Leave
    <3>1. db' = db /\ journal' = journal /\ phase' = phase
      BY <2>1 DEF Snapshot, Leave
    <3> QED BY <3>1 DEF Core, undone
  <2>2. ASSUME NEW m \in 0..Len(journal), revert(m), Executing
        PROVE  Shaped(db') /\ Entries(journal') /\ undone(0)' = fresh(original)
    <3>1. Shaped(db') /\ Entries(journal') /\ \A id \in 0..m : undone(id)' = undone(id)
      BY <2>2, RevertKeepsHistory
    <3>2. undone(0)' = undone(0)
      BY <1>2, <3>1
    <3> QED BY <3>1, <3>2, <2>2 DEF Core, Executing
  <2>3. CASE RevertToSnapshot
    <3>1. frames[Len(frames)] \in 0..Len(journal) /\ revert(frames[Len(frames)]) /\ Executing
      <4>1. frames \in Seq(Nat) /\ Len(frames) > 1 /\ \A i \in 1..Len(frames) : frames[i] <= Len(journal)
        BY <1>1, <2>3 DEF RevertToSnapshot, FramesInOrder
      <4> QED BY <1>2, <2>3, <4>1 DEF RevertToSnapshot
    <3> QED BY <2>2, <3>1
  <2>4. CASE Settle
    <3>1. phase' = "settled" /\ Executing
      BY <2>4 DEF Settle
    <3>2. CASE err
      <4>1. revert(frames[1]) /\ frames[1] = 0
        BY <1>1, <2>4, <3>1, <3>2 DEF Settle, FramesInOrder, Executing
      <4>2. 0 \in 0..Len(journal) /\ revert(0)
        BY <1>2, <4>1
      <4> QED BY <2>2, <3>1, <4>2
    <3>3. CASE ~err
      <4>1. db' = db /\ journal' = journal
        BY <2>4, <3>3 DEF Settle
      <4> QED BY <3>1, <4>1 DEF Core
    <3> QED BY <3>2, <3>3
  <2>5. CASE Finalise
    <3>1. phase' = "done" /\ journal' = journal
      BY <2>5 DEF Finalise
    <3>2. Shaped(db')
      <4>1. DOMAIN db = Parts /\ \A p \in Parts : DOMAIN db[p] = keysOf(p)
        BY DEF Core, Shaped
      <4>2. \E F : db' = [p \in DOMAIN db |-> [k \in DOMAIN db[p] |-> F[p][k]]]
        <5> DEFINE F == db'
        <5>1. db' = [p \in DOMAIN db |-> [k \in DOMAIN db[p] |-> F[p][k]]]
          BY <2>5 DEF Finalise
        <5> QED BY <5>1
      <4> QED BY <4>1, <4>2 DEF Shaped
    <3> QED BY <3>1, <3>2 DEF Core
  <2> QED BY <2>1, <2>3, <2>4, <2>5 DEF Control
<1> QED BY <1>1, <1>3, <1>4, <1>5 DEF Core

LEMMA CoreStep ==
    ASSUME Core, Balanced, [JournalNext]_journalVars
    PROVE  Core'
<1>1. CASE Methods
  <2>1. PICK t : Moveless(t)
    BY <1>1, MethodsFollow
  <2>2. MethodTo(t, DOMAIN committed') /\ err' \in BOOLEAN
    BY <2>1 DEF Moveless, Core
  <2> QED BY <2>2, CoreMethod
<1>2. ASSUME NEW a \in Addr, NEW b \in Addr, NEW amount \in Amounts, Transfer(a, b, amount)
      PROVE  Core'
  <2>1. amount \in Nat /\ db["balance"] \in [Addr -> Int]
    BY JournalAssumption DEF Balanced, Kept
  <2>2. PICK t : MethodTo(t, DOMAIN committed') /\ err' \in BOOLEAN
    BY <1>2, <2>1, TransferFollows DEF Core
  <2> QED BY <2>2, CoreMethod
<1>3. CASE Control
  BY <1>3, CoreControl
<1>4. CASE UNCHANGED journalVars
  <2>1. /\ db' = db /\ journal' = journal /\ err' = err /\ frames' = frames
        /\ phase' = phase /\ original' = original
    BY <1>4 DEF journalVars
  <2>2. FramesInOrder' = FramesInOrder
    BY <2>1 DEF FramesInOrder
  <2>3. undone(0)' = undone(0) /\ fresh(original)' = fresh(original)
    BY <2>1 DEF undone, fresh, freshPart
  <2> QED BY <2>1, <2>2, <2>3 DEF Core
<1> QED BY <1>1, <1>2, <1>3, <1>4, NextSplit

-----------------------------------------------------------------------------
(* What the table a transaction begins with holds.                         *)
LEMMA FreshFacts ==
    ASSUME NEW t \in Accounts
    PROVE  /\ Shaped(fresh(t))
           /\ \A p \in AccountParts : fresh(t)[p] = t[p]
           /\ \A a \in Addr : ~fresh(t)["touched"][a]
           /\ accountsOf(fresh(t)) = t
<1>1. t = [p \in AccountParts |-> [a \in Addr |-> t[p][a]]]
  BY JournalAssumption
<1>2. \A p \in AccountParts : t[p] = [a \in Addr |-> t[p][a]]
  BY <1>1
<1> DEFINE d == fresh(t)
<1>3. d = [p \in Parts |-> d[p]]
  BY DEF fresh
<1>4. ASSUME NEW p \in AccountParts PROVE d[p] = t[p] /\ keysOf(p) = Addr
  <2>1. p \in Parts /\ p \notin FlagParts /\ p \notin {"transient", "refund", "logs", "warmAddrs"}
    BY DEF Parts, AccountParts, FlagParts
  <2> QED BY <2>1 DEF fresh, freshPart, keysOf
<1>5. d["touched"] = [a \in Addr |-> FALSE]
  BY DEF fresh, freshPart, Parts, AccountParts, FlagParts
<1>6. ASSUME NEW p \in Parts PROVE d[p] = [k \in keysOf(p) |-> d[p][k]]
  <2>1. CASE p \in AccountParts
    BY <1>2, <1>4, <2>1
  <2>2. CASE p \in FlagParts \cup {"transient"}
    BY <2>2, Zenon DEF fresh, freshPart, Parts, AccountParts, FlagParts, keysOf
  <2>3. CASE p \in {"refund", "logs"}
    BY <2>3 DEF fresh, freshPart, Parts, AccountParts, FlagParts, keysOf
  <2> QED BY <2>1, <2>2, <2>3 DEF Parts
<1> HIDE DEF d
<1>7. Shaped(d)
  BY <1>3, <1>6 DEF Shaped
<1>8. accountsOf(d) = t
  <2>1. t = [p \in AccountParts |-> t[p]]
    BY <1>1, <1>2
  <2> QED BY <1>4, <2>1 DEF accountsOf
<1> QED BY <1>4, <1>5, <1>7, <1>8 DEF d

-----------------------------------------------------------------------------
(* Caching reads the value the slot had before the transaction: it has not *)
(* been written to.                                                        *)
LEMMA CachingStep ==
    ASSUME Core, Committed, Executing, NEW a \in Addr, cacheCommitted(a)
    PROVE  /\ \A b \in DOMAIN committed' : committed'[b] = original["storage"][b]
           /\ DOMAIN committed \subseteq DOMAIN committed'
           /\ DOMAIN committed' \subseteq Addr
<1>1. CASE a \in DOMAIN committed
  BY <1>1 DEF cacheCommitted, Committed, CommittedIsOriginal
<1>2. CASE a \notin DOMAIN committed
  <2>1. "storage" \in Parts /\ "storage" \in AccountParts /\ a \in keysOf("storage")
    BY DEF Parts, AccountParts, keysOf
  <2>2. Len(journal) \in Nat
    BY NowIsLast
  <2>3. \A i \in 1..Len(journal) : ~(journal[i].part = "storage" /\ journal[i].key = a)
    BY <1>2 DEF Committed, StorageIn
  <2>4. undone(0)["storage"][a] = db["storage"][a]
    <3>1. Shaped(db) /\ Entries(journal) /\ 0 \in 0..Len(journal)
      BY <2>2 DEF Core
    <3>2. \A id \in 0..Len(journal) : history(db, journal)[id]["storage"][a] = db["storage"][a]
      BY <2>1, <2>3, <3>1, HistoryKeeps
    <3> QED BY <3>1, <3>2 DEF undone
  <2>5. undone(0) = fresh(original) /\ original \in Accounts
    BY DEF Core, Executing
  <2>6. fresh(original)["storage"] = original["storage"]
    BY <2>1, <2>5, FreshFacts
  <2>7. db["storage"][a] = original["storage"][a]
    BY <2>4, <2>5, <2>6
  <2>8. committed' = [b \in DOMAIN committed \cup {a} |->
                        IF b = a THEN db["storage"][a] ELSE committed[b]]
    BY <1>2 DEF cacheCommitted
  <2> QED BY <2>7, <2>8 DEF Committed, CommittedIsOriginal
<1> QED BY <1>1, <1>2

LEMMA CommittedStep ==
    ASSUME Core, Committed, Balanced, [JournalNext]_journalVars
    PROVE  Committed'
<1>1. /\ \A b \in DOMAIN committed' : committed'[b] = original["storage"][b]
      /\ DOMAIN committed \subseteq DOMAIN committed'
      /\ DOMAIN committed' \subseteq Addr
  <2>1. CASE committed' = committed
    BY <2>1 DEF Committed, CommittedIsOriginal
  <2>2. CASE \E a \in Addr : cacheCommitted(a) /\ Executing
    BY <2>2, CachingStep
  <2>3. committed' = committed \/ \E a \in Addr : cacheCommitted(a) /\ Executing
    <3>1. Contracts \subseteq Addr
      BY JournalAssumption
    <3>2. CASE \E a \in Contracts : GetStateAndCommittedState(a)
      BY <3>1, <3>2 DEF GetStateAndCommittedState
    <3>3. CASE \E a \in Contracts, v \in 0..1 : SetState(a, v)
      BY <3>1, <3>3 DEF SetState
    <3>4. CASE \/ \E a \in Addr : SetNonce(a)
               \/ \E a \in Contracts : \/ SetCode(a) \/ CreateContract(a) \/ SelfDestruct(a)
                                       \/ AddSlotToAccessList(a)
               \/ \E a \in Contracts, v \in 0..1 : SetTransientState(a, v)
               \/ \E gas \in 0..1 : SetRefund(gas)
               \/ AddLog
      BY <3>4, Zenon DEF SetNonce, SetCode, CreateContract, SelfDestruct, AddSlotToAccessList,
                  SetTransientState, SetRefund, AddLog
    <3>5. CASE \E a \in Addr, b \in Addr, amount \in Amounts : Transfer(a, b, amount)
      BY <3>5, Zenon DEF Transfer
    <3>6. CASE Control
      BY <3>6, Zenon DEF Control, Snapshot, Leave, RevertToSnapshot, Settle, Finalise
    <3>7. CASE UNCHANGED journalVars
      BY <3>7 DEF journalVars
    <3> QED BY <3>2, <3>3, <3>4, <3>5, <3>6, <3>7, NextSplit DEF Methods
  <2> QED BY <2>1, <2>2, <2>3
<1>2. StorageIn(journal, DOMAIN committed')
  BY <1>1, Zenon DEF Committed, StorageIn
<1>3. ASSUME NEW t, MethodTo(t, DOMAIN committed')
      PROVE  StorageIn(journal', DOMAIN committed') /\ original' = original
  BY <1>2, <1>3, MethodKeepsHistory
<1>4. StorageIn(journal', DOMAIN committed') /\ original' = original
  <2>1. CASE Methods
    BY <2>1, <1>3, MethodsFollow DEF Moveless
  <2>2. ASSUME NEW a \in Addr, NEW b \in Addr, NEW amount \in Amounts, Transfer(a, b, amount)
        PROVE  StorageIn(journal', DOMAIN committed') /\ original' = original
    <3>1. amount \in Nat /\ db["balance"] \in [Addr -> Int]
      BY JournalAssumption DEF Balanced, Kept
    <3>2. PICK t : MethodTo(t, DOMAIN committed')
      BY <2>2, <3>1, TransferFollows
    <3> QED BY <1>3, <3>2
  <2>3. CASE Control
    <3>1. Len(journal) \in Nat
      BY NowIsLast
    <3>2. ASSUME NEW m \in 0..Len(journal), revert(m) PROVE StorageIn(journal', DOMAIN committed')
      BY <1>2, <3>2, RevertKeepsHistory
    <3>3. original' = original
      BY <2>3, Zenon DEF Control, Snapshot, Leave, RevertToSnapshot, Settle, Finalise
    <3>4. journal' = journal \/ \E m \in 0..Len(journal) : revert(m)
      <4>1. CASE Snapshot \/ Leave \/ Finalise
        BY <4>1, Zenon DEF Snapshot, Leave, Finalise
      <4>2. CASE RevertToSnapshot \/ Settle
        <5>1. ASSUME NEW i \in 1..Len(frames) PROVE frames[i] \in 0..Len(journal)
          BY <3>1 DEF Core, FramesInOrder
        <5>2. Len(frames) \in Nat
          BY DEF Core, FramesInOrder
        <5>3. CASE RevertToSnapshot
          BY <5>1, <5>2, <5>3 DEF RevertToSnapshot
        <5>4. CASE Settle
          <6>1. journal' = journal \/ (Len(frames) = 1 /\ revert(frames[1]))
            BY <5>4 DEF Settle
          <6> QED BY <5>1, <6>1
        <5> QED BY <4>2, <5>3, <5>4
      <4> QED BY <2>3, <4>1, <4>2 DEF Control
    <3>5. CASE journal' = journal
      BY <1>2, <3>5, <3>3 DEF StorageIn
    <3> QED BY <3>2, <3>3, <3>4, <3>5
  <2>4. CASE UNCHANGED journalVars
    BY <1>2, <2>4 DEF journalVars
  <2> QED BY <2>1, <2>2, <2>3, <2>4, NextSplit
<1> QED BY <1>1, <1>4 DEF Committed, CommittedIsOriginal

(* A latched error is followed by a return to the beginning, and there is  *)
(* then nothing to finalise.                                               *)
(* With an error latched, there is nothing to finalise.                    *)
LEMMA NothingToFinalise ==
    ASSUME Core, Latched, Finalise, err
    PROVE  db' = db /\ accountsOf(db) = original
<1>1. db = fresh(original) /\ original \in Accounts
  BY DEF Finalise, Latched, Core
<1>2. /\ Shaped(fresh(original)) /\ accountsOf(fresh(original)) = original
      /\ \A a \in Addr : ~fresh(original)["touched"][a]
  BY <1>1, FreshFacts
<1>3. \A a \in Addr : ~db["touched"][a]
  BY <1>1, <1>2
<1>4. db' = [p \in DOMAIN db |-> [k \in DOMAIN db[p] |-> db[p][k]]]
  BY <1>3, Zenon DEF Finalise
<1>5. db' = db
  BY <1>1, <1>2, <1>4 DEF Shaped
<1> QED BY <1>1, <1>2, <1>5

LEMMA LatchedStep ==
    ASSUME Core, Latched, Balanced, [JournalNext]_journalVars
    PROVE  Latched'
<1>1. ASSUME NEW t, NEW C, MethodTo(t, C) PROVE Latched'
  <2>1. phase' = "running"
    BY <1>1, MethodKeepsHistory
  <2> QED BY <2>1 DEF Latched, ErrorChangesNothing
<1>2. CASE Methods
  BY <1>1, <1>2, MethodsFollow DEF Moveless
<1>3. ASSUME NEW a \in Addr, NEW b \in Addr, NEW amount \in Amounts, Transfer(a, b, amount)
      PROVE  Latched'
  <2>1. amount \in Nat /\ db["balance"] \in [Addr -> Int]
    BY JournalAssumption DEF Balanced, Kept
  <2>2. PICK t : MethodTo(t, DOMAIN committed')
    BY <1>3, <2>1, TransferFollows
  <2> QED BY <1>1, <2>2
<1>4. CASE Snapshot \/ Leave \/ RevertToSnapshot
  <2>1. phase' = "running"
    BY <1>4 DEF Snapshot, Leave, RevertToSnapshot, Executing
  <2> QED BY <2>1 DEF Latched, ErrorChangesNothing
<1>5. CASE Settle
  <2>1. phase' = "settled" /\ err' = err /\ original' = original /\ phase = "running"
    BY <1>5 DEF Settle, Executing
  <2>2. ASSUME err PROVE db' = fresh(original)
    <3>1. revert(frames[1]) /\ frames[1] = 0
      BY <1>5, <2>1, <2>2 DEF Settle, Core, FramesInOrder
    <3>2. db' = undone(0)
      BY <3>1 DEF revert
    <3> QED BY <2>1, <3>2 DEF Core
  <2>3. fresh(original)' = fresh(original)
    BY <2>1 DEF fresh, freshPart
  <2>4. ended' = ~err
    BY <1>5 DEF Settle
  <2> QED BY <2>1, <2>2, <2>3, <2>4, Zenon DEF Latched, ErrorChangesNothing
<1>6. CASE Finalise
  <2>1. phase' = "done" /\ err' = err /\ original' = original /\ phase = "settled"
    BY <1>6 DEF Finalise
  <2>2. ASSUME err PROVE accountsOf(db') = original
    BY <1>6, <2>2, NothingToFinalise
  <2>3. accountsOf(db)' = accountsOf(db')
    BY DEF accountsOf
  <2> QED BY <2>1, <2>2, <2>3 DEF Latched, ErrorChangesNothing
<1>7. CASE UNCHANGED journalVars
  <2>1. db' = db /\ err' = err /\ phase' = phase /\ original' = original /\ ended' = ended
    BY <1>7 DEF journalVars
  <2>2. fresh(original)' = fresh(original)
    BY <2>1 DEF fresh, freshPart
  <2> QED BY <2>1, <2>2 DEF Latched, ErrorChangesNothing, accountsOf
<1> QED BY <1>2, <1>3, <1>4, <1>5, <1>6, <1>7, NextSplit DEF Control

-----------------------------------------------------------------------------
LEMMA TotalInt ==
    ASSUME NEW d, d["balance"] \in [Addr -> Int]
    PROVE  total(d) \in Int /\ Ints(d["balance"], Addr)
<1>1. Ints(d["balance"], Addr)
  BY DEF Ints
<1> QED BY <1>1, SumInt, JournalAssumption DEF total

LEMMA KeptInt ==
    ASSUME NEW d, NEW o, NEW w, Kept(d, o, w)
    PROVE  d["balance"] \in [Addr -> Int]
BY JournalAssumption DEF Kept

LEMMA OriginalInt ==
    ASSUME Core
    PROVE  total(original) \in Int
<1>1. original["balance"] \in [Addr -> Int]
  BY JournalAssumption DEF Core
<1> QED BY <1>1, TotalInt

(* What was kept is kept when the promise only becomes weaker.             *)
LEMMA KeptOn ==
    ASSUME NEW d, NEW o, NEW w, NEW x, Kept(d, o, w), x => w
    PROVE  Kept(d, o, x)
BY DEF Kept

(* A transfer moves its amount or loses it to the latched error.           *)
LEMMA TransferTotal ==
    ASSUME NEW d, NEW e, NEW o, NEW w, Kept(d, o, w), total(o) \in Int,
           NEW a \in Addr, NEW b \in Addr, NEW amount \in Nat, amount <= d["balance"][a],
           NEW over \in BOOLEAN, Moved(d["balance"], e["balance"], a, b, amount, over)
    PROVE  Kept(e, o, w /\ ~over)
<1> DEFINE B == d["balance"]
           D == e["balance"]
<1>1. B \in [Addr -> Int] /\ B \in [Addr -> 0..(Uint64 - 1)]
  BY KeptInt DEF Kept
<1>2. PICK P \in [Addr -> Int] :
        /\ P[a] = B[a] - amount
        /\ \A c \in Addr \ {a} : P[c] = B[c]
        /\ over <=> P[b] + amount >= Uint64
        /\ over => D = P
        /\ ~over => D \in [Addr -> Int] /\ D[b] = P[b] + amount /\ \A c \in Addr \ {b} : D[c] = P[c]
  BY DEF Moved
<1>3. total(d) = SumFunctionOnSet(B, Addr) /\ total(e) = SumFunctionOnSet(D, Addr)
  BY DEF total
<1>4. total(d) \in Int /\ total(d) <= total(o) /\ (w => total(d) = total(o))
  BY <1>1, TotalInt DEF Kept
<1> HIDE DEF B, D
<1>5. Ints(B, Addr) /\ Ints(P, Addr)
  BY <1>1 DEF Ints
<1>6. SumFunctionOnSet(P, Addr) = SumFunctionOnSet(B, Addr) - B[a] + P[a]
  BY <1>2, <1>5, SumChange, JournalAssumption
<1>7. Uint64 \in Nat /\ B[a] \in 0..(Uint64 - 1) /\ amount <= B[a]
  BY <1>1, JournalAssumption DEF B
<1>8. P \in [Addr -> 0..(Uint64 - 1)]
  <2>1. ASSUME NEW c \in Addr PROVE P[c] \in 0..(Uint64 - 1)
    <3>1. CASE c = a
      <4>1. P[a] = B[a] - amount
        BY <1>2
      <4> QED BY <1>7, <3>1, <4>1, SMTT(30)
    <3>2. CASE c # a
      <4>1. P[c] = B[c]
        BY <1>2, <3>2
      <4> QED BY <1>1, <4>1
    <3> QED BY <3>1, <3>2, Zenon
  <2> QED BY <1>2, <2>1
<1>9. CASE over
  <2>1. total(e) = total(d) - amount
    BY <1>2, <1>3, <1>4, <1>6, <1>7, <1>9, SMTT(30)
  <2>2. D \in [Addr -> 0..(Uint64 - 1)]
    BY <1>2, <1>8, <1>9
  <2>3. total(e) <= total(o)
    BY <1>4, <2>1
  <2> QED BY <1>9, <2>2, <2>3 DEF Kept, D
<1>10. CASE ~over
  <2>1. D \in [Addr -> Int] /\ D[b] = P[b] + amount /\ \A c \in Addr \ {b} : D[c] = P[c]
    BY <1>2, <1>10
  <2>2. Ints(D, Addr)
    BY <2>1 DEF Ints
  <2>3. SumFunctionOnSet(D, Addr) = SumFunctionOnSet(P, Addr) - P[b] + D[b]
    BY <1>5, <2>1, <2>2, SumChange, JournalAssumption, SMTT(30)
  <2>4. SumFunctionOnSet(P, Addr) \in Int /\ P[b] \in 0..(Uint64 - 1)
    BY <1>5, <1>8, SumInt, JournalAssumption
  <2>5. total(e) = total(d)
    <3>1. D[b] = P[b] + amount /\ P[a] = B[a] - amount
      BY <1>2, <2>1, Zenon
    <3>2. P[b] \in Int /\ B[a] \in Int
      BY <1>7, <2>4
    <3>3. SumFunctionOnSet(B, Addr) \in Int
      BY <1>3, <1>4
    <3> QED BY <1>3, <1>6, <2>3, <2>4, <3>1, <3>2, <3>3, SMTT(30)
  <2>6. D \in [Addr -> 0..(Uint64 - 1)]
    <3>1. ASSUME NEW c \in Addr PROVE D[c] \in 0..(Uint64 - 1)
      <4>1. CASE c = b
        <5>1. ~(P[b] + amount >= Uint64)
          BY <1>2, <1>10
        <5> QED BY <1>7, <2>1, <2>4, <4>1, <5>1
      <4>2. CASE c # b
        BY <1>8, <2>1, <4>2
      <4> QED BY <4>1, <4>2
    <3> QED BY <2>1, <3>1
  <2>7. total(e) <= total(o) /\ (w => total(e) = total(o))
    BY <1>4, <2>5
  <2> QED BY <2>6, <2>7 DEF Kept, D
<1> QED BY <1>9, <1>10

(* The tables frames may go back to are the same ones after a method.      *)
LEMMA FramesKept ==
    ASSUME Core, Balanced, NEW t, NEW C, MethodTo(t, C), err => err'
    PROVE  \A i \in 1..Len(frames') : Kept(undone(frames[i])', original', Intact')
<1>1. /\ \A id \in 0..Len(journal) : undone(id)' = undone(id)
      /\ phase = "running" /\ frames' = frames /\ phase' = phase /\ original' = original
      /\ Len(journal) \in Nat
  BY MethodKeepsHistory
<1>2. ASSUME NEW i \in 1..Len(frames') PROVE Kept(undone(frames[i])', original', Intact')
  <2>1. frames[i] \in 0..Len(journal) /\ i \in 1..Len(frames)
    BY <1>1 DEF Core, FramesInOrder
  <2>2. undone(frames[i])' = history(db', journal')[frames[i]]
    BY <1>1 DEF undone
  <2>3. undone(frames[i])' = undone(frames[i])
    BY <1>1, <2>1, <2>2 DEF undone
  <2>4. Kept(undone(frames[i]), original, Intact)
    BY <2>1 DEF Balanced
  <2>5. Intact' => Intact
    BY <1>1 DEF Intact
  <2> QED BY <1>1, <2>3, <2>4, <2>5, KeptOn
<1> QED BY <1>2

LEMMA BalancedMethods ==
    ASSUME Core, Balanced,
           \/ Methods
           \/ \E a \in Addr, b \in Addr, amount \in Amounts : Transfer(a, b, amount)
    PROVE  Balanced'
<1>1. CASE Methods
  <2>1. PICK t : Moveless(t)
    BY <1>1, MethodsFollow
  <2>2. MethodTo(t, DOMAIN committed') /\ t.db["balance"] = db["balance"] /\ err' = err
    BY <2>1 DEF Moveless
  <2>3. \A i \in 1..Len(frames') : Kept(undone(frames[i])', original', Intact')
    BY <2>2, FramesKept
  <2>4. db'["balance"] = db["balance"] /\ original' = original /\ Intact' = Intact
    BY <2>2 DEF MethodTo, methodVars, Intact
  <2>5. Kept(db', original', Intact')
    BY <2>4 DEF Balanced, Kept, total
  <2> QED BY <2>3, <2>5 DEF Balanced
<1>2. ASSUME NEW a \in Addr, NEW b \in Addr, NEW amount \in Amounts, Transfer(a, b, amount)
      PROVE  Balanced'
  <2>1. amount \in Nat /\ db["balance"] \in [Addr -> Int] /\ Kept(db, original, Intact)
    BY JournalAssumption DEF Balanced, Kept
  <2>2. PICK t : /\ MethodTo(t, DOMAIN committed')
                 /\ \E over \in BOOLEAN : /\ err' = (err \/ over)
                                          /\ Moved(db["balance"], t.db["balance"], a, b, amount, over)
    BY <1>2, <2>1, TransferFollows, Zenon
  <2>3. PICK over \in BOOLEAN : /\ err' = (err \/ over)
                                /\ Moved(db["balance"], t.db["balance"], a, b, amount, over)
    BY <2>2
  <2>4. db' = t.db /\ original' = original /\ phase' = phase
    BY <2>2 DEF MethodTo, methodVars
  <2>5. \A i \in 1..Len(frames') : Kept(undone(frames[i])', original', Intact')
    BY <2>2, <2>3, FramesKept, Zenon
  <2>6. amount <= db["balance"][a]
    BY <1>2, Zenon DEF Transfer
  <2>7. Kept(db', original, Intact /\ ~over)
    <3>1. total(original) \in Int
      BY OriginalInt
    <3> DEFINE e == t.db
    <3>2. Moved(db["balance"], e["balance"], a, b, amount, over)
      BY <2>3
    <3> HIDE DEF e
    <3>3. Kept(e, original, Intact /\ ~over)
      BY <2>1, <2>6, <3>1, <3>2, TransferTotal, SMTT(30)
    <3> QED BY <2>4, <3>3 DEF e
  <2>8. Intact' => (Intact /\ ~over)
    BY <2>3, <2>4, Zenon DEF Intact
  <2>9. Kept(db', original', Intact')
    BY <2>4, <2>7, <2>8, KeptOn, Zenon
  <2> QED BY <2>5, <2>9 DEF Balanced
<1> QED BY <1>1, <1>2

LEMMA BalancedControl ==
    ASSUME Core, Balanced, Control
    PROVE  Balanced'
<1>1. original' = original /\ err' = err /\ (phase' = "running" => phase = "running")
  BY Zenon DEF Control, Snapshot, Leave, RevertToSnapshot, Settle, Finalise
<1>2. Intact' => Intact
  BY <1>1 DEF Intact
<1>3. FramesInOrder /\ Len(journal) \in Nat /\ undone(Len(journal)) = db
  BY NowIsLast DEF Core
<1>4. frames \in Seq(Nat) /\ \A i \in 1..Len(frames) : frames[i] \in 0..Len(journal)
  BY <1>3 DEF FramesInOrder
<1>5. ASSUME NEW d, Kept(d, original, Intact) PROVE Kept(d, original', Intact')
  BY <1>1, <1>2, <1>5, KeptOn
<1>6. CASE Snapshot
  <2>1. db' = db /\ journal' = journal /\ frames' = Append(frames, Len(journal))
    BY <1>6 DEF Snapshot
  <2>2. ASSUME NEW i \in 1..Len(frames') PROVE Kept(undone(frames[i])', original', Intact')
    <3>1. frames'[i] = Len(journal) \/ (i \in 1..Len(frames) /\ frames'[i] = frames[i])
      BY <1>3, <1>4, <2>1
    <3>2. undone(frames[i])' = undone(frames'[i])
      BY <2>1 DEF undone
    <3>3. Kept(undone(frames'[i]), original, Intact)
      BY <1>3, <3>1 DEF Balanced
    <3> QED BY <1>5, <3>2, <3>3
  <2> QED BY <1>5, <2>1, <2>2 DEF Balanced
<1>7. CASE Leave
  <2>1. /\ db' = db /\ journal' = journal /\ Len(frames) > 1
        /\ frames' = SubSeq(frames, 1, Len(frames) - 1)
    BY <1>7 DEF Leave
  <2>2. ASSUME NEW i \in 1..Len(frames') PROVE Kept(undone(frames[i])', original', Intact')
    <3>1. i \in 1..Len(frames) /\ frames'[i] = frames[i]
      BY <1>4, <2>1
    <3>2. undone(frames[i])' = undone(frames[i])
      BY <2>1, <3>1 DEF undone
    <3>3. Kept(undone(frames[i]), original, Intact)
      BY <3>1 DEF Balanced
    <3> QED BY <1>5, <3>2, <3>3
  <2> QED BY <1>5, <2>1, <2>2 DEF Balanced
<1>8. CASE RevertToSnapshot
  <2> DEFINE m == frames[Len(frames)]
  <2>1. revert(m) /\ Len(frames) > 1 /\ frames' = SubSeq(frames, 1, Len(frames) - 1)
    BY <1>8 DEF RevertToSnapshot
  <2>2. Len(frames) \in 1..Len(frames)
    BY <1>4, <2>1
  <2>3. m \in 0..Len(journal) /\ Kept(undone(m), original, Intact)
    BY <1>4, <2>2 DEF Balanced
  <2> HIDE DEF m
  <2>4. db' = undone(m) /\ \A id \in 0..m : undone(id)' = undone(id)
    BY <2>1, <2>3, RevertKeepsHistory
  <2>5. ASSUME NEW i \in 1..Len(frames') PROVE Kept(undone(frames[i])', original', Intact')
    <3>1. i \in 1..Len(frames) /\ frames'[i] = frames[i] /\ i <= Len(frames)
      BY <1>4, <2>1
    <3>2. frames[i] \in 0..m
      BY <1>3, <1>4, <2>2, <3>1 DEF FramesInOrder, m
    <3>3. undone(frames[i])' = history(db', journal')[frames[i]]
      BY <3>1 DEF undone
    <3>4. undone(frames[i])' = undone(frames[i])
      BY <2>4, <3>2, <3>3 DEF undone
    <3>5. Kept(undone(frames[i]), original, Intact)
      BY <3>1 DEF Balanced
    <3> QED BY <1>5, <3>4, <3>5
  <2> QED BY <1>5, <2>3, <2>4, <2>5 DEF Balanced
<1>9. CASE Settle
  <2>1. Len(frames) = 1 /\ frames' = <<>> /\ (db' = db \/ revert(frames[1]))
    BY <1>9 DEF Settle
  <2>2. db' = db \/ db' = undone(frames[1])
    BY <2>1 DEF revert
  <2>3. Kept(db', original, Intact)
    BY <2>1, <2>2 DEF Balanced
  <2> QED BY <1>5, <2>1, <2>3 DEF Balanced
<1>10. CASE Finalise
  <2> DEFINE B == db["balance"]
             D == db'["balance"]
  <2>1. /\ B \in [Addr -> 0..(Uint64 - 1)]
        /\ total(db) <= total(original) /\ total(db) = SumFunctionOnSet(B, Addr)
    BY Zenon DEF Balanced, Kept, total
  <2>2. D \in [Addr -> 0..(Uint64 - 1)] /\ \A a \in Addr : D[a] <= B[a]
    <3>1. "balance" \in DOMAIN db /\ DOMAIN B = Addr /\ "balance" \in AccountParts
      BY DEF Core, Shaped, Parts, AccountParts, keysOf
    <3>2. PICK gone : D = [k \in Addr |-> IF k \in gone THEN 0 ELSE B[k]]
      BY <1>10, <3>1, Zenon DEF Finalise
    <3>3. Uint64 \in Nat \ {0}
      BY JournalAssumption
    <3> HIDE DEF B, D
    <3> QED BY <2>1, <3>2, <3>3
  <2>3. total(db') = SumFunctionOnSet(D, Addr)
    BY DEF total
  <2>4. Ints(B, Addr) /\ Ints(D, Addr)
    BY <2>1, <2>2, JournalAssumption DEF Ints
  <2>5. SumFunctionOnSet(D, Addr) <= SumFunctionOnSet(B, Addr)
    <3> HIDE DEF B, D
    <3> QED BY <2>2, <2>4, SumMonotone, JournalAssumption
  <2>6. SumFunctionOnSet(D, Addr) \in Int /\ SumFunctionOnSet(B, Addr) \in Int
    BY <2>4, SumInt, JournalAssumption
  <2>7. total(db') <= total(original)
    <3> HIDE DEF B, D
    <3> QED BY <2>1, <2>3, <2>5, <2>6, OriginalInt
  <2>8. ~Intact' /\ frames' = <<>>
    BY <1>3, <1>10 DEF Intact, Finalise, FramesInOrder
  <2>9. Kept(db', original', Intact')
    BY <1>1, <2>2, <2>7, <2>8 DEF Kept
  <2>10. \A i \in 1..Len(frames') : Kept(undone(frames[i])', original', Intact')
    BY <2>8
  <2> QED BY <2>9, <2>10 DEF Balanced
<1> QED BY <1>6, <1>7, <1>8, <1>9, <1>10 DEF Control

JournalInv == Core /\ Committed /\ Latched /\ Balanced

LEMMA JournalInvInit ==
    ASSUME JournalInit
    PROVE  JournalInv
<1>1. /\ original \in Accounts /\ db = fresh(original) /\ journal = <<>> /\ committed = <<>>
      /\ err = FALSE /\ frames = <<0>> /\ phase = "running"
  BY DEF JournalInit
<1>2. Shaped(db) /\ db["balance"] = original["balance"]
  BY <1>1, FreshFacts DEF AccountParts
<1>3. Len(journal) = 0 /\ Log(journal)
  BY <1>1 DEF Log
<1>4. Entries(journal)
  BY <1>3 DEF Entries
<1>5. undone(0) = db
  BY <1>3, HistoryDef DEF undone
<1>6. FramesInOrder
  BY <1>1, <1>3 DEF FramesInOrder
<1>7. Core
  BY <1>1, <1>2, <1>4, <1>5, <1>6, Zenon DEF Core
<1>8. DOMAIN committed = {}
  BY <1>1
<1>9. Committed
  BY <1>3, <1>8 DEF Committed, CommittedIsOriginal, StorageIn
<1>10. Latched
  BY <1>1 DEF Latched, ErrorChangesNothing
<1>11. total(db) = total(original)
  BY <1>2 DEF total
<1>12. Kept(db, original, Intact)
  <2>1. total(original) \in Int
    BY <1>7, OriginalInt
  <2>2. original["balance"] \in [Addr -> 0..(Uint64 - 1)]
    BY <1>1, JournalAssumption
  <2> QED BY <1>2, <1>11, <2>1, <2>2 DEF Kept
<1>13. \A i \in 1..Len(frames) : undone(frames[i]) = db
  BY <1>1, <1>5
<1>14. Balanced
  BY <1>12, <1>13 DEF Balanced
<1> QED BY <1>7, <1>9, <1>10, <1>14 DEF JournalInv

LEMMA JournalInvStep ==
    ASSUME JournalInv, [JournalNext]_journalVars
    PROVE  JournalInv'
<1>1. Core /\ Committed /\ Latched /\ Balanced
  BY DEF JournalInv
<1>2. Balanced'
  <2>1. CASE UNCHANGED journalVars
    <3>1. db' = db /\ journal' = journal /\ frames' = frames /\ original' = original
          /\ phase' = phase /\ err' = err
      BY <2>1 DEF journalVars
    <3> QED BY <1>1, <3>1 DEF Balanced, Intact, undone
  <2> QED BY <1>1, <2>1, BalancedMethods, BalancedControl, NextSplit
<1> QED BY <1>1, <1>2, CoreStep, CommittedStep, LatchedStep DEF JournalInv

(* The journal's inductive invariant.                                      *)
THEOREM JournalInvariant == JournalSpec => []JournalInv
<1>1. JournalInit => JournalInv
  BY JournalInvInit
<1>2. JournalInv /\ [JournalNext]_journalVars => JournalInv'
  BY JournalInvStep
<1> QED BY <1>1, <1>2, PTL DEF JournalSpec

(* The committed value the gas rules compare with is the one before the    *)
(* transaction, whatever was written, reverted or read in between.         *)
THEOREM CommittedValues == JournalSpec => []CommittedIsOriginal
<1>1. JournalInv => CommittedIsOriginal
  BY DEF JournalInv, Committed
<1> QED BY <1>1, JournalInvariant, PTL

(* A transaction in which a balance left uint64 changes no account.        *)
THEOREM ErrorsUndoAll == JournalSpec => []ErrorChangesNothing
<1>1. JournalInv => ErrorChangesNothing
  BY DEF JournalInv, Latched
<1> QED BY <1>1, JournalInvariant, PTL

(* The embedded EVM makes no balance, whatever is transferred, reverted,   *)
(* latched or finalised.                                                   *)
THEOREM BalancesConserved == JournalSpec => []BalancesKept
<1>1. JournalInv => BalancesKept
  BY DEF JournalInv, Balanced, Kept, Intact, BalancesKept, total
<1> QED BY <1>1, JournalInvariant, PTL

-----------------------------------------------------------------------------
(* The stack of copies the journal stands for, element by element.         *)
IsCopies(c, d, j, fr) ==
    /\ Log(c) /\ Len(c) = Len(fr) + 1
    /\ \A i \in 1..Len(fr) : c[i] = history(d, j)[fr[i]]
    /\ c[Len(fr) + 1] = d

LEMMA CopiesFacts ==
    ASSUME NEW d, NEW j, NEW fr \in Seq(Nat)
    PROVE  IsCopies(Append([i \in DOMAIN fr |-> history(d, j)[fr[i]]], d), d, j, fr)
<1> DEFINE f == [i \in DOMAIN fr |-> history(d, j)[fr[i]]]
<1>1. Len(fr) \in Nat /\ DOMAIN fr = 1..Len(fr)
  OBVIOUS
<1>2. f \in Seq({f[i] : i \in DOMAIN f}) /\ Len(f) = Len(fr)
  BY <1>1
<1>3. \A i \in 1..Len(fr) : f[i] = history(d, j)[fr[i]]
  BY <1>1
<1> HIDE DEF f
<1>4. Log(f)
  BY <1>2 DEF Log
<1>5. /\ Log(Append(f, d)) /\ Len(Append(f, d)) = Len(f) + 1
      /\ \A i \in 1..Len(f) : Append(f, d)[i] = f[i]
      /\ Append(f, d)[Len(f) + 1] = d
  BY <1>4, LogAppend
<1>6. IsCopies(Append(f, d), d, j, fr)
  BY <1>2, <1>3, <1>5 DEF IsCopies
<1> QED BY <1>6 DEF f

(* Two sequences with the same elements are the same.                      *)
LEMMA LogEqual ==
    ASSUME NEW f, NEW g, Log(f), Log(g), Len(f) = Len(g), \A i \in 1..Len(f) : f[i] = g[i]
    PROVE  f = g
<1>1. f = [i \in 1..Len(f) |-> f[i]] /\ g = [i \in 1..Len(g) |-> g[i]]
  BY LogFacts DEF Log
<1> QED BY <1>1

CopiesNext == Copies!Write \/ Copies!Enter \/ Copies!Commit \/ Copies!Revert

LEMMA CopiesBoth ==
    ASSUME Core, Core'
    PROVE  /\ IsCopies(copies, db, journal, frames)
           /\ IsCopies(copies', db', journal', frames')
           /\ Len(frames) \in Nat /\ Len(frames') \in Nat
<1>1. frames \in Seq(Nat) /\ frames' \in Seq(Nat)
  BY DEF Core, FramesInOrder
<1>2. copies = Append([i \in DOMAIN frames |-> history(db, journal)[frames[i]]], db)
  BY DEF copies, undone
<1>3. copies' = Append([i \in DOMAIN frames' |-> history(db', journal')[frames'[i]]], db')
  BY DEF copies, undone
<1>4. IsCopies(copies, db, journal, frames)
  BY <1>1, <1>2, CopiesFacts
<1>5. IsCopies(copies', db', journal', frames')
  BY <1>1, <1>3, CopiesFacts
<1> QED BY <1>1, <1>4, <1>5

(* A method writes to the last copy only.                                  *)
LEMMA MethodWrites ==
    ASSUME Core, Core', NEW t, NEW C, MethodTo(t, C)
    PROVE  CopiesNext
<1> DEFINE n == Len(frames)
<1>1. /\ Len(journal) \in Nat /\ frames' = frames
      /\ \A id \in 0..Len(journal) : undone(id)' = undone(id)
  BY MethodKeepsHistory
<1>2. /\ n \in Nat
      /\ Log(copies) /\ Len(copies) = n + 1
      /\ \A i \in 1..n : copies[i] = history(db, journal)[frames[i]]
      /\ Log(copies') /\ Len(copies') = n + 1
      /\ \A i \in 1..n : copies'[i] = history(db', journal')[frames[i]]
  BY <1>1, CopiesBoth DEF IsCopies
<1>3. \A i \in 1..n : copies'[i] = copies[i]
  <2>1. \A i \in 1..n : frames[i] \in 0..Len(journal)
    BY <1>1 DEF Core, FramesInOrder
  <2>2. \A id \in 0..Len(journal) : history(db', journal')[id] = history(db, journal)[id]
    BY <1>1 DEF undone
  <2> QED BY <1>2, <2>1, <2>2
<1>4. n \in 0..Len(copies) /\ n \in 0..Len(copies')
  BY <1>2
<1>5. /\ Log(SubSeq(copies, 1, n)) /\ Len(SubSeq(copies, 1, n)) = n
      /\ \A i \in 1..n : SubSeq(copies, 1, n)[i] = copies[i]
  BY <1>2, <1>4, LogSub
<1>6. /\ Log(SubSeq(copies', 1, n)) /\ Len(SubSeq(copies', 1, n)) = n
      /\ \A i \in 1..n : SubSeq(copies', 1, n)[i] = copies'[i]
  BY <1>2, <1>4, LogSub
<1>7. SubSeq(copies', 1, n) = SubSeq(copies, 1, n)
  BY <1>3, <1>5, <1>6, LogEqual
<1>8. Len(copies) - 1 = n
  BY <1>2
<1>9. Len(copies) # 1
  <2>1. n # 0
    BY DEF MethodTo, Executing, Core, FramesInOrder
  <2> QED BY <1>2, <2>1
<1>10. Copies!Write
  BY <1>2, <1>7, <1>8, <1>9 DEF Copies!Write, Copies!kept
<1> QED BY <1>10 DEF CopiesNext

(* Opening a frame copies, leaving it drops a copy, failing it goes back.  *)
LEMMA ControlCopies ==
    ASSUME Core, Core', Latched, Control
    PROVE  CopiesNext
<1> DEFINE n == Len(frames)
<1>1. Len(journal) \in Nat /\ undone(Len(journal)) = db
  BY NowIsLast
<1>2. /\ n \in Nat
      /\ Log(copies) /\ Len(copies) = n + 1
      /\ \A i \in 1..n : copies[i] = history(db, journal)[frames[i]]
      /\ copies[n + 1] = db
  BY CopiesBoth DEF IsCopies
<1>3. /\ Len(frames') \in Nat
      /\ Log(copies') /\ Len(copies') = Len(frames') + 1
      /\ \A i \in 1..Len(frames') : copies'[i] = history(db', journal')[frames'[i]]
      /\ copies'[Len(frames') + 1] = db'
  BY CopiesBoth DEF IsCopies
<1>4. /\ frames \in Seq(Nat)
      /\ \A i \in 1..n : frames[i] \in 0..Len(journal)
      /\ \A i, k \in 1..n : i <= k => frames[i] <= frames[k]
  BY <1>1 DEF Core, FramesInOrder
<1>5. ASSUME NEW g, NEW m \in 0..Len(g), Log(g)
      PROVE  /\ Log(SubSeq(g, 1, m)) /\ Len(SubSeq(g, 1, m)) = m
             /\ \A i \in 1..m : SubSeq(g, 1, m)[i] = g[i]
  BY <1>5, LogSub
<1>6. CASE Snapshot
  <2>1. db' = db /\ journal' = journal /\ frames' = Append(frames, Len(journal))
    BY <1>6 DEF Snapshot
  <2>2. Len(frames') = n + 1 /\ \A i \in 1..n : frames'[i] = frames[i]
    BY <1>1, <1>4, <2>1
  <2>3. frames'[n + 1] = Len(journal)
    BY <1>1, <1>4, <2>1
  <2>4. \A i \in 1..n : copies'[i] = copies[i]
    BY <1>2, <1>3, <2>1, <2>2
  <2>5. copies'[n + 1] = copies[n + 1]
    BY <1>1, <1>2, <1>3, <2>1, <2>2, <2>3 DEF undone
  <2>6. n + 1 \in 0..Len(copies') /\ Len(copies') = Len(copies) + 1
    BY <1>2, <1>3, <2>2
  <2>7. /\ Log(SubSeq(copies', 1, n + 1)) /\ Len(SubSeq(copies', 1, n + 1)) = n + 1
        /\ \A i \in 1..(n + 1) : SubSeq(copies', 1, n + 1)[i] = copies'[i]
    BY <1>3, <1>5, <2>6
  <2>8. \A i \in 1..(n + 1) : SubSeq(copies', 1, n + 1)[i] = copies[i]
    BY <1>2, <2>4, <2>5, <2>7
  <2>9. SubSeq(copies', 1, n + 1) = copies
    BY <1>2, <2>7, <2>8, LogEqual, Zenon
  <2>10. Copies!Enter
    BY <1>2, <2>6, <2>9 DEF Copies!Enter
  <2> QED BY <2>10 DEF CopiesNext
<1>7. ASSUME Len(frames) >= 1, db' = db, journal' = journal, Len(frames') = n - 1,
             \A i \in 1..(n - 1) : frames'[i] = frames[i], ended'
      PROVE  Copies!Commit
  <2> DEFINE b == SubSeq(copies, 1, n - 1)
  <2>1. n - 1 \in 0..Len(copies)
    BY <1>2, <1>7
  <2>2. Log(b) /\ Len(b) = n - 1 /\ \A i \in 1..(n - 1) : b[i] = copies[i]
    BY <1>2, <1>5, <2>1, Zenon
  <2> HIDE DEF b
  <2>3. /\ Log(Append(b, db)) /\ Len(Append(b, db)) = Len(b) + 1
        /\ \A i \in 1..Len(b) : Append(b, db)[i] = b[i]
        /\ Append(b, db)[Len(b) + 1] = db
    BY <2>2, LogAppend
  <2>4. \A i \in 1..(n - 1) : copies'[i] = copies[i] /\ i \in 1..n
    <3>1. \A i \in 1..(n - 1) : i \in 1..n
      BY <1>2
    <3> QED BY <1>2, <1>3, <1>7, <3>1
  <2>5. Len(copies') = n /\ copies'[n] = db /\ n - 1 + 1 = n
    BY <1>2, <1>3, <1>7
  <2>6. \A i \in 1..n : copies'[i] = Append(b, db)[i]
    <3>1. \A i \in 1..n : i \in 1..(n - 1) \/ i = n
      BY <1>2
    <3> QED BY <2>2, <2>3, <2>4, <2>5, <3>1, Zenon
  <2>7. Len(Append(b, db)) = n
    BY <2>2, <2>3, <2>5
  <2>8. copies' = Append(b, db)
    BY <1>3, <2>3, <2>5, <2>6, <2>7, LogEqual, Zenon
  <2>9. Len(copies) > 1 /\ Len(copies) - 2 = n - 1 /\ copies[Len(copies)] = db
    BY <1>2, <1>7
  <2> QED BY <1>7, <2>8, <2>9 DEF Copies!Commit, Copies!kept, b
<1>8. CASE Leave
  <2>1. /\ db' = db /\ journal' = journal /\ n > 1 /\ frames' = SubSeq(frames, 1, n - 1)
        /\ ended'
    BY <1>8 DEF Leave
  <2>2. Len(frames') = n - 1 /\ \A i \in 1..(n - 1) : frames'[i] = frames[i]
    BY <1>2, <1>4, <2>1
  <2> QED BY <1>2, <1>7, <2>1, <2>2 DEF CopiesNext
<1>9. ASSUME n >= 1, revert(frames[n]), Len(frames') = n - 1,
             \A i \in 1..(n - 1) : frames'[i] = frames[i], ~ended'
      PROVE  Copies!Revert
  <2> DEFINE m == frames[n]
             b == SubSeq(copies, 1, n)
  <2>1. n \in 1..n /\ n \in 0..Len(copies)
    BY <1>2, <1>9
  <2>2. m \in 0..Len(journal)
    BY <1>4, <2>1
  <2>3. db' = undone(m) /\ \A id \in 0..m : undone(id)' = undone(id)
    BY <1>9, <2>2, RevertKeepsHistory
  <2>4. \A id \in 0..m : history(db', journal')[id] = history(db, journal)[id]
    BY <2>3 DEF undone
  <2>5. Log(b) /\ Len(b) = n /\ \A i \in 1..n : b[i] = copies[i]
    BY <1>2, <1>5, <2>1
  <2> HIDE DEF b
  <2>6. Len(copies') = n /\ copies'[n] = db'
    <3>1. (n - 1) + 1 = n
      BY <1>2
    <3>2. Len(copies') = (n - 1) + 1 /\ copies'[(n - 1) + 1] = db'
      BY <1>3, <1>9, Zenon
    <3> QED BY <3>1, <3>2
  <2>7. ASSUME NEW i \in 1..(n - 1) PROVE copies'[i] = copies[i]
    <3>1. i \in 1..n /\ i <= n /\ i \in 1..Len(frames')
      BY <1>2, <1>9
    <3>2. frames[i] \in 0..m
      BY <1>4, <2>1, <3>1
    <3>3. copies'[i] = history(db', journal')[frames[i]]
      BY <1>3, <1>9, <3>1
    <3> QED BY <1>2, <2>4, <3>1, <3>2, <3>3
  <2>8. copies'[n] = copies[n]
    BY <1>2, <2>1, <2>3, <2>6 DEF undone
  <2>9. \A i \in 1..n : copies'[i] = b[i]
    <3>1. \A i \in 1..n : i \in 1..(n - 1) \/ i = n
      BY <1>2
    <3> QED BY <2>5, <2>7, <2>8, <3>1
  <2>10. copies' = b
    BY <1>3, <2>5, <2>6, <2>9, LogEqual
  <2>11. n \in 1..(Len(copies) - 1)
    BY <1>2, <1>9
  <2> QED BY <1>9, <2>10, <2>11 DEF Copies!Revert, Copies!kept, b
<1>10. CASE RevertToSnapshot
  <2>1. revert(frames[n]) /\ n > 1 /\ frames' = SubSeq(frames, 1, n - 1) /\ ~ended'
    BY <1>10 DEF RevertToSnapshot
  <2>2. Len(frames') = n - 1 /\ \A i \in 1..(n - 1) : frames'[i] = frames[i]
    BY <1>2, <1>4, <2>1
  <2> QED BY <1>2, <1>9, <2>1, <2>2 DEF CopiesNext
<1>11. CASE Settle
  <2>1. /\ n = 1 /\ frames' = <<>>
        /\ (db' = db /\ journal' = journal /\ ended') \/ (revert(frames[n]) /\ ~ended')
    BY <1>11, Zenon DEF Settle
  <2>2. Len(frames') = n - 1 /\ \A i \in 1..(n - 1) : frames'[i] = frames[i]
    BY <2>1
  <2> QED BY <1>7, <1>9, <2>1, <2>2 DEF CopiesNext
<1>12. CASE Finalise
  <2>1. frames = <<>> /\ frames' = <<>>
    BY <1>12 DEF Finalise, Core, FramesInOrder
  <2>2. Len(copies) = 1 /\ Len(copies') = 1
    BY <1>2, <1>3, <2>1
  <2>3. SubSeq(copies, 1, 0) = <<>> /\ SubSeq(copies', 1, 0) = <<>>
    <3>1. 0 \in 0..Len(copies) /\ 0 \in 0..Len(copies')
      BY <2>2
    <3>2. Log(<<>>) /\ Len(<<>>) = 0
      BY DEF Log
    <3>3. /\ Log(SubSeq(copies, 1, 0)) /\ Len(SubSeq(copies, 1, 0)) = 0
          /\ Log(SubSeq(copies', 1, 0)) /\ Len(SubSeq(copies', 1, 0)) = 0
      BY <1>2, <1>3, <1>5, <3>1
    <3> QED BY <3>2, <3>3, LogEqual
  <2>4. ASSUME ~ended' PROVE copies' = copies
    <3>1. err
      BY <1>12, <2>4, Zenon DEF Finalise, Latched
    <3>2. copies'[1] = copies[1]
      BY <1>2, <1>3, <1>12, <2>1, <3>1, NothingToFinalise
    <3> QED BY <1>2, <1>3, <2>2, <3>2, LogEqual
  <2>5. Copies!Write
    BY <2>2, <2>3, <2>4 DEF Copies!Write, Copies!kept
  <2> QED BY <2>5 DEF CopiesNext
<1> QED BY <1>6, <1>8, <1>10, <1>11, <1>12 DEF Control

(* The undo log implements keeping copies of the whole state: a failed     *)
(* frame leaves nothing behind, however frames nest.                       *)
THEOREM JournalRefinesSnapshots == JournalSpec => JournalImplementsSnapshots
<1>1. JournalInit => Copies!Opened
  <2>1. SUFFICES ASSUME JournalInit PROVE Copies!Opened
    OBVIOUS
  <2>2. frames = <<0>> /\ frames \in Seq(Nat)
    BY <2>1 DEF JournalInit
  <2>3. copies = Append([i \in DOMAIN frames |-> history(db, journal)[frames[i]]], db)
    BY DEF copies, undone
  <2>4. Len(copies) = 2
    BY <2>2, <2>3, CopiesFacts DEF IsCopies
  <2> QED BY <2>4 DEF Copies!Opened
<1>2. JournalInv /\ JournalInv' /\ [JournalNext]_journalVars => [CopiesNext]_<<copies, ended>>
  <2>1. SUFFICES ASSUME JournalInv, JournalInv', [JournalNext]_journalVars
                 PROVE  [CopiesNext]_<<copies, ended>>
    OBVIOUS
  <2>2. Core /\ Core' /\ Balanced /\ Latched
    BY <2>1 DEF JournalInv
  <2>3. CASE Methods
    BY <2>2, <2>3, MethodsFollow, MethodWrites DEF Moveless
  <2>4. ASSUME NEW a \in Addr, NEW b \in Addr, NEW amount \in Amounts, Transfer(a, b, amount)
        PROVE  CopiesNext
    <3>1. amount \in Nat /\ db["balance"] \in [Addr -> Int]
      BY <2>2, JournalAssumption DEF Balanced, Kept
    <3>2. PICK t : MethodTo(t, DOMAIN committed')
      BY <2>2, <2>4, <3>1, TransferFollows
    <3> QED BY <2>2, <3>2, MethodWrites
  <2>5. CASE Control
    BY <2>2, <2>5, ControlCopies
  <2>6. CASE UNCHANGED journalVars
    BY <2>6 DEF journalVars, copies, undone
  <2> QED BY <2>1, <2>3, <2>4, <2>5, <2>6, NextSplit
<1> QED BY <1>1, <1>2, JournalInvariant, PTL
      DEF JournalSpec, JournalImplementsSnapshots, Copies!SnapshotsSpec, CopiesNext
=============================================================================
