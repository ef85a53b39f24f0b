---------------------------- MODULE StoreProofs ----------------------------
(***************************************************************************)
(* What survives crashes, failed writes and restarts, for every table of   *)
(* blocks: a completed Save is a database that Load rebuilds, a rebuilt    *)
(* chain is as good as the one that was saved, the stored head never gets  *)
(* lighter, and New fails for two reasons only.                            *)
(***************************************************************************)
EXTENDS Store, ChainProofs

Fresh0 == [head |-> Genesis, td |-> [b \in {Genesis} |-> sealed[b].difficulty]]

(* Load's loop, height by height.                                          *)
LEMMA ReplaysDef ==
    ASSUME NEW n \in Nat
    PROVE  \A h \in 0..n :
              replays(n)[h] = IF h = 0 THEN Fresh0 ELSE Replay(replays(n)[h - 1], dbHeights[h])
<1> DEFINE F(g, h) == IF h = 0 THEN Fresh0 ELSE Replay(g[h - 1], dbHeights[h])
           Is(g, m) == g = [h \in 0..m |-> F(g, h)]
           Q(m) == \E g : Is(g, m)
           S == {m \in Nat : Q(m)}
<1> HIDE DEF Fresh0
<1>1. Q(0)
  <2>1. Is([h \in 0..0 |-> Fresh0], 0)
    OBVIOUS
  <2> QED BY <2>1, Zenon
<1>2. ASSUME NEW m \in Nat, Q(m) PROVE Q(m + 1)
  <2>0. PICK g : Is(g, m)
    BY <1>2
  <2> DEFINE k == [h \in 0..(m + 1) |-> IF h = m + 1 THEN F(g, m + 1) ELSE g[h]]
  <2>1. ASSUME NEW h \in 0..(m + 1) PROVE k[h] = F(k, h)
    <3>1. CASE h = m + 1
      <4>1. k[h - 1] = g[h - 1]
        BY <3>1
      <4> QED BY <3>1, <4>1
    <3>2. CASE h # m + 1
      <4>1. h \in 0..m /\ k[h] = g[h]
        BY <3>2
      <4>2. g[h] = F(g, h)
        BY <2>0, <4>1
      <4>3. h # 0 => k[h - 1] = g[h - 1]
        BY <4>1
      <4> QED BY <4>1, <4>2, <4>3
    <3> QED BY <3>1, <3>2
  <2>2. Is(k, m + 1)
    BY <2>1
  <2> QED BY <2>2, Zenon
<1>3. Q(n)
  <2> HIDE DEF Q
  <2>1. 0 \in S /\ \A m \in Nat : m \in S => m + 1 \in S
    BY <1>1, <1>2
  <2> HIDE DEF S
  <2>2. n \in S
    BY <2>1, SetInduction
  <2> QED BY <2>2 DEF S
<1>4. replays(n) = [h \in 0..n |-> F(replays(n), h)]
  BY <1>3, Zenon DEF replays, Fresh0
<1> QED BY <1>4, Zenon

(* An index that links its entries from genesis up to height n, each at    *)
(* its own height: what Load checks before the weights.                    *)
IndexLinks(n) ==
    /\ \A h \in 0..n : dbHeights[h] \in DOMAIN sealed /\ sealed[dbHeights[h]].height = h
    /\ dbHeights[0] = Genesis
    /\ \A h \in 1..n : sealed[dbHeights[h]].prev = dbHeights[h - 1]

(* A chain rebuilt from the first h heights: it has just their blocks, the *)
(* weights add up along them and the head is a heaviest.                   *)
Rebuilt(r, h) ==
    /\ DOMAIN r.td = {dbHeights[k] : k \in 0..h}
    /\ \A k \in 0..h : r.td[dbHeights[k]] \in Nat
    /\ r.td[Genesis] = sealed[Genesis].difficulty
    /\ \A k \in 1..h : r.td[dbHeights[k]] = r.td[dbHeights[k - 1]] + weight(dbHeights[k])
    /\ \A k \in 0..h : r.td[dbHeights[k]] <= r.td[dbHeights[h]]
    /\ r.head \in DOMAIN r.td
    /\ r.td[r.head] = r.td[dbHeights[h]]
    /\ h = 0 \/ weight(dbHeights[h]) > 0 => r.head = dbHeights[h]

LEMMA RebuiltStep ==
    ASSUME IsTable(sealed), NEW n \in Nat, IndexLinks(n), NEW h \in Nat, h + 1 <= n,
           NEW r, Rebuilt(r, h)
    PROVE  Rebuilt(Replay(r, dbHeights[h + 1]), h + 1)
<1> DEFINE b == dbHeights[h + 1]
           total == r.td[sealed[b].prev] + weight(b)
           s == Replay(r, b)
<1>1. /\ b \in DOMAIN sealed /\ sealed[b].height = h + 1 /\ sealed[b].prev = dbHeights[h]
  <2>1. h + 1 \in 1..n /\ h + 1 \in 0..n /\ (h + 1) - 1 = h
    OBVIOUS
  <2> QED BY <2>1 DEF IndexLinks
<1>2. weight(b) \in Nat
  BY <1>1, TableTypes DEF weight
<1>3. r.td[dbHeights[h]] \in Nat
  BY DEF Rebuilt
<1>4. total \in Nat /\ total >= r.td[dbHeights[h]] /\ total = r.td[dbHeights[h]] + weight(b)
  BY <1>1, <1>2, <1>3
<1>5. \A k \in 0..h : dbHeights[k] # b
  <2> TAKE k \in 0..h
  <2>1. sealed[dbHeights[k]].height = k /\ k # h + 1
    BY DEF IndexLinks
  <2> QED BY <1>1, <2>1
<1>6. /\ s.head = IF total > r.td[r.head] THEN b ELSE r.head
      /\ s.td = [c \in DOMAIN r.td \cup {b} |-> IF c = b THEN total ELSE r.td[c]]
  BY DEF Replay
<1> HIDE DEF s, b
<1>7. b = dbHeights[h + 1]
  BY DEF b
<1> HIDE DEF total
<1>8. \A k \in 0..(h + 1) : k \in 0..h \/ k = h + 1
  OBVIOUS
<1>9. s.td[b] = total /\ \A k \in 0..h : s.td[dbHeights[k]] = r.td[dbHeights[k]]
  <2>1. \A k \in 0..h : dbHeights[k] \in DOMAIN r.td
    BY DEF Rebuilt
  <2> QED BY <1>5, <1>6, <2>1
<1>10. DOMAIN s.td = {dbHeights[k] : k \in 0..(h + 1)}
  <2>1. DOMAIN s.td = {dbHeights[k] : k \in 0..h} \cup {b}
    BY <1>6 DEF Rebuilt
  <2>2. 0..(h + 1) = 0..h \cup {h + 1}
    OBVIOUS
  <2> QED BY <1>7, <2>1, <2>2
<1>11. \A k \in 0..(h + 1) : s.td[dbHeights[k]] \in Nat
  BY <1>4, <1>7, <1>8, <1>9 DEF Rebuilt
<1>12. s.td[Genesis] = sealed[Genesis].difficulty
  <2>1. 0 \in 0..h /\ dbHeights[0] = Genesis
    BY DEF IndexLinks
  <2> QED BY <1>9, <2>1 DEF Rebuilt
<1>13. \A k \in 1..(h + 1) :
          s.td[dbHeights[k]] = s.td[dbHeights[k - 1]] + weight(dbHeights[k])
  <2> TAKE k \in 1..(h + 1)
  <2>1. CASE k = h + 1
    <3>1. s.td[dbHeights[h]] = r.td[dbHeights[h]] /\ k - 1 = h
      BY <1>9, <2>1
    <3> QED BY <1>4, <1>7, <1>9, <2>1, <3>1
  <2>2. CASE k # h + 1
    <3>1. k \in 1..h /\ k \in 0..h /\ k - 1 \in 0..h
      BY <2>2
    <3>2. r.td[dbHeights[k]] = r.td[dbHeights[k - 1]] + weight(dbHeights[k])
      BY <3>1 DEF Rebuilt
    <3> QED BY <1>9, <3>1, <3>2
  <2> QED BY <2>1, <2>2
<1>14. \A k \in 0..(h + 1) : s.td[dbHeights[k]] <= s.td[dbHeights[h + 1]]
  <2> TAKE k \in 0..(h + 1)
  <2>1. CASE k = h + 1
    BY <1>4, <1>7, <1>9, <2>1
  <2>2. CASE k \in 0..h
    <3>1. s.td[dbHeights[k]] = r.td[dbHeights[k]] /\ r.td[dbHeights[k]] <= r.td[dbHeights[h]]
          /\ r.td[dbHeights[k]] \in Nat
      BY <1>9, <2>2 DEF Rebuilt
    <3> QED BY <1>3, <1>4, <1>7, <1>9, <3>1
  <2> QED BY <1>8, <2>1, <2>2
<1>15. r.td[r.head] = r.td[dbHeights[h]] /\ r.head \in DOMAIN r.td
  BY DEF Rebuilt
<1>16. CASE total > r.td[dbHeights[h]]
  <2>1. s.head = b
    BY <1>6, <1>15, <1>16
  <2>2. b \in DOMAIN s.td
    BY <1>6
  <2> QED BY <1>7, <1>10, <1>11, <1>12, <1>13, <1>14, <2>1, <2>2 DEF Rebuilt, s
<1>17. CASE ~(total > r.td[dbHeights[h]])
  <2>1. total = r.td[dbHeights[h]] /\ weight(b) = 0
    BY <1>2, <1>3, <1>4, <1>17
  <2>2. s.head = r.head
    BY <1>6, <1>15, <1>17
  <2>3. r.head # b
    <3>1. PICK k \in 0..h : r.head = dbHeights[k]
      BY <1>15 DEF Rebuilt
    <3> QED BY <1>5, <3>1
  <2>4. s.td[s.head] = s.td[dbHeights[h + 1]] /\ s.head \in DOMAIN s.td
    BY <1>6, <1>7, <1>9, <1>15, <2>1, <2>2, <2>3
  <2>5. ~(h + 1 = 0) /\ ~(weight(dbHeights[h + 1]) > 0)
    BY <1>7, <2>1
  <2> QED BY <1>10, <1>11, <1>12, <1>13, <1>14, <2>4, <2>5, Zenon DEF Rebuilt, s, b
<1> QED BY <1>16, <1>17

(* Load rebuilds the path its index describes.                             *)
LEMMA LoadRebuilds ==
    ASSUME IsTable(sealed), NEW n \in Nat, IndexLinks(n)
    PROVE  Rebuilt(Replayed(n), n)
<1> DEFINE Q(h) == h <= n => Rebuilt(replays(n)[h], h)
           S == {h \in Nat : Q(h)}
<1>1. Q(0)
  <2>1. replays(n)[0] = Fresh0
    BY ReplaysDef
  <2>2. /\ Fresh0.head = Genesis /\ DOMAIN Fresh0.td = {Genesis}
        /\ Fresh0.td[Genesis] = sealed[Genesis].difficulty
    BY DEF Fresh0
  <2>3. sealed[Genesis].difficulty \in Nat /\ dbHeights[0] = Genesis
    BY TableTypes DEF IndexLinks
  <2>4. 0..0 = {0} /\ 1..0 = {}
    OBVIOUS
  <2>5. Rebuilt(Fresh0, 0)
    BY <2>2, <2>3, <2>4 DEF Rebuilt
  <2> QED BY <2>1, <2>5
<1>2. ASSUME NEW h \in Nat, Q(h) PROVE Q(h + 1)
  <2> SUFFICES ASSUME h + 1 <= n PROVE Rebuilt(replays(n)[h + 1], h + 1)
    OBVIOUS
  <2>1. Rebuilt(replays(n)[h], h)
    BY <1>2
  <2>2. replays(n)[h + 1] = Replay(replays(n)[h], dbHeights[h + 1])
    <3>1. h + 1 \in 0..n /\ h + 1 # 0 /\ (h + 1) - 1 = h
      OBVIOUS
    <3> QED BY <3>1, ReplaysDef
  <2> QED BY <2>1, <2>2, RebuiltStep
<1>3. Q(n)
  <2> HIDE DEF Q
  <2>1. 0 \in S /\ \A h \in Nat : h \in S => h + 1 \in S
    BY <1>1, <1>2
  <2> HIDE DEF S
  <2>2. n \in S
    BY <2>1, SetInduction
  <2> QED BY <2>2 DEF S
<1> QED BY <1>3 DEF Replayed

Path(n) == {dbHeights[h] : h \in 0..n}

(* The entries of such an index are the branch of the last one.            *)
LEMMA PathIsBranch ==
    ASSUME IsTable(sealed), NEW n \in Nat, IndexLinks(n)
    PROVE  /\ Linked(Path(n)) /\ dbHeights[n] \in Path(n)
           /\ chainTo[dbHeights[n]] \subseteq Path(n)
           /\ DOMAIN rebuildIndex(chainTo[dbHeights[n]]) = 0..n
           /\ \A h \in 0..n : rebuildIndex(chainTo[dbHeights[n]])[h] = dbHeights[h]
<1>1. 0 \in 0..n /\ n \in 0..n
  OBVIOUS
<1>2. Path(n) \subseteq DOMAIN sealed /\ Genesis \in Path(n) /\ dbHeights[n] \in Path(n)
  BY <1>1 DEF IndexLinks, Path
<1>3. ASSUME NEW b \in Path(n) \ {Genesis}
      PROVE  sealed[b].prev \in Path(n) /\ sealed[b].height = sealed[sealed[b].prev].height + 1
  <2>1. PICK h \in 0..n : b = dbHeights[h]
    BY <1>3 DEF Path
  <2>2. h # 0
    BY <1>3, <2>1 DEF IndexLinks
  <2>3. h \in 1..n /\ h - 1 \in 0..n
    BY <2>2
  <2>4. sealed[b].prev = dbHeights[h - 1] /\ sealed[b].height = h
    BY <2>1, <2>3 DEF IndexLinks
  <2>5. sealed[dbHeights[h - 1]].height = h - 1
    BY <2>3 DEF IndexLinks
  <2>6. dbHeights[h - 1] \in Path(n)
    BY <2>3 DEF Path
  <2> QED BY <2>3, <2>4, <2>5, <2>6
<1>4. Linked(Path(n))
  BY <1>2, <1>3 DEF Linked
<1> DEFINE tip == dbHeights[n]
           index == rebuildIndex(chainTo[tip])
<1>5. sealed[tip].height = n
  BY <1>1 DEF IndexLinks
<1> HIDE DEF tip
<1>6. tip \in Path(n) /\ tip = dbHeights[n]
  BY <1>2 DEF tip
<1>7. chainTo[tip] \subseteq Path(n)
  BY <1>4, <1>6, BranchIsPath DEF Branch
<1>8. /\ DOMAIN index = 0..n
      /\ \A h \in 0..n : index[h] \in chainTo[tip] /\ sealed[index[h]].height = h
  BY <1>4, <1>5, <1>6, IndexIsBranch
<1> HIDE DEF index
<1>9. \A h \in 0..n : index[h] = dbHeights[h]
  <2> TAKE h \in 0..n
  <2>1. PICK k \in 0..n : index[h] = dbHeights[k]
    BY <1>7, <1>8 DEF Path
  <2>2. k = h
    BY <1>8, <2>1 DEF IndexLinks
  <2> QED BY <2>1, <2>2, Zenon
<1> QED BY <1>4, <1>6, <1>7, <1>8, <1>9 DEF index

(* The weights of a rebuilt chain add up block by block.                   *)
LEMMA PathWeights ==
    ASSUME NEW n \in Nat, IndexLinks(n), NEW r, Rebuilt(r, n)
    PROVE  /\ \A b \in Path(n) : r.td[b] \in Nat /\ r.td[b] <= r.td[dbHeights[n]]
           /\ \A b \in Path(n) \ {Genesis} : r.td[b] = r.td[sealed[b].prev] + weight(b)
<1>1. \A b \in Path(n) : r.td[b] \in Nat /\ r.td[b] <= r.td[dbHeights[n]]
  BY DEF Path, Rebuilt
<1>2. ASSUME NEW b \in Path(n) \ {Genesis}
      PROVE  r.td[b] = r.td[sealed[b].prev] + weight(b)
  <2>1. PICK h \in 0..n : b = dbHeights[h]
    BY <1>2 DEF Path
  <2>2. h # 0
    BY <1>2, <2>1 DEF IndexLinks
  <2>3. h \in 1..n
    BY <2>2
  <2>4. sealed[b].prev = dbHeights[h - 1]
    BY <2>1, <2>3 DEF IndexLinks
  <2> QED BY <2>1, <2>3, <2>4 DEF Rebuilt
<1> QED BY <1>1, <1>2

-----------------------------------------------------------------------------
(* The inductive invariant.                                                *)

(* Every index entry is a stored block of its height.                      *)
IndexTyped ==
    /\ DOMAIN dbHeights \subseteq Nat
    /\ \A h \in DOMAIN dbHeights :
          /\ dbHeights[h] \in DOMAIN sealed
          /\ sealed[dbHeights[h]].height = h
          /\ dbHeights[h] \in dbBlocks
    /\ 0 \in DOMAIN dbHeights => dbHeights[0] = Genesis

(* A stored head is a block of the chain, with an index up to its height,  *)
(* and it outweighs its parent.                                            *)
Outweighs(b) == b # Genesis => weight(b) > 0

HeadStored ==
    dbHead # NoHash =>
        /\ dbHead \in blocks
        /\ dbHead \in dbBlocks
        /\ 0..sealed[dbHead].height \subseteq DOMAIN dbHeights
        /\ Outweighs(dbHead)

(* Where the index is that of the chain: up to the write Save is at.       *)
Indexed(h) == h \in DOMAIN dbHeights /\ dbHeights[h] = heightIndex[h]

SavedSoFar ==
    pc = "saving" =>
        /\ torn
        /\ cursor \in [height : 0..sealed[head].height, what : {"block", "index", "head"}]
        /\ \A h \in 0..sealed[head].height : h < cursor.height => Indexed(h)
        /\ cursor.what = "index" => heightIndex[cursor.height] \in dbBlocks
        /\ cursor.what = "head" =>
             cursor.height = sealed[head].height /\ Indexed(cursor.height)

Saved == ~torn => dbHead = head /\ \A h \in 0..sealed[head].height : Indexed(h)

NotLoaded == pc = "failed" => dbHead # NoHash /\ ~Loads

SInv ==
    /\ Inv
    /\ Outweighs(head)
    /\ IndexTyped /\ HeadStored /\ SavedSoFar /\ Saved /\ NotLoaded

(* What the chain's index is to Save.                                      *)
LEMMA ChainIndex ==
    ASSUME Inv
    PROVE  /\ sealed[head].height \in Nat /\ head \in blocks /\ blocks \subseteq DOMAIN sealed
           /\ DOMAIN heightIndex = 0..sealed[head].height
           /\ heightIndex[0] = Genesis /\ heightIndex[sealed[head].height] = head
           /\ \A h \in 0..sealed[head].height :
                 heightIndex[h] \in DOMAIN sealed /\ sealed[heightIndex[h]].height = h
           /\ IsTable(sealed) /\ Linked(blocks) /\ TreeInv
<1>1. TreeInv /\ IsTable(sealed) /\ Linked(blocks) /\ head \in blocks /\ blocks \subseteq DOMAIN sealed
  BY TreeIsLinked DEF Inv, TreeInv, TypeOK
<1>2. CanonicalIndex
  BY <1>1, TreeHasIndex
<1>3. heightIndex = rebuildIndex(chainTo[head])
  BY <1>1 DEF TreeInv, HeadViews
<1>4. /\ DOMAIN heightIndex = 0..sealed[head].height
      /\ \A h \in DOMAIN heightIndex :
            heightIndex[h] \in chainTo[head] /\ sealed[heightIndex[h]].height = h
  BY <1>1, <1>3, IndexIsBranch
<1>5. chainTo[head] \subseteq DOMAIN sealed
  BY <1>1, BranchIsPath DEF Branch
<1>6. sealed[head].height \in Nat
  BY <1>1, TableTypes
<1> QED BY <1>1, <1>2, <1>4, <1>5, <1>6 DEF CanonicalIndex

LEMMA InitStore == StoreInit => SInv
<1> SUFFICES ASSUME StoreInit PROVE SInv
  OBVIOUS
<1>1. Inv
  BY InitTree, InitEvidence DEF StoreInit, Inv
<1>2. head = Genesis /\ sealed[head].height \in Nat
  BY <1>1, ChainIndex DEF StoreInit, Init
<1>3. DOMAIN dbHeights = {}
  <2>1. dbHeights = <<>>
    BY DEF StoreInit
  <2> QED BY <2>1
<1>4. IndexTyped
  BY <1>3 DEF IndexTyped
<1>5. HeadStored
  BY DEF StoreInit, HeadStored
<1>6. SavedSoFar
  <2>1. cursor.height = 0 /\ cursor.what = "block" /\ torn
    BY DEF StoreInit, FirstWrite
  <2>2. \A h \in 0..sealed[head].height : ~(h < 0)
    BY <1>2
  <2>3. cursor \in [height : 0..sealed[head].height, what : {"block", "index", "head"}]
    BY <1>2 DEF StoreInit, FirstWrite
  <2> QED BY <2>1, <2>2, <2>3 DEF SavedSoFar
<1>7. Saved /\ NotLoaded /\ Outweighs(head)
  BY <1>2 DEF StoreInit, Saved, NotLoaded, Outweighs
<1> QED BY <1>1, <1>4, <1>5, <1>6, <1>7 DEF SInv

(* Steps that leave the chain alone leave its invariant alone.             *)
LEMMA ChainKept ==
    ASSUME Inv, UNCHANGED vars
    PROVE  Inv'
BY StepTree, StepEvidence DEF Inv

(* Loads speaks of the database and the table only.                        *)
LEMMA LoadsKept ==
    ASSUME UNCHANGED <<sealed, defaultID, carriesTxs, dbBlocks, dbHeights, dbHead>>
    PROVE  Loads' <=> Loads
<1>1. \A b : weight(b)' = weight(b)
  BY DEF weight
<1>2. \A n : Replayed(n)' = Replayed(n)
  BY DEF Replayed, replays, Replay, weight
<1> QED BY <1>2 DEF Loads

(* AddBlock under the handler's lock: the first write of Save is next.     *)
LEMMA StepAccept ==
    ASSUME SInv, NEW b \in 2..Len(sealed), Accept(b)
    PROVE  SInv'
<1>1. /\ AddBlock(b) /\ pc' = "saving" /\ cursor' = FirstWrite /\ torn' = TRUE
      /\ UNCHANGED <<defaultID, carriesTxs, dbBlocks, dbHeights, dbHead>>
  BY DEF Accept, configVars, dbVars
<1>2. Inv /\ Inv'
  <2>1. Inv /\ [Next]_vars
    BY <1>1 DEF SInv, Next
  <2> QED BY <2>1, StepTree, StepEvidence DEF Inv
<1>3. sealed' = sealed /\ blocks \subseteq blocks'
  BY <1>1 DEF AddBlock
<1>4. \A c : weight(c)' = weight(c)
  BY <1>3 DEF weight
<1>5. sealed'[head'].height \in Nat
  <2>1. IsTable(sealed) /\ head' \in DOMAIN sealed
    BY <1>2, <1>3 DEF Inv, TreeInv, TypeOK
  <2> QED BY <1>3, <2>1, TableTypes
<1>6. Outweighs(head)'
  <2>1. CASE head' = head
    BY <1>4, <2>1 DEF SInv, Outweighs
  <2>2. CASE head' # head
    <3>1. head' = b /\ td'[b] > td[head]
      BY <1>1, <2>2 DEF AddBlock, Reorg
    <3>2. /\ td \in [BlockHash -> Nat] /\ b \in BlockHash /\ sealed[b].prev \in blocks
          /\ blocks \subseteq BlockHash /\ head \in blocks /\ weight(b) \in Nat
      BY <1>1, <1>2, ChainIndex, TableTypes, Zenon DEF AddBlock, IsValid, Inv, TreeInv, TypeOK, weight
    <3>3. td'[b] = td[sealed[b].prev] + weight(b)
      BY <1>1, <3>2 DEF AddBlock
    <3>4. td[sealed[b].prev] <= td[head]
      BY <1>2, <3>2, Zenon DEF Inv, TreeInv, HeaviestHead
    <3>5. td[sealed[b].prev] \in Nat /\ td[head] \in Nat
      BY <3>2, Zenon
    <3>6. weight(b) > 0
      BY <3>1, <3>2, <3>3, <3>4, <3>5
    <3> QED BY <1>4, <3>1, <3>6 DEF Outweighs
  <2> QED BY <2>1, <2>2
<1>7. IndexTyped'
  BY <1>1, <1>3 DEF SInv, IndexTyped
<1>8. HeadStored'
  <2>1. Outweighs(dbHead)' <=> Outweighs(dbHead)
    BY <1>1, <1>4 DEF Outweighs
  <2> QED BY <1>1, <1>3, <2>1 DEF SInv, HeadStored
<1>9. SavedSoFar'
  <2>1. cursor'.height = 0 /\ cursor'.what = "block"
    BY <1>1 DEF FirstWrite
  <2>2. \A h \in 0..sealed'[head'].height : ~(h < 0)
    BY <1>5
  <2>3. cursor' \in [height : 0..sealed'[head'].height, what : {"block", "index", "head"}]
    BY <1>1, <1>5 DEF FirstWrite
  <2> QED BY <1>1, <2>1, <2>2, <2>3 DEF SavedSoFar
<1>10. Saved' /\ NotLoaded'
  BY <1>1 DEF Saved, NotLoaded
<1> QED BY <1>2, <1>6, <1>7, <1>8, <1>9, <1>10 DEF SInv

LEMMA StepPutBlock ==
    ASSUME SInv, PutBlock
    PROVE  SInv'
<1>1. /\ pc = "saving" /\ cursor.what = "block"
      /\ dbBlocks' = dbBlocks \cup {heightIndex[cursor.height]}
      /\ cursor' = [cursor EXCEPT !.what = "index"]
      /\ UNCHANGED <<vars, configVars, dbHeights, dbHead, pc, torn>>
  BY DEF PutBlock
<1>2. Inv' /\ sealed' = sealed /\ head' = head /\ blocks' = blocks /\ heightIndex' = heightIndex
  BY <1>1, ChainKept DEF SInv, vars
<1>3. \A c : Outweighs(c)' <=> Outweighs(c)
  BY <1>2 DEF Outweighs, weight
<1>4. Outweighs(head)'
  BY <1>2, <1>3 DEF SInv
<1>5. IndexTyped'
  BY <1>1, <1>2 DEF SInv, IndexTyped
<1>6. HeadStored'
  BY <1>1, <1>2, <1>3 DEF SInv, HeadStored
<1>7. /\ cursor'.height = cursor.height /\ cursor'.what = "index"
      /\ cursor' \in [height : 0..sealed[head].height, what : {"block", "index", "head"}]
  BY <1>1 DEF SInv, SavedSoFar
<1>8. SavedSoFar'
  BY <1>1, <1>2, <1>7 DEF SInv, SavedSoFar, Indexed
<1>9. Saved'
  BY <1>1, <1>2 DEF SInv, Saved, Indexed
<1>10. NotLoaded'
  BY <1>1 DEF NotLoaded
<1> QED BY <1>2, <1>4, <1>5, <1>6, <1>8, <1>9, <1>10 DEF SInv

LEMMA StepSetCanonical ==
    ASSUME SInv, SetCanonical
    PROVE  SInv'
<1> DEFINE at == cursor.height
           top == sealed[head].height
<1>1. /\ pc = "saving" /\ cursor.what = "index"
      /\ dbHeights' = [h \in DOMAIN dbHeights \cup {at} |->
                         IF h = at THEN heightIndex[h] ELSE dbHeights[h]]
      /\ cursor' = IF at = top THEN [cursor EXCEPT !.what = "head"]
                   ELSE [height |-> at + 1, what |-> "block"]
      /\ UNCHANGED <<vars, configVars, dbBlocks, dbHead, pc, torn>>
  BY DEF SetCanonical
<1>2. Inv' /\ sealed' = sealed /\ head' = head /\ blocks' = blocks /\ heightIndex' = heightIndex
  BY <1>1, ChainKept DEF SInv, vars
<1>3. \A c : Outweighs(c)' <=> Outweighs(c)
  BY <1>2 DEF Outweighs, weight
<1>4. Outweighs(head)'
  BY <1>2, <1>3 DEF SInv
<1>5. /\ at \in 0..top /\ top \in Nat
      /\ heightIndex[at] \in DOMAIN sealed /\ sealed[heightIndex[at]].height = at
      /\ heightIndex[at] \in dbBlocks /\ heightIndex[0] = Genesis
      /\ cursor \in [height : 0..top, what : {"block", "index", "head"}]
  <2>1. at \in 0..top /\ heightIndex[at] \in dbBlocks
        /\ cursor \in [height : 0..top, what : {"block", "index", "head"}]
    BY <1>1 DEF SInv, SavedSoFar
  <2> QED BY <2>1, ChainIndex DEF SInv
<1>6. /\ DOMAIN dbHeights' = DOMAIN dbHeights \cup {at}
      /\ dbHeights'[at] = heightIndex[at]
      /\ \A h \in DOMAIN dbHeights : h # at => dbHeights'[h] = dbHeights[h]
  BY <1>1
<1>7. IndexTyped'
  <2>1. IndexTyped
    BY DEF SInv
  <2>2. DOMAIN dbHeights' \subseteq Nat
    BY <1>5, <1>6, <2>1 DEF IndexTyped
  <2>3. \A h \in DOMAIN dbHeights' :
           /\ dbHeights'[h] \in DOMAIN sealed
           /\ sealed[dbHeights'[h]].height = h
           /\ dbHeights'[h] \in dbBlocks
    BY <1>5, <1>6, <2>1 DEF IndexTyped
  <2>4. 0 \in DOMAIN dbHeights' => dbHeights'[0] = Genesis
    BY <1>5, <1>6, <2>1 DEF IndexTyped
  <2>5. dbBlocks' = dbBlocks
    BY <1>1
  <2> QED BY <1>2, <2>2, <2>3, <2>4, <2>5 DEF IndexTyped
<1>8. HeadStored'
  <2>1. dbHead' = dbHead /\ dbBlocks' = dbBlocks
    BY <1>1
  <2> QED BY <1>2, <1>3, <1>6, <2>1 DEF SInv, HeadStored
<1>9. \A h \in 0..top : h <= at => h \in DOMAIN dbHeights' /\ dbHeights'[h] = heightIndex[h]
  <2> TAKE h \in 0..top
  <2> HAVE h <= at
  <2>1. CASE h = at
    BY <1>6, <2>1
  <2>2. CASE h # at
    <3>1. h < at
      BY <1>5, <2>2
    <3>2. Indexed(h)
      BY <1>1, <3>1 DEF SInv, SavedSoFar
    <3> QED BY <1>6, <2>2, <3>2 DEF Indexed
  <2> QED BY <2>1, <2>2
<1>10. SavedSoFar'
  <2>1. CASE at = top
    <3>1. /\ cursor'.height = at /\ cursor'.what = "head"
          /\ cursor' \in [height : 0..top, what : {"block", "index", "head"}]
      BY <1>1, <1>5, <2>1
    <3>2. \A h \in 0..top : h < at => h <= at
      BY <1>5
    <3>3. at <= at
      BY <1>5
    <3> QED BY <1>1, <1>2, <1>5, <1>9, <2>1, <3>1, <3>2, <3>3 DEF SInv, SavedSoFar, Indexed
  <2>2. CASE at # top
    <3>1. cursor' = [height |-> at + 1, what |-> "block"]
      BY <1>1, <2>2
    <3>2. at + 1 \in 0..top /\ \A h \in 0..top : h < at + 1 => h <= at
      BY <1>5, <2>2
    <3>3. /\ cursor'.height = at + 1 /\ cursor'.what = "block"
          /\ cursor' \in [height : 0..top, what : {"block", "index", "head"}]
      BY <3>1, <3>2
    <3> HIDE DEF at
    <3> QED BY <1>1, <1>2, <1>9, <3>2, <3>3 DEF SInv, SavedSoFar, Indexed
  <2> QED BY <2>1, <2>2
<1>11. Saved'
  BY <1>1 DEF SInv, SavedSoFar, Saved
<1>12. NotLoaded'
  BY <1>1 DEF NotLoaded
<1> QED BY <1>2, <1>4, <1>7, <1>8, <1>10, <1>11, <1>12 DEF SInv

LEMMA StepSetHead ==
    ASSUME SInv, SetHead
    PROVE  SInv'
<1>1. /\ pc = "saving" /\ cursor.what = "head" /\ dbHead' = head /\ pc' = "running"
      /\ torn' = FALSE /\ UNCHANGED <<vars, configVars, dbBlocks, dbHeights, cursor>>
  BY DEF SetHead
<1>2. Inv' /\ sealed' = sealed /\ head' = head /\ blocks' = blocks /\ heightIndex' = heightIndex
  BY <1>1, ChainKept DEF SInv, vars
<1>3. \A c : Outweighs(c)' <=> Outweighs(c)
  BY <1>2 DEF Outweighs, weight
<1>4. Outweighs(head)' /\ Outweighs(head)
  BY <1>2, <1>3 DEF SInv
<1>5. IndexTyped'
  BY <1>1, <1>2 DEF SInv, IndexTyped
<1>6. \A h \in 0..sealed[head].height : Indexed(h)
  <2> TAKE h \in 0..sealed[head].height
  <2>1. cursor.height = sealed[head].height /\ Indexed(cursor.height)
        /\ (h < cursor.height => Indexed(h))
    BY <1>1 DEF SInv, SavedSoFar
  <2>2. sealed[head].height \in Nat
    BY ChainIndex DEF SInv
  <2>3. h = sealed[head].height \/ h < sealed[head].height
    BY <2>2
  <2> QED BY <2>1, <2>3
<1>7. HeadStored'
  <2>1. /\ head \in blocks /\ sealed[head].height \in Nat
        /\ heightIndex[sealed[head].height] = head
    BY ChainIndex DEF SInv
  <2>2. 0..sealed[head].height \subseteq DOMAIN dbHeights
    BY <1>6 DEF Indexed
  <2>3. sealed[head].height \in 0..sealed[head].height
    BY <2>1
  <2>4. head \in dbBlocks
    BY <1>6, <2>1, <2>3 DEF Indexed, SInv, IndexTyped
  <2> QED BY <1>1, <1>2, <1>3, <1>4, <2>1, <2>2, <2>4 DEF HeadStored
<1>8. Saved'
  BY <1>1, <1>2, <1>6 DEF Saved, Indexed
<1>9. SavedSoFar' /\ NotLoaded'
  BY <1>1 DEF SavedSoFar, NotLoaded
<1> QED BY <1>2, <1>4, <1>5, <1>7, <1>8, <1>9 DEF SInv

(* A failed write or a crash: only the control state changes.              *)
LEMMA StepStops ==
    ASSUME SInv, SaveFails \/ Crash
    PROVE  SInv'
<1>1. pc' \in {"down", "running"} /\ UNCHANGED <<vars, configVars, dbVars, cursor, torn>>
  BY DEF SaveFails, Crash
<1>2. Inv' /\ sealed' = sealed /\ head' = head /\ blocks' = blocks /\ heightIndex' = heightIndex
  BY <1>1, ChainKept DEF SInv, vars
<1>3. \A c : Outweighs(c)' <=> Outweighs(c)
  BY <1>2 DEF Outweighs, weight
<1>4. Outweighs(head)'
  BY <1>2, <1>3 DEF SInv
<1>5. IndexTyped'
  BY <1>1, <1>2 DEF SInv, IndexTyped, dbVars
<1>6. HeadStored'
  BY <1>1, <1>2, <1>3 DEF SInv, HeadStored, dbVars
<1>7. Saved'
  BY <1>1, <1>2 DEF SInv, Saved, Indexed, dbVars
<1>8. SavedSoFar' /\ NotLoaded'
  BY <1>1 DEF SavedSoFar, NotLoaded
<1> QED BY <1>2, <1>4, <1>5, <1>6, <1>7, <1>8 DEF SInv

(* What New leaves alone: the database, and all that PoS keeps.            *)
RestartKeeps ==
    UNCHANGED <<sealed, configVars, dbVars, attestedRound, checkpointStake, finalizedHash,
                finalizedHeight, jailed, proposedAtHeight>>

LEMMA RestartKeepsPoS ==
    ASSUME Inv, RestartKeeps
    PROVE  /\ sealed' = sealed /\ chainTo' = chainTo /\ IsTable(sealed)'
           /\ \A c : weight(c)' = weight(c) /\ (Outweighs(c)' <=> Outweighs(c))
           /\ UNCHANGED <<dbBlocks, dbHeights, dbHead>>
           /\ EvidenceInv' /\ TalliedQuorum'
           /\ attestedRound' \subseteq [round : Nat, from : Validator, hash : Hash]
           /\ checkpointStake' \in [Hash -> Nat] /\ finalizedHash' \in Hash
           /\ finalizedHeight' \in Nat /\ jailed' \subseteq Validator
           /\ proposedAtHeight' \subseteq [prev : Hash, from : Validator, hash : BlockHash]
<1>1. /\ sealed' = sealed /\ finalizedHash' = finalizedHash
      /\ UNCHANGED <<dbBlocks, dbHeights, dbHead>>
  BY DEF RestartKeeps, dbVars
<1>2. chainTo' = chainTo
  BY <1>1, ChainToStable
<1>3. TypeOK
  BY Zenon DEF Inv, TreeInv
<1>4. IsTable(sealed)'
  BY <1>1, <1>3 DEF IsTable, TypeOK
<1>5. \A c : weight(c)' = weight(c) /\ (Outweighs(c)' <=> Outweighs(c))
  BY <1>1 DEF weight, Outweighs
<1>6. EvidenceInv' /\ TalliedQuorum'
  <2>1. finalizedHash = NoHash
    BY PoWAssumption DEF Inv, EvidenceInv
  <2> QED BY <1>1, <2>1, PoWAssumption DEF EvidenceInv, TalliedQuorum
<1>7. /\ attestedRound' \subseteq [round : Nat, from : Validator, hash : Hash]
      /\ checkpointStake' \in [Hash -> Nat] /\ finalizedHash' \in Hash
      /\ finalizedHeight' \in Nat /\ jailed' \subseteq Validator
      /\ proposedAtHeight' \subseteq [prev : Hash, from : Validator, hash : BlockHash]
  BY <1>3 DEF TypeOK, RestartKeeps
<1> QED BY <1>1, <1>2, <1>4, <1>5, <1>6, <1>7

(* A database with no head: New makes the genesis again.                   *)
LEMMA StepFresh ==
    ASSUME SInv, dbHead = NoHash, Fresh, RestartKeeps,
           pc' = "saving", cursor' = FirstWrite, torn' = torn
    PROVE  SInv'
<1>0. Inv
  BY DEF SInv
<1>1. /\ blocks' = {Genesis} /\ head' = Genesis /\ headState' = {Genesis}
      /\ td' = [b \in BlockHash |-> IF b = Genesis THEN sealed[b].difficulty ELSE 0]
      /\ heightIndex' = rebuildIndex({Genesis})
  BY Zenon DEF Fresh
<1>2. /\ sealed' = sealed /\ chainTo' = chainTo /\ IsTable(sealed)'
      /\ UNCHANGED <<dbBlocks, dbHeights, dbHead>>
      /\ EvidenceInv' /\ TalliedQuorum'
  BY <1>0, RestartKeepsPoS
<1>3. IsTable(sealed)
  BY <1>0, ChainIndex
<1>4. /\ Genesis \in DOMAIN sealed /\ sealed[Genesis].height = 0
      /\ sealed[Genesis].difficulty \in Nat /\ Genesis \in BlockHash
  BY <1>3, TableTypes
<1>5. chainTo[Genesis] = {Genesis}
  BY <1>3, <1>4, ChainToDef, Zenon
<1>6. TreeInv'
  <2>1. HeadViews'
    <3>1. headState' = chainTo'[head'] /\ heightIndex' = rebuildIndex(chainTo'[head'])
      BY <1>1, <1>2, <1>5
    <3> QED BY <1>2, <3>1 DEF HeadViews, rebuildIndex
  <2>2. td'[Genesis] = sealed[Genesis].difficulty /\ td' \in [BlockHash -> Nat]
    BY <1>1, <1>4
  <2>3. Rooted' /\ HeaviestHead'
    BY <1>1, <1>2, <1>4, <2>2 DEF Rooted, HeaviestHead
  <2>4. DOMAIN heightIndex' = {0} /\ \A h \in DOMAIN heightIndex' : heightIndex'[h] = Genesis
    <3>1. Linked({Genesis})
      BY <1>4 DEF Linked
    <3>2. LET index == rebuildIndex(chainTo[Genesis]) IN
          /\ DOMAIN index = 0..sealed[Genesis].height
          /\ \A h \in DOMAIN index : index[h] \in chainTo[Genesis]
      BY <1>3, <3>1, IndexIsBranch, Zenon
    <3>3. 0..sealed[Genesis].height = {0}
      BY <1>4
    <3> QED BY <1>1, <1>5, <3>2, <3>3, Zenon
  <2>5. /\ blocks' \subseteq DOMAIN sealed' /\ head' \in blocks' /\ headState' \subseteq blocks'
        /\ DOMAIN heightIndex' \subseteq Nat
        /\ \A h \in DOMAIN heightIndex' : heightIndex'[h] \in blocks'
    <3>1. Genesis \in DOMAIN sealed' /\ Genesis \in blocks'
      BY <1>1, <1>2, <1>4, Zenon
    <3>2. blocks' \subseteq DOMAIN sealed' /\ head' \in blocks' /\ headState' \subseteq blocks'
      BY <1>1, <3>1, Zenon
    <3>3. {0} \subseteq Nat
      OBVIOUS
    <3> QED BY <2>4, <3>1, <3>2, <3>3, Zenon
  <2>6. TypeOK'
    BY <1>0, <2>2, <2>5, RestartKeepsPoS, Zenon DEF TypeOK
  <2> QED BY <1>1, <2>1, <2>3, <2>6 DEF TreeInv
<1>7. Outweighs(head)'
  BY <1>1 DEF Outweighs
<1>8. IndexTyped'
  BY <1>2, Zenon DEF SInv, IndexTyped
<1>9. HeadStored' /\ NotLoaded'
  BY <1>2 DEF HeadStored, NotLoaded
<1>10. torn
  <2>1. head \in DOMAIN sealed
    BY <1>0, ChainIndex, Zenon
  <2>2. head # NoHash
    BY <1>3, <2>1 DEF IsTable, NoHash
  <2> QED BY <2>2 DEF SInv, Saved
<1>11. Saved'
  BY <1>10 DEF Saved
<1>12. SavedSoFar'
  <2>1. cursor'.height = 0 /\ cursor'.what = "block"
    BY DEF FirstWrite
  <2>2. sealed'[head'].height = 0
    BY <1>1, <1>2, <1>4
  <2>3. \A h \in 0..0 : ~(h < 0)
    OBVIOUS
  <2>4. cursor' = FirstWrite /\ 0 \in 0..0
    OBVIOUS
  <2>5. cursor' \in [height : 0..0, what : {"block", "index", "head"}]
    BY <2>4 DEF FirstWrite
  <2> QED BY <1>10, <2>1, <2>2, <2>3, <2>5 DEF SavedSoFar
<1> QED BY <1>2, <1>6, <1>7, <1>8, <1>9, <1>11, <1>12, Zenon DEF SInv, Inv

(* What Load has found when it returns without an error.                   *)
LEMMA LoadsPath ==
    ASSUME SInv, dbHead # NoHash, Loads, NEW n, n = sealed[dbHead].height
    PROVE  /\ n \in Nat /\ IndexLinks(n) /\ 0..n \subseteq DOMAIN dbHeights
           /\ Rebuilt(Replayed(n), n)
           /\ Replayed(n).head = dbHead /\ dbHeights[n] = dbHead
<1>1. IsTable(sealed) /\ dbHead \in DOMAIN sealed /\ IndexTyped
  BY ChainIndex DEF SInv, HeadStored
<1>2. n \in Nat
  BY <1>1, TableTypes
<1>3. /\ 0..n \subseteq DOMAIN dbHeights /\ Replayed(n).head = dbHead
      /\ \A h \in 1..n : sealed[dbHeights[h]].prev = dbHeights[h - 1]
  BY DEF Loads
<1>4. 0 \in 0..n
  BY <1>2
<1>5. IndexLinks(n)
  BY <1>1, <1>3, <1>4 DEF IndexLinks, IndexTyped
<1>6. Rebuilt(Replayed(n), n)
  BY <1>1, <1>2, <1>5, LoadRebuilds, Zenon
<1>7. PICK k \in 0..n : dbHead = dbHeights[k]
  BY <1>3, <1>6, Zenon DEF Rebuilt
<1>8. k = n
  BY <1>5, <1>7 DEF IndexLinks
<1> QED BY <1>2, <1>3, <1>5, <1>6, <1>7, <1>8, Zenon

(* A database that loads: the rebuilt chain is the path to the stored head *)
(* and the database is its image.                                          *)
LEMMA StepReload ==
    ASSUME SInv, dbHead # NoHash, Loads, Reload, RestartKeeps,
           pc' = "running", torn' = FALSE
    PROVE  SInv'
<1> DEFINE n == sealed[dbHead].height
           r == Replayed(n)
           path == Path(n)
<1>0. Inv /\ IsTable(sealed)
  BY ChainIndex DEF SInv
<1>1. /\ blocks' = path /\ head' = r.head /\ headState' = chainTo[r.head]
      /\ td' = [b \in BlockHash |-> IF b \in path THEN r.td[b] ELSE 0]
      /\ heightIndex' = rebuildIndex(chainTo[r.head])
  BY Zenon DEF Reload, Path
<1>2. /\ n \in Nat /\ IndexLinks(n) /\ 0..n \subseteq DOMAIN dbHeights
      /\ Rebuilt(r, n) /\ r.head = dbHead /\ dbHeights[n] = dbHead
  BY LoadsPath
<1>3. n = sealed[dbHead].height
  OBVIOUS
<1> HIDE DEF n, r
<1>4. /\ Linked(path) /\ dbHead \in path /\ chainTo[dbHead] \subseteq path
      /\ DOMAIN rebuildIndex(chainTo[dbHead]) = 0..n
      /\ \A h \in 0..n : rebuildIndex(chainTo[dbHead])[h] = dbHeights[h]
  BY <1>0, <1>2, PathIsBranch
<1>5. /\ \A b \in path : r.td[b] \in Nat /\ r.td[b] <= r.td[dbHead]
      /\ \A b \in path \ {Genesis} : r.td[b] = r.td[sealed[b].prev] + weight(b)
  BY <1>2, PathWeights
<1>6. \A h \in 0..n : dbHeights[h] \in path
  BY DEF Path
<1> HIDE DEF path
<1>7. /\ sealed' = sealed /\ chainTo' = chainTo /\ IsTable(sealed)'
      /\ UNCHANGED <<dbBlocks, dbHeights, dbHead>>
      /\ EvidenceInv' /\ TalliedQuorum'
      /\ \A c : weight(c)' = weight(c) /\ (Outweighs(c)' <=> Outweighs(c))
  BY <1>0, RestartKeepsPoS
<1>8. head' = dbHead /\ headState' = chainTo[dbHead]
      /\ heightIndex' = rebuildIndex(chainTo[dbHead])
  BY <1>1, <1>2, Zenon
<1>9. path \subseteq DOMAIN sealed /\ path \subseteq BlockHash /\ Genesis \in path
  BY <1>0, <1>4, TableTypes DEF Linked
<1>10. \A b \in path : td'[b] = r.td[b]
  BY <1>1, <1>9
<1>11. Rooted'
  <2>1. td'[Genesis] = sealed[Genesis].difficulty
    BY <1>2, <1>9, <1>10 DEF Rebuilt
  <2>2. ASSUME NEW b \in path \ {Genesis}
        PROVE  /\ sealed[b].prev \in path
               /\ sealed[b].height = sealed[sealed[b].prev].height + 1
               /\ td'[b] = td'[sealed[b].prev] + weight(b)'
    <3>1. /\ sealed[b].prev \in path
          /\ sealed[b].height = sealed[sealed[b].prev].height + 1
      BY <1>4, <2>2, Zenon DEF Linked
    <3>2. td'[b] = r.td[b] /\ td'[sealed[b].prev] = r.td[sealed[b].prev]
      BY <1>10, <2>2, <3>1, Zenon
    <3>3. r.td[b] = r.td[sealed[b].prev] + weight(b) /\ weight(b)' = weight(b)
      BY <1>5, <1>7, <2>2, Zenon
    <3> QED BY <3>1, <3>2, <3>3, Zenon
  <2>3. \A b \in path \ {Genesis} : /\ sealed[b].prev \in path
                                    /\ sealed[b].height = sealed[sealed[b].prev].height + 1
                                    /\ td'[b] = td'[sealed[b].prev] + weight(b)'
    BY <2>2
  <2>4. blocks' = path /\ sealed' = sealed
    BY <1>1, <1>7, Zenon
  <2> QED BY <2>1, <2>3, <2>4 DEF Rooted
<1>12. HeaviestHead'
  BY <1>1, <1>4, <1>5, <1>8, <1>10, Zenon DEF HeaviestHead
<1>13. HeadViews'
  BY <1>7, <1>8 DEF HeadViews, rebuildIndex
<1>14. TypeOK'
  <2>1. blocks' \subseteq DOMAIN sealed'
    BY <1>1, <1>7, <1>9, Zenon
  <2>2. td' \in [BlockHash -> Nat]
    BY <1>1, <1>5
  <2>3. head' \in blocks' /\ headState' \subseteq blocks'
    BY <1>1, <1>4, <1>8, Zenon
  <2>4. 0..n \subseteq Nat
    BY <1>2
  <2>5. DOMAIN heightIndex' \subseteq Nat
    BY <1>4, <1>8, <2>4, Zenon
  <2>6. \A h \in DOMAIN heightIndex' : heightIndex'[h] \in blocks'
    BY <1>1, <1>4, <1>6, <1>8, Zenon
  <2> QED BY <1>0, <2>1, <2>2, <2>3, <2>5, <2>6, RestartKeepsPoS, Zenon DEF TypeOK
<1>15. Inv'
  <2>1. Genesis \in blocks'
    BY <1>1, <1>9, Zenon
  <2> QED BY <1>7, <1>11, <1>12, <1>13, <1>14, <2>1, Zenon DEF Inv, TreeInv
<1>16. HeadStored /\ IndexTyped
  BY DEF SInv
<1>17. Outweighs(head)'
  <2>1. Outweighs(dbHead)
    BY <1>16, Zenon DEF HeadStored
  <2>2. Outweighs(dbHead)'
    BY <1>7, <2>1 DEF Outweighs
  <2> QED BY <1>7, <1>8, <2>2 DEF Outweighs
<1>18. IndexTyped'
  BY <1>7, <1>16 DEF IndexTyped
<1>19. HeadStored'
  <2>1. /\ dbHead' \in blocks' /\ dbHead' \in dbBlocks'
        /\ 0..sealed'[dbHead'].height \subseteq DOMAIN dbHeights'
    BY <1>1, <1>2, <1>3, <1>4, <1>7, <1>16, Zenon DEF HeadStored
  <2>2. Outweighs(dbHead)'
    BY <1>7, <1>8, <1>17 DEF Outweighs
  <2> QED BY <2>1, <2>2, Zenon DEF HeadStored
<1>20. Saved'
  <2>1. \A h \in 0..n : h \in DOMAIN dbHeights' /\ dbHeights'[h] = heightIndex'[h]
    BY <1>2, <1>4, <1>7, <1>8, Zenon
  <2>2. sealed'[head'].height = n
    BY <1>3, <1>7, <1>8, Zenon
  <2> QED BY <1>7, <1>8, <2>1, <2>2, Zenon DEF Saved, Indexed
<1>21. SavedSoFar' /\ NotLoaded'
  BY DEF SavedSoFar, NotLoaded
<1> QED BY <1>15, <1>17, <1>18, <1>19, <1>20, <1>21, Zenon DEF SInv

(* New returns an error, or nothing happens: the database does not load    *)
(* any better than before.                                                 *)
LEMMA StepKeeps ==
    ASSUME SInv, UNCHANGED <<vars, configVars, dbVars, cursor, torn>>,
           \/ pc' = pc
           \/ pc' = "failed" /\ dbHead # NoHash /\ ~Loads
    PROVE  SInv'
<1>1. UNCHANGED <<dbBlocks, dbHeights, dbHead, defaultID, carriesTxs, cursor, torn>>
  BY DEF configVars, dbVars
<1>2. Inv' /\ sealed' = sealed /\ head' = head /\ blocks' = blocks /\ heightIndex' = heightIndex
  BY ChainKept DEF SInv, vars
<1>3. \A c : Outweighs(c)' <=> Outweighs(c)
  BY <1>2 DEF Outweighs, weight
<1>4. Outweighs(head)'
  BY <1>2, <1>3 DEF SInv
<1>5. IndexTyped'
  BY <1>1, <1>2 DEF SInv, IndexTyped
<1>6. HeadStored'
  BY <1>1, <1>2, <1>3, Zenon DEF SInv, HeadStored
<1>7. Saved'
  BY <1>1, <1>2, SMTT(30) DEF SInv, Saved, Indexed
<1>8. SavedSoFar'
  BY <1>1, <1>2 DEF SInv, SavedSoFar, Indexed
<1>9. NotLoaded'
  <2>1. Loads' <=> Loads
    BY <1>1, <1>2, LoadsKept
  <2> QED BY <1>1, <2>1 DEF SInv, NotLoaded
<1> QED BY <1>2, <1>4, <1>5, <1>6, <1>7, <1>8, <1>9 DEF SInv

LEMMA StepRestart ==
    ASSUME SInv, Restart
    PROVE  SInv'
<1>1. RestartKeeps
  BY Zenon DEF Restart, RestartKeeps
<1>2. CASE dbHead = NoHash
  <2>1. Fresh /\ pc' = "saving" /\ cursor' = FirstWrite /\ torn' = torn
    BY <1>2 DEF Restart
  <2> QED BY <1>1, <1>2, <2>1, StepFresh, Zenon
<1>3. CASE dbHead # NoHash /\ Loads
  <2>1. Reload /\ pc' = "running" /\ torn' = FALSE
    BY <1>3 DEF Restart
  <2> QED BY <1>1, <1>3, <2>1, StepReload, Zenon
<1>4. CASE dbHead # NoHash /\ ~Loads
  <2>1. pc' = "failed" /\ UNCHANGED <<chainVars, cursor, torn>>
    BY <1>4 DEF Restart
  <2>2. UNCHANGED <<vars, configVars, dbVars, cursor, torn>>
    BY <1>1, <2>1 DEF vars, chainVars, RestartKeeps
  <2> QED BY <1>4, <2>1, <2>2, StepKeeps
<1> QED BY <1>2, <1>3, <1>4, Zenon

LEMMA StoreInvariance == StoreSpec => []SInv
<1>1. SInv /\ [StoreNext]_storeVars => SInv'
  <2> SUFFICES ASSUME SInv, [StoreNext]_storeVars PROVE SInv'
    OBVIOUS
  <2>1. ASSUME NEW b \in 2..Len(sealed), Accept(b) PROVE SInv'
    BY <2>1, StepAccept
  <2>2. CASE PutBlock
    BY <2>2, StepPutBlock
  <2>3. CASE SetCanonical
    BY <2>3, StepSetCanonical
  <2>4. CASE SetHead
    BY <2>4, StepSetHead
  <2>5. CASE SaveFails \/ Crash
    BY <2>5, StepStops
  <2>6. CASE Restart
    BY <2>6, StepRestart
  <2>7. CASE UNCHANGED storeVars
    BY <2>7, StepKeeps DEF storeVars
  <2>8. \/ \E b \in 2..Len(sealed) : Accept(b)
        \/ PutBlock \/ SetCanonical \/ SetHead \/ SaveFails \/ Crash \/ Restart
        \/ UNCHANGED storeVars
    BY DEF StoreNext
  <2> QED BY <2>1, <2>2, <2>3, <2>4, <2>5, <2>6, <2>7, <2>8
<1> QED BY <1>1, InitStore, PTL DEF StoreSpec

-----------------------------------------------------------------------------
(* After a Save that completed, and after a Load, the database is the      *)
(* canonical branch and its head.                                          *)
THEOREM SavedIsCanonical == StoreSpec => []RunningIsSaved
<1>1. SInv => RunningIsSaved
  BY DEF SInv, Saved, Indexed, RunningIsSaved
<1> QED BY <1>1, StoreInvariance, PTL

(* Whatever crashes and failed writes came before, a node that runs has a  *)
(* chain as consistent as AddBlock alone would have made it.               *)
THEOREM RestartsAreSound == StoreSpec => []ChainRestored
<1>1. SInv => ChainRestored
  <2> SUFFICES ASSUME SInv PROVE Rooted /\ HeaviestHead /\ CanonicalIndex
    BY DEF ChainRestored
  <2>1. TreeInv
    BY DEF SInv, Inv
  <2> QED BY <2>1, TreeHasIndex DEF TreeInv
<1> QED BY <1>1, StoreInvariance, PTL

(* No write of Save and no restart replaces the stored head by a lighter   *)
(* one.                                                                    *)
THEOREM StoredHeadNeverLighter == StoreSpec => PersistedWeightGrows
<1>1. SInv /\ [StoreNext]_storeVars =>
        [dbHead # NoHash =>
           Promise!branchWeight[dbHead'] >= Promise!branchWeight[dbHead]]_storeVars
  <2> SUFFICES ASSUME SInv, StoreNext, dbHead # NoHash
               PROVE  BranchWeight[dbHead'] >= BranchWeight[dbHead]
    BY DEF BranchWeight
  <2>1. TreeInv /\ dbHead \in blocks /\ head \in blocks
    BY DEF SInv, Inv, TreeInv, TypeOK, HeadStored
  <2>2. BranchWeight[dbHead] = td[dbHead] /\ BranchWeight[head] = td[head]
    BY <2>1, TotalIsBranchWeight
  <2>3. td[dbHead] \in Nat /\ td[head] \in Nat /\ td[dbHead] <= td[head]
    <3>1. td \in [BlockHash -> Nat] /\ blocks \subseteq BlockHash
      BY <2>1, TableTypes, Zenon DEF TreeInv, TypeOK
    <3> QED BY <2>1, <3>1 DEF TreeInv, HeaviestHead
  <2>4. dbHead' = dbHead \/ dbHead' = head
    BY DEF StoreNext, Accept, PutBlock, SetCanonical, SetHead, SaveFails, Crash, Restart, dbVars
  <2> QED BY <2>2, <2>3, <2>4
<1> QED BY <1>1, StoreInvariance, PTL DEF StoreSpec, PersistedWeightGrows

(* An index that is the branch of the stored head loads, unless Load meets *)
(* transactions of a chain id that is not the default.                     *)
OnBranch == \A h \in 0..sealed[dbHead].height : dbHeights[h] \in chainTo[dbHead]
ReplaysTxs == defaultID \/ chainTo[dbHead] \cap carriesTxs = {}

LEMMA BranchLoads ==
    ASSUME SInv, dbHead # NoHash, OnBranch, ReplaysTxs
    PROVE  Loads
<1> DEFINE n == sealed[dbHead].height
<1>1. IsTable(sealed) /\ Linked(blocks) /\ blocks \subseteq DOMAIN sealed
  BY ChainIndex, Zenon DEF SInv
<1>2. /\ dbHead \in blocks /\ dbHead \in dbBlocks /\ 0..n \subseteq DOMAIN dbHeights
      /\ IndexTyped /\ Outweighs(dbHead)
  BY Zenon DEF SInv, HeadStored
<1>3. dbHead \in DOMAIN sealed /\ n \in Nat
  BY <1>1, <1>2, TableTypes, Zenon
<1>4. n = sealed[dbHead].height /\ \A h \in 0..n : dbHeights[h] \in chainTo[dbHead]
  BY Zenon DEF OnBranch
<1> HIDE DEF n
<1>5. Branch(blocks, dbHead) /\ dbHead \in chainTo[dbHead]
  BY <1>1, <1>2, <1>3, BranchIsPath, ChainToRange
<1>6. \A h \in 0..n : /\ dbHeights[h] \in DOMAIN sealed /\ sealed[dbHeights[h]].height = h
                      /\ dbHeights[h] \in dbBlocks
  BY <1>2, Zenon DEF IndexTyped
<1>7. 0 \in 0..n /\ n \in 0..n
  BY <1>3
<1>8. dbHeights[0] = Genesis /\ dbHeights[n] = dbHead
  <2>1. dbHeights[0] = Genesis
    BY <1>2, <1>7, Zenon DEF IndexTyped
  <2>2. dbHeights[n] \in chainTo[dbHead] /\ sealed[dbHeights[n]].height = n
    BY <1>4, <1>6, <1>7, Zenon
  <2> QED BY <1>4, <1>5, <2>1, <2>2, Zenon DEF Branch
<1>9. \A h \in 1..n : sealed[dbHeights[h]].prev = dbHeights[h - 1]
  <2> TAKE h \in 1..n
  <2>1. h \in 0..n /\ h - 1 \in 0..n /\ h # 0 /\ h \in Nat
    BY <1>3
  <2> DEFINE b == dbHeights[h]
             p == sealed[dbHeights[h]].prev
  <2>2. b \in chainTo[dbHead] /\ sealed[b].height = h
    BY <1>4, <1>6, <2>1, Zenon
  <2>3. b # Genesis
    BY <1>1, <2>1, <2>2, TableTypes
  <2>4. b \in blocks \ {Genesis} /\ p \in chainTo[dbHead]
    BY <1>5, <2>2, <2>3, Zenon DEF Branch
  <2>5. p \in blocks /\ sealed[b].height = sealed[p].height + 1
    BY <1>1, <2>4, Zenon DEF Linked
  <2>6. sealed[p].height \in Nat
    BY <1>1, <2>5, TableTypes, Zenon
  <2>7. p = sealed[dbHeights[h]].prev
    OBVIOUS
  <2> HIDE DEF p, b
  <2>8. sealed[p].height = h - 1
    BY <2>1, <2>2, <2>5, <2>6
  <2>9. dbHeights[h - 1] \in chainTo[dbHead] /\ sealed[dbHeights[h - 1]].height = h - 1
    BY <1>4, <1>6, <2>1, Zenon
  <2>10. \A a, c \in chainTo[dbHead] : sealed[a].height = sealed[c].height => a = c
    BY <1>5, Zenon DEF Branch
  <2>11. p = dbHeights[h - 1]
    BY <2>4, <2>8, <2>9, <2>10
  <2> QED BY <2>7, <2>11, Zenon
<1>10. IndexLinks(n)
  BY <1>6, <1>8, <1>9, Zenon DEF IndexLinks
<1>11. Rebuilt(Replayed(n), n)
  BY <1>1, <1>3, <1>10, LoadRebuilds
<1>12. Replayed(n).head = dbHead
  <2>1. CASE dbHead = Genesis
    <3>1. n = 0
      BY <1>1, <1>4, <2>1, TableTypes
    <3> QED BY <1>8, <1>11, <3>1, Zenon DEF Rebuilt
  <2>2. CASE dbHead # Genesis
    <3>1. weight(dbHeights[n]) > 0
      BY <1>2, <1>8, <2>2, Zenon DEF Outweighs
    <3> QED BY <1>8, <1>11, <3>1, Zenon DEF Rebuilt
  <2> QED BY <2>1, <2>2
<1>13. \A h \in 1..n : defaultID \/ dbHeights[h] \notin carriesTxs
  <2> TAKE h \in 1..n
  <2>1. h \in 0..n
    BY <1>3
  <2> QED BY <1>4, <2>1, Zenon DEF ReplaysTxs
<1> QED BY <1>2, <1>4, <1>6, <1>9, <1>12, <1>13, Zenon DEF Loads

(* New fails on a database this node wrote for two reasons only: a Save    *)
(* cut short left entries of two branches, or the chain id is not the one  *)
(* Load replays with.                                                      *)
THEOREM FailuresAreExplained == StoreSpec => []FailureExplained
<1>1. SInv => FailureExplained
  <2> SUFFICES ASSUME SInv, pc = "failed"
               PROVE  \/ torn /\ \E h \in DOMAIN dbHeights :
                                   h <= sealed[dbHead].height /\ dbHeights[h] \notin chainTo[dbHead]
                      \/ ~defaultID /\ chainTo[dbHead] \cap carriesTxs # {}
    BY DEF FailureExplained
  <2>1. dbHead # NoHash /\ ~Loads
    BY DEF SInv, NotLoaded
  <2>2. \/ ~defaultID /\ chainTo[dbHead] \cap carriesTxs # {}
        \/ \E h \in 0..sealed[dbHead].height : dbHeights[h] \notin chainTo[dbHead]
    BY <2>1, BranchLoads, Zenon DEF OnBranch, ReplaysTxs
  <2>3. ASSUME NEW h \in 0..sealed[dbHead].height, dbHeights[h] \notin chainTo[dbHead]
        PROVE  torn /\ h \in DOMAIN dbHeights /\ h <= sealed[dbHead].height
    <3>1. h \in DOMAIN dbHeights
      BY <2>1 DEF SInv, HeadStored
    <3>2. h <= sealed[dbHead].height
      OBVIOUS
    <3>3. torn
      <4> SUFFICES ASSUME ~torn PROVE FALSE
        OBVIOUS
      <4>1. dbHead = head /\ dbHeights[h] = heightIndex[h]
        BY DEF SInv, Saved, Indexed
      <4>2. CanonicalIndex /\ headState = chainTo[head]
        BY TreeHasIndex DEF SInv, Inv, TreeInv, HeadViews
      <4>3. heightIndex[h] \in chainTo[head]
        BY <4>1, <4>2 DEF CanonicalIndex
      <4> QED BY <2>3, <4>1, <4>3
    <3> QED BY <3>1, <3>2, <3>3
  <2> QED BY <2>2, <2>3
<1> QED BY <1>1, StoreInvariance, PTL
=============================================================================
