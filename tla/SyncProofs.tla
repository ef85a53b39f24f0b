----------------------------- MODULE SyncProofs -----------------------------
(***************************************************************************)
(* What holds of the blocks of every node, however announcements are lost, *)
(* relayed and dropped and wherever streams break, for all networks, node  *)
(* sets, slots and stream limits.                                          *)
(***************************************************************************)
EXTENDS Sync, SumLemmas

Mined == 1..Len(sealed)

(* The blocks mined form a tree.                                           *)
Table ==
    /\ sealed \in Seq([prev : Nat, height : Nat]) /\ Len(sealed) > 0
    /\ height(Genesis) = 0
    /\ \A b \in 2..Len(sealed) :
         sealed[b].prev \in 1..(b - 1) /\ height(b) = height(sealed[b].prev) + 1

Phase == {"started", "requested", "receiving"}

(* A sync of a node with another one.                                      *)
SyncRecord == [block : Mined, from : Nodes, phase : Phase, start : Nat, stream : Seq(Mined)]

NodesType ==
    /\ net \in Network /\ net.miners \subseteq net.nodes
    /\ blocks \in [Nodes -> SUBSET Mined] /\ head \in [Nodes -> Mined]
    /\ gossip \subseteq [block : Mined, to : Nodes, from : Nodes]
    /\ \A n \in Nodes : Genesis \in blocks[n]

SyncsType == syncs \in [Nodes -> SUBSET SyncRecord]

(* A stream runs up one branch: each block is the child of the one before. *)
Segment(q) == \A i \in 1..(Len(q) - 1) : sealed[q[i + 1]].prev = q[i]

(* The blocks on their way to a node are in the order of one branch, so    *)
(* that none but the first of what is left of a stream can lack its parent *)
(* when its turn comes (registerSyncHandler sends, syncFrom receives).     *)
StreamsAreBranches == \A n \in Nodes : \A s \in syncs[n] : Segment(s.stream)

(* A node never has a block without its parent, whatever the streams hold  *)
(* and wherever they break, and a head that no block of its is above       *)
(* (AcceptExternalBlock).                                                  *)
Linked ==
    \A n \in Nodes :
        /\ \A b \in blocks[n] \ {Genesis} : sealed[b].prev \in blocks[n]
        /\ head[n] \in blocks[n]
        /\ \A b \in blocks[n] : height(b) <= height(head[n])

SyncInv == Table /\ NodesType /\ SyncsType /\ StreamsAreBranches /\ Linked

-----------------------------------------------------------------------------
(* The rows of a table.                                                    *)
LEMMA Rows ==
    ASSUME Table
    PROVE  /\ Len(sealed) \in Nat /\ Genesis \in Mined /\ Mined \subseteq Nat
           /\ \A b \in Mined : sealed[b] \in [prev : Nat, height : Nat] /\ height(b) \in Nat
           /\ \A b \in Mined \ {Genesis} :
                /\ b \in 2..Len(sealed) /\ sealed[b].prev \in Mined
                /\ sealed[b].prev \in 1..(b - 1)
                /\ height(b) = height(sealed[b].prev) + 1
<1>1. /\ Len(sealed) \in Nat /\ Genesis \in Mined /\ Mined \subseteq Nat
      /\ \A b \in Mined \ {Genesis} : b \in 2..Len(sealed)
  BY DEF Table, Mined, Genesis
<1>2. \A b \in Mined : sealed[b] \in [prev : Nat, height : Nat] /\ height(b) \in Nat
  <2> DEFINE Row == [prev : Nat, height : Nat]
  <2>1. sealed \in Seq(Row)
    BY DEF Table
  <2>2. \A b \in Mined : sealed[b] \in Row
    <3> HIDE DEF Row
    <3> QED BY <2>1 DEF Mined
  <2> QED BY <2>2 DEF height
<1>3. ASSUME NEW b \in Mined \ {Genesis}
      PROVE  sealed[b].prev \in 1..(b - 1) /\ height(b) = height(sealed[b].prev) + 1
  BY <1>1 DEF Table
<1>4. ASSUME NEW b \in Mined \ {Genesis} PROVE sealed[b].prev \in Mined
  BY <1>1, <1>3 DEF Mined
<1> QED BY <1>1, <1>2, <1>3, <1>4

(* The walk to a height is what its recursive definition says.             *)
LEMMA BranchAtDef ==
    ASSUME Table, NEW h \in Nat
    PROVE  \A b \in Mined :
              branchAt(h)[b] = IF height(b) <= h THEN b ELSE branchAt(h)[sealed[b].prev]
<1> DEFINE Is(g, n) == g = [b \in 1..n |-> IF height(b) <= h THEN b ELSE g[sealed[b].prev]]
           S == {n \in Nat : n =< Len(sealed) => \E g : Is(g, n)}
<1>0. Len(sealed) \in Nat /\ height(Genesis) = 0
  BY Rows DEF Table
<1>1. 0 \in S
  <2>1. Is([b \in 1..0 |-> b], 0)
    OBVIOUS
  <2> QED BY <2>1, Zenon
<1>2. ASSUME NEW n \in Nat, n \in S PROVE n + 1 \in S
  <2> SUFFICES ASSUME n + 1 =< Len(sealed) PROVE \E g : Is(g, n + 1)
    OBVIOUS
  <2>0. PICK g : Is(g, n)
    BY <1>0, <1>2
  <2> DEFINE top == IF height(n + 1) <= h THEN n + 1 ELSE g[sealed[n + 1].prev]
             f == [b \in 1..(n + 1) |-> IF b = n + 1 THEN top ELSE g[b]]
  <2>1. ASSUME NEW b \in 1..(n + 1)
        PROVE  f[b] = IF height(b) <= h THEN b ELSE f[sealed[b].prev]
    <3>1. b \in Mined
      BY <1>0 DEF Mined
    <3>2. CASE height(b) <= h
      <4>1. f[b] = b
        BY <2>0, <3>2
      <4> QED BY <3>2, <4>1
    <3>3. CASE ~(height(b) <= h)
      <4>1. b # Genesis
        BY <1>0, <3>3
      <4>2. sealed[b].prev \in 1..n /\ sealed[b].prev # n + 1 /\ sealed[b].prev < b
        <5>1. sealed[b].prev \in 1..(b - 1)
          BY <3>1, <4>1, Rows
        <5> QED BY <5>1
      <4>3. f[sealed[b].prev] = g[sealed[b].prev]
        BY <4>2
      <4>4. f[b] = g[sealed[b].prev]
        BY <2>0, <3>3, <4>2
      <4> QED BY <3>3, <4>3, <4>4
    <3> QED BY <3>2, <3>3
  <2>2. Is(f, n + 1)
    BY <2>1, Zenon
  <2> QED BY <2>2, Zenon
<1>3. \E g : Is(g, Len(sealed))
  <2> HIDE DEF Is
  <2>1. \A n \in Nat : n \in S => n + 1 \in S
    BY <1>2
  <2> HIDE DEF S
  <2>2. Len(sealed) \in S
    BY <1>0, <1>1, <2>1, SetInduction
  <2> QED BY <1>0, <2>2 DEF S
<1>4. Is(branchAt(h), Len(sealed))
  BY <1>3, Zenon DEF branchAt
<1> QED BY <1>4, Zenon DEF Mined

(* The branch of a block has one block at each height up to its own, each  *)
(* the parent of the next: what GetByHeight finds in the index.            *)
LEMMA BranchAtPath ==
    ASSUME Table, NEW h \in Nat
    PROVE  \A b \in Mined :
              /\ h <= height(b) => branchAt(h)[b] \in Mined /\ height(branchAt(h)[b]) = h
              /\ h + 1 <= height(b) => sealed[branchAt(h + 1)[b]].prev = branchAt(h)[b]
<1> DEFINE P(b) == /\ h <= height(b) => branchAt(h)[b] \in Mined /\ height(branchAt(h)[b]) = h
                   /\ h + 1 <= height(b) => sealed[branchAt(h + 1)[b]].prev = branchAt(h)[b]
           S == {n \in Nat : \A b \in Mined : b <= n => P(b)}
<1>0. Len(sealed) \in Nat /\ height(Genesis) = 0 /\ Genesis \in Mined /\ h + 1 \in Nat
  BY Rows DEF Table
<1>1. 0 \in S
  BY <1>0 DEF Mined
<1>2. ASSUME NEW n \in Nat, n \in S PROVE n + 1 \in S
  <2> SUFFICES ASSUME NEW b \in Mined, b <= n + 1 PROVE P(b)
    OBVIOUS
  <2>1. b \in Nat /\ height(b) \in Nat
    BY Rows
  <2>2. CASE height(b) <= h
    <3>1. branchAt(h)[b] = b
      BY <2>2, BranchAtDef
    <3> QED BY <2>1, <2>2, <3>1
  <2>3. CASE height(b) > h
    <3>1. b # Genesis
      BY <1>0, <2>3
    <3>2. /\ sealed[b].prev \in Mined /\ sealed[b].prev \in 1..(b - 1)
          /\ height(b) = height(sealed[b].prev) + 1 /\ height(sealed[b].prev) \in Nat
      BY <3>1, Rows
    <3>3. P(sealed[b].prev)
      <4>1. sealed[b].prev <= n
        BY <2>1, <3>2
      <4> QED BY <1>2, <3>2, <4>1
    <3>4. branchAt(h)[b] = branchAt(h)[sealed[b].prev]
      BY <2>1, <2>3, BranchAtDef
    <3>5. h <= height(sealed[b].prev)
      BY <2>3, <3>2
    <3>6. CASE height(b) <= h + 1
      <4>1. branchAt(h + 1)[b] = b
        BY <1>0, <3>6, BranchAtDef
      <4>2. branchAt(h)[sealed[b].prev] = sealed[b].prev
        <5>1. height(sealed[b].prev) <= h
          BY <3>2, <3>6
        <5> QED BY <3>2, <5>1, BranchAtDef
      <4> QED BY <3>3, <3>4, <3>5, <4>1, <4>2
    <3>7. CASE height(b) > h + 1
      <4>1. branchAt(h + 1)[b] = branchAt(h + 1)[sealed[b].prev]
        BY <1>0, <2>1, <3>7, BranchAtDef
      <4>2. h + 1 <= height(sealed[b].prev)
        BY <3>2, <3>7
      <4> QED BY <3>3, <3>4, <3>5, <4>1, <4>2
    <3> QED BY <1>0, <2>1, <3>6, <3>7
  <2> QED BY <2>1, <2>2, <2>3
<1>3. \A n \in Nat : n \in S
  <2>1. \A n \in Nat : n \in S => n + 1 \in S
    BY <1>2
  <2> HIDE DEF S
  <2> QED BY <1>1, <2>1, SetInduction
<1>4. ASSUME NEW b \in Mined PROVE P(b)
  <2>1. b \in Nat /\ b <= b
    BY Rows
  <2> QED BY <1>3, <2>1
<1> QED BY <1>4

-----------------------------------------------------------------------------
(* What a responder streams, whole or up to the limit, is in the order of  *)
(* its branch (CanonicalBlocksFrom).                                       *)
LEMMA ServedStream ==
    ASSUME Table, NodesType, NEW m \in Nodes, NEW start \in Nat
    PROVE  /\ CanonicalBlocksFrom(m, start) \in Seq(Mined)
           /\ Segment(CanonicalBlocksFrom(m, start))
<1> DEFINE k == height(head[m]) + 1 - start
           q == CanonicalBlocksFrom(m, start)
<1>1. head[m] \in Mined /\ height(head[m]) \in Nat /\ k \in Int
  BY Rows DEF NodesType
<1>2. q = [i \in 1..k |-> branchAt(start + i - 1)[head[m]]]
  BY DEF CanonicalBlocksFrom, canonical
<1>3. CASE k > 0
  <2>1. \A i \in 1..k : start + i - 1 \in Nat /\ start + i - 1 <= height(head[m])
    BY <1>1
  <2>2. \A i \in 1..k : branchAt(start + i - 1)[head[m]] \in Mined
    BY <1>1, <2>1, BranchAtPath
  <2>3. q \in Seq(Mined) /\ Len(q) = k
    <3> HIDE DEF k, q
    <3> QED BY <1>1, <1>2, <1>3, <2>2
  <2>4. ASSUME NEW i \in 1..(k - 1) PROVE sealed[q[i + 1]].prev = q[i]
    <3>1. i \in 1..k /\ i + 1 \in 1..k /\ start + (i + 1) - 1 = (start + i - 1) + 1
      BY <1>1
    <3>2. q[i] = branchAt(start + i - 1)[head[m]]
          /\ q[i + 1] = branchAt((start + i - 1) + 1)[head[m]]
      <4> HIDE DEF k, q
      <4> QED BY <1>2, <3>1
    <3>3. start + i - 1 \in Nat /\ (start + i - 1) + 1 <= height(head[m])
      BY <1>1
    <3>4. sealed[branchAt((start + i - 1) + 1)[head[m]]].prev
            = branchAt(start + i - 1)[head[m]]
      BY <1>1, <3>3, BranchAtPath
    <3> QED BY <3>2, <3>4
  <2> QED BY <2>3, <2>4 DEF Segment
<1>4. CASE ~(k > 0)
  <2>1. q = <<>>
    BY <1>1, <1>2, <1>4
  <2>2. q \in Seq(Mined) /\ Len(q) = 0
    BY <2>1
  <2> QED BY <2>2 DEF Segment
<1> QED BY <1>3, <1>4

(* And begins at the height asked for.                                     *)
LEMMA ServedFrom ==
    ASSUME Table, NodesType, NEW m \in Nodes, NEW start \in Nat,
           CanonicalBlocksFrom(m, start) # <<>>
    PROVE  height(Head(CanonicalBlocksFrom(m, start))) = start
<1> DEFINE k == height(head[m]) + 1 - start
           q == CanonicalBlocksFrom(m, start)
<1>1. head[m] \in Mined /\ height(head[m]) \in Nat /\ k \in Int
  BY Rows DEF NodesType
<1>2. q = [i \in 1..k |-> branchAt(start + i - 1)[head[m]]]
  BY DEF CanonicalBlocksFrom, canonical
<1>3. k > 0
  <2> SUFFICES ASSUME ~(k > 0) PROVE FALSE
    OBVIOUS
  <2> QED BY <1>1, <1>2
<1>4. start <= height(head[m]) /\ start + 1 - 1 = start /\ 1 \in 1..k
  BY <1>1, <1>3
<1>5. Head(q) = q[1]
  OBVIOUS
<1>6. q[1] = branchAt(start)[head[m]]
  <2> HIDE DEF k, q
  <2> QED BY <1>2, <1>4
<1>7. height(branchAt(start)[head[m]]) = start
  BY <1>1, <1>4, BranchAtPath
<1> QED BY <1>5, <1>6, <1>7

(* What is left of a stream, or was sent of it, is in order as well.       *)
LEMMA PartOfStream ==
    ASSUME Table, NEW q \in Seq(Mined), Segment(q)
    PROVE  /\ <<>> \in Seq(Mined) /\ Segment(<<>>)
           /\ q # <<>> => Head(q) \in Mined /\ Tail(q) \in Seq(Mined) /\ Segment(Tail(q))
           /\ \A k \in Nat : k < Len(q) =>
                SubSeq(q, 1, k) \in Seq(Mined) /\ Segment(SubSeq(q, 1, k))
<1>1. <<>> \in Seq(Mined) /\ Segment(<<>>)
  BY DEF Segment
<1>2. ASSUME q # <<>> PROVE Head(q) \in Mined /\ Tail(q) \in Seq(Mined) /\ Segment(Tail(q))
  <2>1. Head(q) \in Mined /\ Tail(q) \in Seq(Mined) /\ Len(Tail(q)) = Len(q) - 1
    BY <1>2
  <2>2. ASSUME NEW i \in 1..(Len(Tail(q)) - 1)
        PROVE  sealed[Tail(q)[i + 1]].prev = Tail(q)[i]
    <3>1. Tail(q)[i] = q[i + 1] /\ Tail(q)[i + 1] = q[(i + 1) + 1]
      BY <1>2, <2>1
    <3>2. i + 1 \in 1..(Len(q) - 1)
      BY <2>1
    <3> QED BY <3>1, <3>2 DEF Segment
  <2> QED BY <2>1, <2>2 DEF Segment
<1>3. ASSUME NEW k \in Nat, k < Len(q)
      PROVE  SubSeq(q, 1, k) \in Seq(Mined) /\ Segment(SubSeq(q, 1, k))
  <2>1. Len(SubSeq(q, 1, k)) = k /\ \A i \in 1..k : SubSeq(q, 1, k)[i] = q[i]
    BY <1>3
  <2>2. SubSeq(q, 1, k) \in Seq(Mined)
    BY <1>3
  <2>3. ASSUME NEW i \in 1..(k - 1)
        PROVE  sealed[SubSeq(q, 1, k)[i + 1]].prev = SubSeq(q, 1, k)[i]
    <3>1. i \in 1..k /\ i + 1 \in 1..k /\ i \in 1..(Len(q) - 1)
      BY <1>3
    <3> QED BY <2>1, <3>1 DEF Segment
  <2> QED BY <2>1, <2>2, <2>3 DEF Segment
<1> QED BY <1>1, <1>2, <1>3

(* The part of the invariant about chains, and the part about streams.     *)
ChainsInv == Table /\ NodesType /\ Linked
StreamsInv == SyncsType /\ StreamsAreBranches

(* AcceptExternalBlock takes only blocks whose parent it has, and follows  *)
(* the highest.                                                            *)
LEMMA AcceptKeeps ==
    ASSUME ChainsInv, NEW n \in Nodes, NEW b \in Mined, AcceptExternalBlock(n, b),
           UNCHANGED <<net, sealed>>, gossip' \subseteq gossip
    PROVE  ChainsInv'
<1>0. Table /\ NodesType /\ Linked /\ sealed' = sealed /\ Mined' = Mined /\ net' = net
  BY DEF ChainsInv, Mined
<1>1. Table'
  BY <1>0 DEF Table, height
<1>2. CASE Duplicate(n, b) \/ UnknownParent(n, b)
  <2>1. blocks' = blocks /\ head' = head
    BY <1>2 DEF AcceptExternalBlock
  <2>2. NodesType'
    BY <1>0, <2>1 DEF NodesType
  <2>3. Linked'
    BY <1>0, <2>1 DEF Linked, height
  <2> QED BY <1>1, <2>2, <2>3 DEF ChainsInv
<1>3. CASE ~(Duplicate(n, b) \/ UnknownParent(n, b))
  <2>1. /\ blocks' = [blocks EXCEPT ![n] = @ \cup {b}]
        /\ head' = [head EXCEPT ![n] = IF height(b) > height(@) THEN b ELSE @]
        /\ sealed[b].prev \in blocks[n]
    BY <1>3 DEF AcceptExternalBlock, UnknownParent
  <2>2. blocks \in [Nodes -> SUBSET Mined] /\ head \in [Nodes -> Mined]
    BY <1>0 DEF NodesType
  <2>3. /\ blocks'[n] = blocks[n] \cup {b}
        /\ head'[n] = IF height(b) > height(head[n]) THEN b ELSE head[n]
        /\ \A m \in Nodes \ {n} : blocks'[m] = blocks[m] /\ head'[m] = head[m]
    BY <2>1, <2>2
  <2>4. blocks' \in [Nodes -> SUBSET Mined] /\ head' \in [Nodes -> Mined]
    BY <2>1, <2>2
  <2>5. NodesType'
    BY <1>0, <2>3, <2>4 DEF NodesType
  <2>6. ASSUME NEW m \in Nodes
        PROVE  /\ \A c \in blocks'[m] \ {Genesis} : sealed[c].prev \in blocks'[m]
               /\ head'[m] \in blocks'[m]
               /\ \A c \in blocks'[m] : height(c) <= height(head'[m])
    <3>1. CASE m # n
      BY <1>0, <2>3, <3>1 DEF Linked
    <3>2. CASE m = n
      <4>1. \A c \in blocks'[n] \ {Genesis} : sealed[c].prev \in blocks'[n]
        BY <1>0, <2>1, <2>3 DEF Linked
      <4>2. head'[n] \in blocks'[n]
        BY <1>0, <2>3 DEF Linked
      <4>3. ASSUME NEW c \in blocks'[n] PROVE height(c) <= height(head'[n])
        <5>1. height(c) \in Nat /\ height(b) \in Nat /\ height(head[n]) \in Nat
          BY <1>0, <2>2, <2>3, Rows
        <5>2. c = b \/ height(c) <= height(head[n])
          BY <1>0, <2>3 DEF Linked
        <5> QED BY <2>3, <5>1, <5>2
      <4> QED BY <3>2, <4>1, <4>2, <4>3
    <3> QED BY <3>1, <3>2
  <2>7. Linked'
    BY <1>0, <2>6 DEF Linked, height
  <2> QED BY <1>1, <2>5, <2>7 DEF ChainsInv
<1> QED BY <1>2, <1>3

(* Steps that leave every chain alone.                                     *)
LEMMA ChainsKept ==
    ASSUME ChainsInv, UNCHANGED <<net, sealed, blocks, head>>, gossip' \subseteq gossip
    PROVE  ChainsInv'
BY Zenon DEF ChainsInv, Table, NodesType, Linked, height, Mined

(* Blocks that were mined do not change, so a stream in order stays so.    *)
LEMMA StaysInOrder ==
    ASSUME sealed' = sealed, \A m \in Nodes : \A r \in syncs'[m] : Segment(r.stream)
    PROVE  StreamsAreBranches'
<1>1. ASSUME NEW m \in Nodes, NEW r \in syncs'[m], NEW i \in 1..(Len(r.stream) - 1)
      PROVE  sealed'[r.stream[i + 1]].prev = r.stream[i]
  <2>1. Segment(r.stream)
    OBVIOUS
  <2> QED BY <2>1 DEF Segment
<1> QED BY <1>1, Zenon DEF StreamsAreBranches, Segment

(* Steps of one sync.                                                      *)
LEMMA SyncMoves ==
    ASSUME StreamsInv, UNCHANGED sealed, NEW n \in Nodes, NEW s \in syncs[n],
           NEW t \in SyncRecord, Segment(t.stream), moveSync(n, s, t)
    PROVE  StreamsInv'
<1>0. /\ syncs \in [Nodes -> SUBSET SyncRecord] /\ sealed' = sealed /\ SyncRecord' = SyncRecord
      /\ \A m \in Nodes : \A r \in syncs[m] : Segment(r.stream)
  BY DEF StreamsInv, SyncsType, StreamsAreBranches, SyncRecord, Mined
<1>1. syncs' = [syncs EXCEPT ![n] = (@ \ {s}) \cup {t}]
  BY DEF moveSync
<1>2. syncs' \in [Nodes -> SUBSET SyncRecord]
  BY <1>0, <1>1
<1>3. \A m \in Nodes : \A r \in syncs'[m] : r = t \/ r \in syncs[m]
  BY <1>0, <1>1
<1>4. \A m \in Nodes : \A r \in syncs'[m] : Segment(r.stream)
  BY <1>0, <1>3, Zenon
<1>5. SyncsType'
  BY <1>0, <1>2, Zenon DEF SyncsType
<1>6. StreamsAreBranches'
  BY <1>0, <1>4, StaysInOrder, Zenon
<1> QED BY <1>5, <1>6 DEF StreamsInv

(* The end of a sync, good or bad.                                         *)
LEMMA SyncEnds ==
    ASSUME StreamsInv, UNCHANGED sealed, NEW n \in Nodes, NEW s, endSync(n, s)
    PROVE  StreamsInv'
<1>0. /\ syncs \in [Nodes -> SUBSET SyncRecord] /\ sealed' = sealed /\ SyncRecord' = SyncRecord
      /\ \A m \in Nodes : \A r \in syncs[m] : Segment(r.stream)
  BY DEF StreamsInv, SyncsType, StreamsAreBranches, SyncRecord, Mined
<1>1. syncs' = [syncs EXCEPT ![n] = @ \ {s}]
  BY DEF endSync
<1>2. syncs' \in [Nodes -> SUBSET SyncRecord]
  BY <1>0, <1>1
<1>3. \A m \in Nodes : \A r \in syncs'[m] : r \in syncs[m]
  BY <1>0, <1>1
<1>4. \A m \in Nodes : \A r \in syncs'[m] : Segment(r.stream)
  BY <1>0, <1>3, Zenon
<1>5. SyncsType'
  BY <1>0, <1>2, Zenon DEF SyncsType
<1>6. StreamsAreBranches'
  BY <1>0, <1>4, StaysInOrder, Zenon
<1> QED BY <1>5, <1>6 DEF StreamsInv

(* A node that is not at work on a sync begins one.                        *)
LEMMA NewSync ==
    ASSUME Table, NEW b \in Mined, NEW m \in Nodes
    PROVE  newSync(b, m) \in SyncRecord /\ Segment(newSync(b, m).stream)
BY DEF newSync, SyncRecord, Phase, Segment

(* The announcement of a block that was mined reaches nodes of the         *)
(* network from nodes of the network.                                      *)
LEMMA Announced ==
    ASSUME NodesType, NEW n \in net.miners, NEW via \in routes(n), NEW b
    PROVE  {[block |-> b, to |-> m, from |-> via[m]] : m \in net.nodes \ {n}}
             \subseteq [block : {b}, to : Nodes, from : Nodes]
<1>1. net.nodes \subseteq Nodes
  BY DEF NodesType, Network
<1>2. via \in [net.nodes \ {n} -> net.nodes]
  BY DEF routes
<1> QED BY <1>1, <1>2

(* MineBlock extends the head; everything else that was mined stays what   *)
(* it was.                                                                 *)
LEMMA MineKeeps ==
    ASSUME SyncInv, NEW n \in Nodes, Mine(n)
    PROVE  SyncInv'
<1> DEFINE b == Len(sealed) + 1
           row == [prev |-> head[n], height |-> height(head[n]) + 1]
<1>0. Table /\ NodesType /\ SyncsType /\ StreamsAreBranches /\ Linked
  BY DEF SyncInv
<1>1. /\ n \in net.miners
      /\ sealed' = Append(sealed, row)
      /\ blocks' = [blocks EXCEPT ![n] = @ \cup {b}]
      /\ head' = [head EXCEPT ![n] = b]
      /\ net' = net /\ syncs' = syncs
  BY DEF Mine
<1>2. /\ Len(sealed) \in Nat /\ b \in Nat /\ Genesis \in Mined /\ Genesis # b
      /\ head[n] \in Mined /\ height(head[n]) \in Nat
      /\ \A c \in Mined : height(c) \in Nat
  <2>1. head[n] \in Mined
    BY <1>0 DEF NodesType
  <2>2. Genesis # b
    BY <1>0, Rows DEF Genesis, Mined
  <2> QED BY <1>0, <2>1, <2>2, Rows
<1>3. /\ sealed' \in Seq([prev : Nat, height : Nat]) /\ Len(sealed') = b
      /\ sealed'[b] = row
      /\ \A c \in Mined : sealed'[c] = sealed[c]
  <2> DEFINE Row == [prev : Nat, height : Nat]
  <2>1. sealed \in Seq(Row) /\ row \in Row
    BY <1>0, <1>2, Rows DEF Table
  <2> HIDE DEF Row, row
  <2>2. sealed' \in Seq(Row) /\ Len(sealed') = b /\ sealed'[b] = row
    BY <1>1, <2>1
  <2>3. \A c \in 1..Len(sealed) : sealed'[c] = sealed[c]
    BY <1>1, <2>1
  <2> QED BY <2>2, <2>3 DEF Row, Mined
<1>4. Mined' = Mined \cup {b} /\ Mined \subseteq Mined' /\ b \notin Mined /\ b \in Mined'
  <2>1. Len(sealed') = b /\ Len(sealed) \in Nat
    BY <1>2, <1>3
  <2> QED BY <2>1 DEF Mined
<1>5. /\ sealed'[b].prev = head[n] /\ sealed'[b].height = height(head[n]) + 1
       /\ \A c \in Mined : sealed'[c] = sealed[c]
  BY <1>3
<1>6. Table'
  <2>1. height(Genesis)' = 0 /\ Len(sealed') > 0
    <3>1. sealed'[Genesis] = sealed[Genesis] /\ height(Genesis) = 0
      BY <1>0, <1>2, <1>5 DEF Table
    <3>2. Len(sealed') > 0
      BY <1>2, <1>3
    <3> QED BY <3>1, <3>2 DEF height
  <2>2. ASSUME NEW c \in 2..b
        PROVE  /\ sealed'[c].prev \in 1..(c - 1)
               /\ sealed'[c].height = sealed'[sealed'[c].prev].height + 1
    <3>1. CASE c = b
      <4>1. sealed'[c].prev = head[n] /\ sealed'[c].height = height(head[n]) + 1
        BY <1>5, <3>1
      <4>2. sealed'[head[n]] = sealed[head[n]] /\ head[n] \in 1..(b - 1)
        <5>1. head[n] \in 1..(b - 1)
          BY <1>2 DEF Mined
        <5> QED BY <1>2, <1>5, <5>1
      <4> QED BY <3>1, <4>1, <4>2 DEF height
    <3>2. CASE c # b
      <4>1. c \in Mined /\ c # Genesis
        BY <1>2, <3>2 DEF Mined, Genesis
      <4>2. /\ sealed[c].prev \in 1..(c - 1) /\ sealed[c].prev \in Mined
            /\ height(c) = height(sealed[c].prev) + 1
        BY <1>0, <4>1, Rows
      <4>3. sealed'[c] = sealed[c] /\ sealed'[sealed[c].prev] = sealed[sealed[c].prev]
        BY <1>5, <4>1, <4>2
      <4> QED BY <4>2, <4>3 DEF height
    <3> QED BY <3>1, <3>2
  <2> QED BY <1>3, <2>1, <2>2 DEF Table, height
<1>7. /\ blocks'[n] = blocks[n] \cup {b} /\ head'[n] = b
      /\ \A m \in Nodes \ {n} : blocks'[m] = blocks[m] /\ head'[m] = head[m]
  BY <1>0, <1>1 DEF NodesType
<1>8. NodesType'
  <2>1. blocks' \in [Nodes -> SUBSET Mined'] /\ head' \in [Nodes -> Mined']
    BY <1>0, <1>1, <1>4 DEF NodesType
  <2>2. gossip' \subseteq [block : Mined', to : Nodes, from : Nodes]
    <3>1. PICK via \in routes(n) :
            gossip' = gossip \cup {[block |-> b, to |-> m, from |-> via[m]] : m \in net.nodes \ {n}}
      BY DEF Mine
    <3>2. {[block |-> b, to |-> m, from |-> via[m]] : m \in net.nodes \ {n}}
             \subseteq [block : {b}, to : Nodes, from : Nodes]
      BY <1>0, <1>1, Announced
    <3>3. /\ gossip \subseteq [block : Mined', to : Nodes, from : Nodes]
          /\ [block : {b}, to : Nodes, from : Nodes] \subseteq [block : Mined', to : Nodes, from : Nodes]
      BY <1>0, <1>4 DEF NodesType
    <3> QED BY <3>1, <3>2, <3>3, Zenon
  <2>3. \A m \in Nodes : Genesis \in blocks'[m]
    BY <1>0, <1>7 DEF NodesType
  <2> QED BY <1>0, <1>1, <2>1, <2>2, <2>3 DEF NodesType
<1>9. SyncsType'
  <2>1. Seq(Mined) \subseteq Seq(Mined')
    BY <1>4
  <2>2. SyncRecord \subseteq SyncRecord'
    BY <1>4, <2>1 DEF SyncRecord
  <2> QED BY <1>0, <1>1, <2>2 DEF SyncsType
<1>10. StreamsAreBranches'
  <2>1. ASSUME NEW m \in Nodes, NEW s \in syncs[m], NEW i \in 1..(Len(s.stream) - 1)
        PROVE  sealed'[s.stream[i + 1]].prev = s.stream[i]
    <3>1. s.stream \in Seq(Mined)
      BY <1>0 DEF SyncsType, SyncRecord
    <3>2. s.stream[i + 1] \in Mined
      BY <3>1
    <3>3. sealed[s.stream[i + 1]].prev = s.stream[i]
      BY <1>0 DEF StreamsAreBranches, Segment
    <3> QED BY <1>3, <3>2, <3>3
  <2> QED BY <1>1, <2>1, Zenon DEF StreamsAreBranches, Segment
<1>11. Linked'
  <2>1. ASSUME NEW m \in Nodes
        PROVE  /\ \A c \in blocks'[m] \ {Genesis} : sealed'[c].prev \in blocks'[m]
               /\ head'[m] \in blocks'[m]
               /\ \A c \in blocks'[m] : sealed'[c].height <= sealed'[head'[m]].height
    <3>0. /\ blocks[m] \subseteq Mined /\ head[m] \in blocks[m]
          /\ \A c \in blocks[m] \ {Genesis} : sealed[c].prev \in blocks[m]
          /\ \A c \in blocks[m] : height(c) <= height(head[m])
      BY <1>0 DEF NodesType, Linked
    <3>1. CASE m # n
      BY <1>7, <1>5, <3>0, <3>1 DEF height
    <3>2. CASE m = n
      <4>1. \A c \in blocks'[n] \ {Genesis} : sealed'[c].prev \in blocks'[n]
        <5>1. ASSUME NEW c \in blocks[n], c # Genesis PROVE sealed'[c].prev \in blocks'[n]
          BY <1>7, <1>5, <3>0, <3>2, <5>1
        <5>2. sealed'[b].prev \in blocks'[n]
          BY <1>7, <1>5, <3>0, <3>2
        <5> QED BY <1>7, <5>1, <5>2
      <4>2. ASSUME NEW c \in blocks[n] PROVE sealed'[c].height <= height(head[n]) + 1
        <5>1. sealed'[c].height = height(c) /\ height(c) \in Nat /\ height(c) <= height(head[n])
          BY <1>2, <1>5, <3>0, <3>2 DEF height
        <5> QED BY <1>2, <5>1
      <4>3. sealed'[b].height = height(head[n]) + 1
        BY <1>3
      <4>4. height(head[n]) + 1 <= height(head[n]) + 1
        BY <1>2
      <4> QED BY <1>7, <3>2, <4>1, <4>2, <4>3, <4>4
    <3> QED BY <3>1, <3>2
  <2> QED BY <2>1 DEF Linked, height
<1> QED BY <1>6, <1>8, <1>9, <1>10, <1>11 DEF SyncInv

(* A node begins a sync, beside some of those it has.                      *)
LEMMA SyncBegins ==
    ASSUME StreamsInv, UNCHANGED sealed, NEW n \in Nodes, NEW t \in SyncRecord, Segment(t.stream),
           NEW S \in SUBSET syncs[n], syncs' = [syncs EXCEPT ![n] = S \cup {t}]
    PROVE  StreamsInv'
<1>0. /\ syncs \in [Nodes -> SUBSET SyncRecord] /\ sealed' = sealed /\ SyncRecord' = SyncRecord
      /\ \A m \in Nodes : \A r \in syncs[m] : Segment(r.stream)
  BY DEF StreamsInv, SyncsType, StreamsAreBranches, SyncRecord, Mined
<1>1. syncs' \in [Nodes -> SUBSET SyncRecord]
  BY <1>0
<1>2. \A m \in Nodes : \A r \in syncs'[m] : r = t \/ r \in syncs[m]
  BY <1>0
<1>3. \A m \in Nodes : \A r \in syncs'[m] : Segment(r.stream)
  BY <1>0, <1>2, Zenon
<1>4. SyncsType'
  BY <1>0, <1>1, Zenon DEF SyncsType
<1>5. StreamsAreBranches'
  BY <1>0, <1>3, StaysInOrder, Zenon
<1> QED BY <1>4, <1>5 DEF StreamsInv

(* Steps that leave every sync alone.                                      *)
LEMMA StreamsKept ==
    ASSUME StreamsInv, UNCHANGED <<sealed, syncs>>
    PROVE  StreamsInv'
BY DEF StreamsInv, SyncsType, StreamsAreBranches, SyncRecord, Mined, Segment

(* The invariant is these two parts.                                       *)
LEMMA InvParts == SyncInv <=> ChainsInv /\ StreamsInv
BY DEF SyncInv, ChainsInv, StreamsInv

(* Every step keeps the invariant.                                         *)
LEMMA SyncInvStep == SyncInv /\ [SyncNext]_syncVars => SyncInv'
<1> SUFFICES ASSUME SyncInv, [SyncNext]_syncVars PROVE SyncInv'
  OBVIOUS
<1>0. ChainsInv /\ StreamsInv /\ Table /\ NodesType
  BY InvParts DEF ChainsInv
<1>p. ChainsInv' /\ StreamsInv' => SyncInv'
  BY InvParts, PTL
<1>1. ASSUME NEW n \in Nodes, Mine(n) PROVE SyncInv'
  BY <1>1, MineKeeps
<1>2. ASSUME NEW m \in gossip, Lose(m) PROVE SyncInv'
  BY <1>0, <1>p, <1>2, ChainsKept, StreamsKept DEF Lose
<1>3. ASSUME NEW m \in gossip, handleBlock(m) PROVE SyncInv'
  <2>1. m.block \in Mined /\ m.to \in Nodes /\ m.from \in Nodes
    BY <1>0 DEF NodesType
  <2>2. /\ AcceptExternalBlock(m.to, m.block) /\ UNCHANGED <<net, sealed>>
        /\ gossip' \subseteq gossip
    BY <1>3 DEF handleBlock
  <2>3. ChainsInv'
    BY <1>0, <2>1, <2>2, AcceptKeeps
  <2>4. CASE syncs' = syncs
    BY <1>0, <1>p, <2>2, <2>3, <2>4, StreamsKept
  <2>5. CASE syncs' = [syncs EXCEPT ![m.to] = @ \cup {newSync(m.block, m.from)}]
    BY <1>0, <1>p, <2>1, <2>2, <2>3, <2>5, NewSync, SyncBegins, Zenon
  <2> QED BY <1>3, <2>4, <2>5 DEF handleBlock
<1>4. ASSUME NEW n \in Nodes, NEW s \in syncs[n],
             \/ Request(n, s) \/ Serve(n, s) \/ Refuse(n, s) \/ Timeout(n, s)
             \/ Receive(n, s) \/ Finish(n, s) \/ Truncate(n, s) \/ Break(n, s)
      PROVE  SyncInv'
  <2>0. s \in SyncRecord /\ Segment(s.stream)
    BY <1>0 DEF StreamsInv, SyncsType, StreamsAreBranches
  <2>1. s.stream \in Seq(Mined) /\ s.block \in Mined /\ s.from \in Nodes /\ s.start \in Nat
    BY <2>0 DEF SyncRecord
  <2>2. CASE Request(n, s)
    <3> DEFINE t == [s EXCEPT !.phase = "requested", !.start = height(head[n]) + 1]
    <3>1. height(head[n]) + 1 \in Nat
      BY <1>0, Rows DEF NodesType
    <3>2. t \in SyncRecord /\ t.stream = s.stream
      BY <2>0, <3>1, Zenon DEF SyncRecord, Phase
    <3>3. moveSync(n, s, t) /\ UNCHANGED <<net, sealed, blocks, head, gossip>>
      BY <2>2 DEF Request
    <3> HIDE DEF t
    <3>4. StreamsInv'
      BY <1>0, <2>0, <3>2, <3>3, SyncMoves
    <3> QED BY <1>0, <1>p, <3>3, <3>4, ChainsKept
  <2>3. CASE Serve(n, s)
    <3> DEFINE all == CanonicalBlocksFrom(s.from, s.start)
               q == IF Len(all) > maxBlocksPerSync THEN SubSeq(all, 1, maxBlocksPerSync) ELSE all
               t == [s EXCEPT !.phase = "receiving", !.stream = q]
    <3>1. all \in Seq(Mined) /\ Segment(all)
      BY <1>0, <2>1, ServedStream, Zenon
    <3>2. maxBlocksPerSync \in Nat /\ Len(all) \in Nat
      BY <3>1, SyncAssumption
    <3>3. q \in Seq(Mined) /\ Segment(q)
      <4> HIDE DEF all
      <4> QED BY <1>0, <3>1, <3>2, PartOfStream
    <3>4. moveSync(n, s, t) /\ UNCHANGED <<net, sealed, blocks, head, gossip>>
      BY <2>3 DEF Serve
    <3> HIDE DEF q
    <3>5. t \in SyncRecord /\ t.stream = q
      BY <2>0, <3>3, Zenon DEF SyncRecord, Phase
    <3> HIDE DEF t
    <3>6. StreamsInv'
      BY <1>0, <3>3, <3>4, <3>5, SyncMoves
    <3> QED BY <1>0, <1>p, <3>4, <3>6, ChainsKept
  <2>4. CASE Receive(n, s)
    <3> DEFINE t == [s EXCEPT !.stream = Tail(@)]
    <3>1. /\ s.stream # <<>> /\ AcceptExternalBlock(n, Head(s.stream))
          /\ endSync(n, s) \/ moveSync(n, s, t)
          /\ UNCHANGED <<net, sealed, gossip>>
      BY <2>4 DEF Receive
    <3>2. Head(s.stream) \in Mined /\ Tail(s.stream) \in Seq(Mined) /\ Segment(Tail(s.stream))
      BY <1>0, <2>0, <2>1, <3>1, PartOfStream
    <3>3. t \in SyncRecord /\ t.stream = Tail(s.stream)
      BY <2>0, <3>2, Zenon DEF SyncRecord
    <3> HIDE DEF t
    <3>4. StreamsInv'
      BY <1>0, <3>1, <3>2, <3>3, SyncMoves, SyncEnds
    <3>5. ChainsInv'
      BY <1>0, <3>1, <3>2, AcceptKeeps
    <3> QED BY <1>p, <3>4, <3>5
  <2>5. CASE Finish(n, s)
    <3>1. /\ AcceptExternalBlock(n, s.block) /\ endSync(n, s)
          /\ UNCHANGED <<net, sealed, gossip>>
      BY <2>5 DEF Finish
    <3> QED BY <1>0, <1>p, <2>1, <3>1, AcceptKeeps, SyncEnds
  <2>6. CASE Truncate(n, s)
    <3> DEFINE t == [s EXCEPT !.stream = <<>>]
    <3>1. moveSync(n, s, t) /\ UNCHANGED <<net, sealed, blocks, head, gossip>>
      BY <2>6 DEF Truncate
    <3>2. <<>> \in Seq(Mined) /\ Segment(<<>>)
      BY <1>0, <2>0, <2>1, PartOfStream
    <3>3. t \in SyncRecord /\ t.stream = <<>>
      BY <2>0, <3>2, Zenon DEF SyncRecord
    <3> HIDE DEF t
    <3> QED BY <1>0, <1>p, <3>1, <3>2, <3>3, SyncMoves, ChainsKept
  <2>7. CASE Refuse(n, s) \/ Timeout(n, s) \/ Break(n, s)
    <3>1. endSync(n, s) /\ UNCHANGED <<net, sealed, blocks, head, gossip>>
      BY <2>7 DEF Refuse, Timeout, Break
    <3> QED BY <1>0, <1>p, <3>1, SyncEnds, ChainsKept
  <2> QED BY <1>4, <2>2, <2>3, <2>4, <2>5, <2>6, <2>7
<1>5. ASSUME NEW n \in Nodes, NEW m \in Nodes, Resync(n, m) PROVE SyncInv'
  <2>1. /\ syncs' = [syncs EXCEPT ![n] = {} \cup {newSync(Genesis, m)}]
        /\ UNCHANGED <<net, sealed, blocks, head, gossip>>
    BY <1>5 DEF Resync
  <2>2. Genesis \in Mined
    BY <1>0, Rows
  <2>3. newSync(Genesis, m) \in SyncRecord /\ Segment(newSync(Genesis, m).stream)
    BY <1>0, <2>2, NewSync
  <2>4. {} \in SUBSET syncs[n]
    OBVIOUS
  <2>5. StreamsInv'
    BY <1>0, <2>1, <2>3, <2>4, SyncBegins, Zenon
  <2> QED BY <1>0, <1>p, <2>1, <2>5, ChainsKept
<1>6. CASE UNCHANGED syncVars
  BY <1>0, <1>p, <1>6, ChainsKept, StreamsKept DEF syncVars
<1>7. ASSUME NEW n \in Nodes, Release(n) PROVE SyncInv'
  BY <1>0, <1>p, <1>7, ChainsKept, StreamsKept DEF Release
<1> QED BY <1>1, <1>2, <1>3, <1>4, <1>5, <1>6, <1>7 DEF SyncNext, SyncStep

(* Every node starts from the genesis, and nothing is under way.           *)
LEMMA SyncInvInit == SyncInit => SyncInv
<1> SUFFICES ASSUME SyncInit PROVE SyncInv
  OBVIOUS
<1> DEFINE row == [prev |-> 0, height |-> 0]
<1>1. sealed = <<row>> /\ row \in [prev : Nat, height : Nat]
  BY DEF SyncInit
<1>2. Len(sealed) = 1 /\ sealed \in Seq([prev : Nat, height : Nat]) /\ sealed[1] = row
  BY <1>1
<1>3. Mined = {Genesis}
  BY <1>2 DEF Mined, Genesis
<1>4. Table
  BY <1>2 DEF Table, height, Genesis
<1>5. NodesType
  BY <1>3, SyncAssumption DEF NodesType, SyncInit
<1>6. SyncsType /\ StreamsAreBranches
  BY DEF SyncsType, StreamsAreBranches, SyncInit
<1>7. Linked
  <2>1. height(Genesis) <= height(Genesis)
    BY <1>2 DEF height, Genesis
  <2> QED BY <2>1 DEF SyncInit, Linked
<1> QED BY <1>4, <1>5, <1>6, <1>7 DEF SyncInv

(* The invariant of catch-up: what is mined is a tree, streams run up one  *)
(* branch of it, and every chain is closed under parents.                  *)
THEOREM SyncInvariance == SyncSpec => []SyncInv
BY SyncInvInit, SyncInvStep, PTL DEF SyncSpec

(* Whatever the responder's chain does while it streams, the blocks on     *)
(* their way are in the order of one branch.                               *)
THEOREM StreamsInOrder == SyncSpec => []StreamsAreBranches
BY SyncInvariance, PTL DEF SyncInv

-----------------------------------------------------------------------------
(* A stream begins at the height asked for, which is above the node's head *)
(* of no later than now, and goes on with children of blocks it has.       *)
Fitting(table, own, top, s) ==
    /\ s.phase # "started" => s.start <= table[top].height + 1
    /\ s.stream # <<>> =>
         /\ s.phase # "started"
         /\ table[Head(s.stream)].height = s.start \/ table[Head(s.stream)].prev \in own
Fits(n, s) == Fitting(sealed, blocks[n], head[n], s)
WillFit(n, s) == Fitting(sealed', blocks'[n], head'[n], s)
StreamsFit == \A n \in Nodes : \A s \in syncs[n] : Fits(n, s)

(* Blocks that were mined do not change, and no node loses one.            *)
Grown ==
    /\ \A c \in Mined : sealed'[c] = sealed[c]
    /\ \A m \in Nodes : blocks[m] \subseteq blocks'[m]

LEMMA AcceptGrows ==
    ASSUME NodesType, NEW n \in Nodes, NEW b, AcceptExternalBlock(n, b)
    PROVE  /\ \A m \in Nodes : blocks[m] \subseteq blocks'[m]
           /\ b \in blocks'[n] \/ (~Duplicate(n, b) /\ UnknownParent(n, b))
<1>1. blocks \in [Nodes -> SUBSET Mined]
  BY DEF NodesType
<1> QED BY <1>1 DEF AcceptExternalBlock, Duplicate

LEMMA StepGrows ==
    ASSUME SyncInv, [SyncNext]_syncVars
    PROVE  Grown
<1>0. NodesType /\ Table
  BY DEF SyncInv
<1>1. ASSUME NEW n \in Nodes, Mine(n) PROVE Grown
  <2> DEFINE Row == [prev : Nat, height : Nat]
             row == [prev |-> head[n], height |-> height(head[n]) + 1]
  <2>1. sealed \in Seq(Row) /\ row \in Row
    BY <1>0, Rows DEF Table, NodesType
  <2>2. sealed' = Append(sealed, row) /\ blocks' = [blocks EXCEPT ![n] = @ \cup {Len(sealed) + 1}]
    BY <1>1 DEF Mine
  <2>3. \A c \in Mined : sealed'[c] = sealed[c]
    <3> HIDE DEF Row, row
    <3> QED BY <2>1, <2>2 DEF Mined
  <2>4. \A m \in Nodes : blocks[m] \subseteq blocks'[m]
    BY <1>0, <2>2 DEF NodesType
  <2> QED BY <2>3, <2>4 DEF Grown
<1>2. ASSUME NEW m \in gossip, handleBlock(m) PROVE Grown
  <2>1. m.to \in Nodes
    BY <1>0 DEF NodesType
  <2>2. AcceptExternalBlock(m.to, m.block) /\ sealed' = sealed
    BY <1>2 DEF handleBlock
  <2> QED BY <1>0, <2>1, <2>2, AcceptGrows DEF Grown
<1>3. ASSUME NEW n \in Nodes, NEW s \in syncs[n], Receive(n, s) \/ Finish(n, s) PROVE Grown
  <2>1. /\ AcceptExternalBlock(n, Head(s.stream)) \/ AcceptExternalBlock(n, s.block)
        /\ sealed' = sealed
    BY <1>3 DEF Receive, Finish
  <2> QED BY <1>0, <2>1, AcceptGrows DEF Grown
<1>4. ASSUME blocks' = blocks, sealed' = sealed PROVE Grown
  BY <1>4 DEF Grown
<1>5. \/ blocks' = blocks /\ sealed' = sealed
      \/ \E n \in Nodes : Mine(n)
      \/ \E m \in gossip : handleBlock(m)
      \/ \E n \in Nodes : \E s \in syncs[n] : Receive(n, s) \/ Finish(n, s)
  BY DEF SyncNext, SyncStep, Lose, Request, Serve, Refuse, Timeout, Release, Truncate, Break, Resync,
         syncVars
<1> QED BY <1>1, <1>2, <1>3, <1>4, <1>5

Heights == \A b \in Mined : height(b) \in Nat
LEMMA HeightsNat == Table => Heights
BY Rows DEF Heights

(* So the syncs that a step leaves alone still fit.                        *)
LEMMA FitsStays ==
    ASSUME SyncInv, SyncInv', Grown, NEW n \in Nodes, NEW s \in SyncRecord, Fits(n, s)
    PROVE  WillFit(n, s)
<1>1. /\ head[n] \in Mined /\ height(head[n]) \in Nat
      /\ head[n] \in blocks[n]
  BY Rows DEF SyncInv, NodesType, Linked
<1>2. sealed'[head[n]] = sealed[head[n]] /\ head[n] \in blocks'[n]
  BY <1>1 DEF Grown
<1>3. sealed'[head[n]].height <= sealed'[head'[n]].height
  BY <1>2 DEF SyncInv, Linked, height
<1>4. sealed'[head'[n]].height \in Nat
  <2>1. Table' /\ head'[n] \in Mined'
    BY DEF SyncInv, NodesType
  <2>2. Heights'
    BY <2>1, HeightsNat, PTL
  <2> QED BY <2>1, <2>2 DEF Heights, height
<1>5. s.start \in Nat /\ s.stream \in Seq(Mined)
  BY DEF SyncRecord
<1>6. ASSUME s.start <= height(head[n]) + 1 PROVE s.start <= sealed'[head'[n]].height + 1
  BY <1>1, <1>2, <1>3, <1>4, <1>5, <1>6 DEF height
<1>7. ASSUME s.stream # <<>> PROVE sealed'[Head(s.stream)] = sealed[Head(s.stream)]
  <2>1. Head(s.stream) \in Mined
    BY <1>5, <1>7
  <2> QED BY <2>1 DEF Grown
<1>8. blocks[n] \subseteq blocks'[n]
  BY DEF Grown
<1> QED BY <1>6, <1>7, <1>8 DEF Fits, WillFit, Fitting, height

(* A sync that has just begun or got its last block fits anyhow.           *)
LEMMA FitsStep == SyncInv /\ SyncInv' /\ StreamsFit /\ [SyncNext]_syncVars => StreamsFit'
<1> SUFFICES ASSUME SyncInv, SyncInv', StreamsFit, [SyncNext]_syncVars PROVE StreamsFit'
  OBVIOUS
<1>0. /\ Grown /\ Table /\ NodesType /\ StreamsAreBranches
      /\ syncs \in [Nodes -> SUBSET SyncRecord] /\ syncs' \in [Nodes -> SUBSET SyncRecord']
  BY StepGrows DEF SyncInv, SyncsType
<1>1. ASSUME NEW m \in Nodes, NEW r \in syncs[m] PROVE WillFit(m, r)
  <2>1. r \in SyncRecord /\ Fits(m, r)
    BY <1>0 DEF StreamsFit
  <2> QED BY <1>0, <2>1, FitsStays
<1>2. ASSUME NEW n \in Nodes, NEW t, WillFit(n, t),
             \A m \in Nodes : \A r \in syncs'[m] : r \in syncs[m] \/ (m = n /\ r = t)
      PROVE  StreamsFit'
  BY <1>1, <1>2, Zenon DEF StreamsFit, Fits, WillFit
<1>3. ASSUME \A m \in Nodes : syncs'[m] \subseteq syncs[m] PROVE StreamsFit'
  BY <1>1, <1>3, Zenon DEF StreamsFit, Fits, WillFit
<1>4. ASSUME NEW n \in Nodes, NEW s \in syncs[n], endSync(n, s) PROVE StreamsFit'
  <2>1. \A m \in Nodes : syncs'[m] \subseteq syncs[m]
    BY <1>0, <1>4 DEF endSync
  <2> QED BY <1>3, <2>1
<1>5. ASSUME NEW n \in Nodes, NEW s \in syncs[n], NEW t, moveSync(n, s, t), WillFit(n, t)
      PROVE  StreamsFit'
  <2>1. \A m \in Nodes : \A r \in syncs'[m] : r \in syncs[m] \/ (m = n /\ r = t)
    BY <1>0, <1>5 DEF moveSync
  <2> QED BY <1>2, <1>5, <2>1
<1>6. ASSUME NEW n \in Nodes, NEW b, NEW f PROVE WillFit(n, newSync(b, f))
  BY DEF WillFit, Fitting, newSync
<1>7. ASSUME NEW n \in Nodes, NEW s \in syncs[n], Request(n, s) PROVE StreamsFit'
  <2> DEFINE t == [s EXCEPT !.phase = "requested", !.start = height(head[n]) + 1]
  <2>1. moveSync(n, s, t) /\ head' = head /\ sealed' = sealed /\ s.phase = "started"
    BY <1>7 DEF Request
  <2>2. s \in SyncRecord /\ Fits(n, s) /\ height(head[n]) \in Nat
    BY <1>0, Rows DEF NodesType, StreamsFit
  <2>3. s.stream = <<>>
    BY <2>1, <2>2 DEF Fits, WillFit, Fitting, height
  <2>4. t.stream = <<>> /\ t.start = height(head[n]) + 1
    BY <2>2, <2>3 DEF SyncRecord
  <2>5. height(head[n])' = height(head[n])
    BY <2>1 DEF height
  <2> HIDE DEF t
  <2>6. WillFit(n, t)
    BY <2>2, <2>4, <2>5 DEF Fits, WillFit, Fitting, height
  <2> QED BY <1>5, <2>1, <2>6
<1>8. ASSUME NEW n \in Nodes, NEW s \in syncs[n], Serve(n, s) PROVE StreamsFit'
  <2> DEFINE all == CanonicalBlocksFrom(s.from, s.start)
             q == IF Len(all) > maxBlocksPerSync THEN SubSeq(all, 1, maxBlocksPerSync) ELSE all
             t == [s EXCEPT !.phase = "receiving", !.stream = q]
  <2>1. /\ moveSync(n, s, t) /\ UNCHANGED <<sealed, blocks, head>> /\ s.phase = "requested"
    BY <1>8 DEF Serve
  <2>2. s \in SyncRecord /\ Fits(n, s) /\ s.from \in Nodes /\ s.start \in Nat
    BY <1>0 DEF StreamsFit, SyncRecord
  <2>3. all \in Seq(Mined) /\ (all # <<>> => height(Head(all)) = s.start)
    BY <1>0, <2>2, ServedStream, ServedFrom, Zenon
  <2>4. q # <<>> => all # <<>> /\ Head(q) = Head(all)
    <3> HIDE DEF all
    <3>1. maxBlocksPerSync \in Nat \ {0}
      BY SyncAssumption
    <3>2. CASE Len(all) > maxBlocksPerSync
      BY <2>3, <3>1, <3>2
    <3> QED BY <3>2
  <2> HIDE DEF q, all
  <2>5. t.stream = q /\ t.start = s.start /\ t.phase = "receiving"
    BY <2>2 DEF SyncRecord
  <2> HIDE DEF t
  <2>6. s.start <= height(head[n]) + 1
    BY <2>1, <2>2 DEF Fits, WillFit, Fitting, height
  <2>7. WillFit(n, t)
    BY <2>1, <2>3, <2>4, <2>5, <2>6 DEF Fits, WillFit, Fitting, height
  <2> QED BY <1>5, <2>1, <2>7
<1>9. ASSUME NEW n \in Nodes, NEW s \in syncs[n], Receive(n, s) PROVE StreamsFit'
  <2> DEFINE b == Head(s.stream)
             t == [s EXCEPT !.stream = Tail(@)]
  <2>1. /\ AcceptExternalBlock(n, b) /\ s.phase = "receiving" /\ s.stream # <<>> /\ sealed' = sealed
        /\ endSync(n, s) \/ (moveSync(n, s, t) /\ ~(~Duplicate(n, b) /\ UnknownParent(n, b)))
    BY <1>9 DEF Receive
  <2>2. s \in SyncRecord /\ s.stream \in Seq(Mined) /\ WillFit(n, s) /\ Segment(s.stream)
    BY <1>0, <1>1 DEF SyncRecord, StreamsAreBranches
  <2>3. CASE moveSync(n, s, t) /\ ~(~Duplicate(n, b) /\ UnknownParent(n, b))
    <3>1. b \in blocks'[n]
      BY <1>0, <2>1, <2>3, AcceptGrows
    <3>2. t.stream = Tail(s.stream) /\ t.start = s.start /\ t.phase = s.phase
      BY <2>2 DEF SyncRecord
    <3>3. ASSUME Tail(s.stream) # <<>> PROVE sealed'[Head(Tail(s.stream))].prev \in blocks'[n]
      <4>1. 1 \in 1..(Len(s.stream) - 1) /\ Head(Tail(s.stream)) = s.stream[1 + 1] /\ b = s.stream[1]
        BY <2>1, <2>2, <3>3
      <4>2. sealed[s.stream[1 + 1]].prev = s.stream[1]
        BY <2>2, <4>1 DEF Segment
      <4> QED BY <2>1, <3>1, <4>1, <4>2
    <3> HIDE DEF t, b
    <3>4. WillFit(n, t)
      BY <2>1, <2>2, <3>2, <3>3 DEF Fits, WillFit, Fitting, height
    <3> QED BY <1>5, <2>3, <3>4
  <2> QED BY <1>4, <2>1, <2>3
<1>10. ASSUME NEW n \in Nodes, NEW s \in syncs[n], Truncate(n, s) PROVE StreamsFit'
  <2> DEFINE t == [s EXCEPT !.stream = <<>>]
  <2>1. moveSync(n, s, t)
    BY <1>10 DEF Truncate
  <2>2. s \in SyncRecord /\ WillFit(n, s)
    BY <1>0, <1>1
  <2>3. t.stream = <<>> /\ t.start = s.start /\ t.phase = s.phase
    BY <2>2 DEF SyncRecord
  <2> HIDE DEF t
  <2>4. WillFit(n, t)
    BY <2>2, <2>3 DEF Fits, WillFit, Fitting, height
  <2> QED BY <1>5, <2>1, <2>4
<1>11. ASSUME NEW n \in Nodes, NEW s \in syncs[n],
              Refuse(n, s) \/ Timeout(n, s) \/ Finish(n, s) \/ Break(n, s)
       PROVE  StreamsFit'
  BY <1>4, <1>11 DEF Refuse, Timeout, Finish, Break
<1>12. ASSUME NEW m \in gossip, handleBlock(m) PROVE StreamsFit'
  <2> DEFINE t == newSync(m.block, m.from)
  <2>1. m.to \in Nodes
    BY <1>0 DEF NodesType
  <2>2. syncs' = syncs \/ syncs' = [syncs EXCEPT ![m.to] = @ \cup {t}]
    BY <1>12 DEF handleBlock
  <2>3. WillFit(m.to, t)
    BY <1>6, <2>1
  <2> HIDE DEF t
  <2>4. \A n \in Nodes : \A r \in syncs'[n] : r \in syncs[n] \/ (n = m.to /\ r = t)
    BY <1>0, <2>1, <2>2
  <2> QED BY <1>2, <2>1, <2>3, <2>4
<1>13. ASSUME NEW n \in Nodes, NEW m \in Nodes, Resync(n, m) PROVE StreamsFit'
  <2> DEFINE t == newSync(Genesis, m)
  <2>1. syncs' = [syncs EXCEPT ![n] = {t}]
    BY <1>13 DEF Resync
  <2>2. WillFit(n, t)
    BY <1>6
  <2> HIDE DEF t
  <2>3. \A k \in Nodes : \A r \in syncs'[k] : r \in syncs[k] \/ (k = n /\ r = t)
    BY <1>0, <2>1
  <2> QED BY <1>2, <2>2, <2>3
<1>14. ASSUME syncs' = syncs PROVE StreamsFit'
  BY <1>3, <1>14
<1>15. \/ syncs' = syncs
       \/ \E m \in gossip : handleBlock(m)
       \/ \E n, m \in Nodes : Resync(n, m)
       \/ \E n \in Nodes : \E s \in syncs[n] :
             \/ Request(n, s) \/ Serve(n, s) \/ Receive(n, s) \/ Truncate(n, s)
             \/ Refuse(n, s) \/ Timeout(n, s) \/ Finish(n, s) \/ Break(n, s)
  BY DEF SyncNext, SyncStep, Mine, Lose, Release, syncVars
<1> QED BY <1>7, <1>8, <1>9, <1>10, <1>11, <1>12, <1>13, <1>14, <1>15

(* The branch of a block that a node has is in its chain.                  *)
LEMMA BranchInChain ==
    ASSUME Table, NodesType, Linked, NEW n \in Nodes, NEW h \in Nat
    PROVE  \A b \in blocks[n] : branchAt(h)[b] \in blocks[n]
<1> DEFINE S == {k \in Nat : \A b \in blocks[n] : b <= k => branchAt(h)[b] \in blocks[n]}
<1>0. blocks[n] \subseteq Mined /\ height(Genesis) = 0 /\ \A b \in Mined : b \in Nat /\ b >= 1
  BY Rows DEF NodesType, Table, Mined
<1>1. 0 \in S
  BY <1>0
<1>2. ASSUME NEW k \in Nat, k \in S PROVE k + 1 \in S
  <2> SUFFICES ASSUME NEW b \in blocks[n], b <= k + 1 PROVE branchAt(h)[b] \in blocks[n]
    OBVIOUS
  <2>1. CASE height(b) <= h
    BY <1>0, <2>1, BranchAtDef
  <2>2. CASE ~(height(b) <= h)
    <3>1. b \in Mined \ {Genesis}
      BY <1>0, <2>2
    <3>2. sealed[b].prev \in 1..(b - 1) /\ sealed[b].prev \in blocks[n]
      BY <3>1, Rows DEF Linked
    <3>3. sealed[b].prev <= k
      BY <1>0, <3>1, <3>2
    <3>4. branchAt(h)[b] = branchAt(h)[sealed[b].prev]
      BY <2>2, <3>1, BranchAtDef
    <3> QED BY <1>2, <3>2, <3>3, <3>4
  <2> QED BY <2>1, <2>2
<1>3. \A k \in Nat : k \in S
  <2>1. \A k \in Nat : k \in S => k + 1 \in S
    BY <1>2
  <2> HIDE DEF S
  <2> QED BY <1>1, <2>1, SetInduction
<1>4. ASSUME NEW b \in blocks[n] PROVE branchAt(h)[b] \in blocks[n]
  <2>1. b \in Nat /\ b <= b
    BY <1>0
  <2> QED BY <1>3, <2>1
<1> QED BY <1>4

(* A sync whose stream does not link has met a fork, for every network and *)
(* all limits: syncFrom stops at the first block of the answer or at none. *)
THEOREM SyncsStopAtForks == SyncSpec => []RefusedOnlyAtForks
<1>1. SyncInit => StreamsFit
  BY DEF SyncInit, StreamsFit
<1>2. SyncInv /\ StreamsFit => RefusedOnlyAtForks
  <2> SUFFICES ASSUME SyncInv, StreamsFit, NEW n \in Nodes, NEW s \in syncs[n], s.stream # <<>>,
                      ~Duplicate(n, Head(s.stream)), UnknownParent(n, Head(s.stream))
               PROVE  /\ height(Head(s.stream)) = s.start
                      /\ height(head[n]) >= s.start - 1
                      /\ canonical(n, s.start - 1) # sealed[Head(s.stream)].prev
    BY DEF RefusedOnlyAtForks
  <2> DEFINE b == Head(s.stream)
  <2>1. /\ Table /\ NodesType /\ Linked /\ Fits(n, s) /\ head[n] \in blocks[n] /\ Genesis \in blocks[n]
        /\ s.start \in Nat /\ s.stream \in Seq(Mined) /\ head[n] \in Mined
    BY DEF SyncInv, StreamsFit, Linked, NodesType, SyncsType, SyncRecord
  <2>2. b \in Mined \ {Genesis}
    BY <2>1 DEF Duplicate
  <2>3. height(b) = s.start /\ s.start <= height(head[n]) + 1
    BY <2>1 DEF Fits, Fitting, UnknownParent, height
  <2>4. height(b) = height(sealed[b].prev) + 1 /\ height(sealed[b].prev) \in Nat
        /\ height(head[n]) \in Nat
    BY <2>1, <2>2, Rows
  <2>5. s.start - 1 \in Nat
    BY <2>1, <2>3, <2>4
  <2>6. branchAt(s.start - 1)[head[n]] \in blocks[n]
    BY <2>1, <2>5, BranchInChain
  <2>7. canonical(n, s.start - 1) # sealed[b].prev
    BY <2>6 DEF canonical, UnknownParent
  <2>8. height(head[n]) >= s.start - 1
    BY <2>1, <2>3, <2>4
  <2> QED BY <2>3, <2>7, <2>8
<1> QED BY <1>1, <1>2, FitsStep, SyncInvariance, PTL DEF SyncSpec
=============================================================================
