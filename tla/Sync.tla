-------------------------------- MODULE Sync --------------------------------
(***************************************************************************)
(* How blocks travel: p2p/gossip.go and p2p/sync.go over a PoW network in  *)
(* which all blocks weigh the same.  A block mined is announced to every   *)
(* other node; a receiver that lacks its parent starts, on one of a few    *)
(* slots, a catch-up sync with the node it came from: a request from its   *)
(* own head's height, a stream of the responder's canonical blocks, on one *)
(* of a few slots of the responder's, and the block once more.  While      *)
(* Faulty, announcements are lost and streams break; after that the        *)
(* network is reliable, and faster than mining.                            *)
(***************************************************************************)
EXTENDS Integers, Sequences, FiniteSets

CONSTANTS
    Nodes,
    Networks,           \* what a run begins with, records of Network
    maxConcurrentSyncs,
    maxConcurrentInboundSyncs,
    maxBlocksPerSync

(* The nodes that take part, those of them that mine, those that relay but *)
(* never answer a request, whether Resync is called, and bounds: the       *)
(* blocks that are ever mined, the genesis included, and the number of     *)
(* them up to which the network is faulty (blocks mined after that wait    *)
(* until the network is quiet).                                            *)
Network == [nodes : SUBSET Nodes, miners : SUBSET Nodes, silent : SUBSET Nodes, resync : BOOLEAN,
            maxBlocks : Nat, faultyBlocks : Nat]

ASSUME SyncAssumption ==
    /\ \A w \in Networks : w \in Network /\ w.miners \subseteq w.nodes
    /\ maxConcurrentSyncs \in Nat \ {0} /\ maxBlocksPerSync \in Nat \ {0}
    /\ maxConcurrentInboundSyncs \in Nat \ {0}

VARIABLES
    net,
    sealed,  \* the blocks mined: hash -> [prev, height]
    blocks,  \* node -> the blocks its chain has
    head,    \* node -> its canonical head
    gossip,  \* announcements under way: [block, to, from], from the node that relays it
    syncs,   \* node -> its running syncs: [block, from, phase, start, stream]
    inbound  \* node -> the requests it is serving: inboundSyncSem

syncVars == <<net, sealed, blocks, head, gossip, syncs, inbound>>

Genesis == 1
height(b) == sealed[b].height
Faulty == Len(sealed) <= net.faultyBlocks

SyncInit ==
    /\ net \in Networks
    /\ sealed = <<[prev |-> 0, height |-> 0]>>
    /\ blocks = [n \in Nodes |-> {Genesis}]
    /\ head = [n \in Nodes |-> Genesis]
    /\ gossip = {}
    /\ syncs = [n \in Nodes |-> {}]
    /\ inbound = [n \in Nodes |-> 0]

-----------------------------------------------------------------------------
Duplicate(n, b) == b \in blocks[n]
UnknownParent(n, b) == sealed[b].prev \notin blocks[n]

(* AcceptExternalBlock of a block that is valid: known ones change nothing *)
(* (and are no error), one without its parent is refused.                  *)
AcceptExternalBlock(n, b) ==
    IF Duplicate(n, b) \/ UnknownParent(n, b) THEN UNCHANGED <<blocks, head>>
    ELSE /\ blocks' = [blocks EXCEPT ![n] = @ \cup {b}]
         /\ head' = [head EXCEPT ![n] = IF height(b) > height(@) THEN b ELSE @]

(* The canonical block of a node at a height: the one its head's branch    *)
(* has there.                                                              *)
branchAt(h) ==
    LET at[b \in 1..Len(sealed)] == IF height(b) <= h THEN b ELSE at[sealed[b].prev] IN at
canonical(n, h) == branchAt(h)[head[n]]

CanonicalBlocksFrom(n, start) ==
    [i \in 1..(height(head[n]) + 1 - start) |-> canonical(n, start + i - 1)]

(* The routes of an announcement: straight from its publisher, or relayed  *)
(* (by the router, whether or not the relay's own chain has the block).    *)
routes(n) == {via \in [net.nodes \ {n} -> net.nodes] :
                \A m \in net.nodes \ {n} : via[m] = n \/ (via[m] # m /\ via[via[m]] = n)}

Quiet == gossip = {} /\ \A n \in Nodes : syncs[n] = {} /\ inbound[n] = 0

(* MineBlock and AnnounceBlock.                                            *)
Mine(n) ==
    LET b == Len(sealed) + 1 IN
    /\ n \in net.miners
    /\ b <= net.maxBlocks
    /\ b > net.faultyBlocks => Quiet
    /\ sealed' = Append(sealed, [prev |-> head[n], height |-> height(head[n]) + 1])
    /\ blocks' = [blocks EXCEPT ![n] = @ \cup {b}]
    /\ head' = [head EXCEPT ![n] = b]
    /\ \E via \in routes(n) :
         gossip' = gossip \cup {[block |-> b, to |-> m, from |-> via[m]] : m \in net.nodes \ {n}}
    /\ UNCHANGED <<net, syncs, inbound>>

Lose(m) ==
    /\ Faulty
    /\ gossip' = gossip \ {m}
    /\ UNCHANGED <<net, sealed, blocks, head, syncs, inbound>>

newSync(b, from) == [block |-> b, from |-> from, phase |-> "started", start |-> 0,
                     stream |-> <<>>]

(* The slots in use: a Resync takes none.                                  *)
slots(n) == {s \in syncs[n] : s.block # Genesis}

(* Mutant: a block without its parent is only dropped.                     *)
handleBlockDropping(m) ==
    /\ gossip' = gossip \ {m}
    /\ AcceptExternalBlock(m.to, m.block)
    /\ UNCHANGED <<net, sealed, syncs, inbound>>

(* readBlocks and handleBlock.  Without a free slot the block is dropped.  *)
handleBlock(m) ==
    /\ gossip' = gossip \ {m}
    /\ AcceptExternalBlock(m.to, m.block)
    /\ syncs' = IF /\ ~Duplicate(m.to, m.block) /\ UnknownParent(m.to, m.block)
                   /\ Cardinality(slots(m.to)) < maxConcurrentSyncs
                THEN [syncs EXCEPT ![m.to] = @ \cup {newSync(m.block, m.from)}]
                ELSE syncs
    /\ UNCHANGED <<net, sealed, inbound>>

-----------------------------------------------------------------------------
moveSync(n, s, t) == syncs' = [syncs EXCEPT ![n] = (@ \ {s}) \cup {t}]
endSync(n, s) == syncs' = [syncs EXCEPT ![n] = @ \ {s}]

(* Mutant: the range asked for begins one too high.                        *)
RequestBeyond(n, s) ==
    /\ s.phase = "started"
    /\ moveSync(n, s, [s EXCEPT !.phase = "requested", !.start = height(head[n]) + 2])
    /\ UNCHANGED <<net, sealed, blocks, head, gossip, inbound>>

(* The goroutine reads the head and sends its request.                     *)
Request(n, s) ==
    /\ s.phase = "started"
    /\ moveSync(n, s, [s EXCEPT !.phase = "requested", !.start = height(head[n]) + 1])
    /\ UNCHANGED <<net, sealed, blocks, head, gossip, inbound>>

(* The responder's handler: its canonical blocks from there, at one moment *)
(* and up to a limit.                                                      *)
Serve(n, s) ==
    LET all == CanonicalBlocksFrom(s.from, s.start) IN
    /\ s.phase = "requested"
    /\ s.from \notin net.silent
    /\ inbound[s.from] < maxConcurrentInboundSyncs
    /\ inbound' = [inbound EXCEPT ![s.from] = @ + 1]
    /\ moveSync(n, s, [s EXCEPT !.phase = "receiving",
                                !.stream = IF Len(all) > maxBlocksPerSync
                                           THEN SubSeq(all, 1, maxBlocksPerSync) ELSE all])
    /\ UNCHANGED <<net, sealed, blocks, head, gossip>>

(* With all its slots taken the responder resets the stream: the sync is   *)
(* over, and the block that began it is not tried again.                   *)
Refuse(n, s) ==
    /\ s.phase = "requested"
    /\ s.from \notin net.silent
    /\ inbound[s.from] >= maxConcurrentInboundSyncs
    /\ endSync(n, s)
    /\ UNCHANGED <<net, sealed, blocks, head, gossip, inbound>>

(* Mutant: requests have no deadline.                                      *)
TimeoutNever(n, s) == FALSE /\ UNCHANGED syncVars

(* syncStreamTimeout, of a request to a silent node.                       *)
Timeout(n, s) ==
    /\ s.phase = "requested"
    /\ s.from \in net.silent
    /\ endSync(n, s)
    /\ UNCHANGED <<net, sealed, blocks, head, gossip, inbound>>

(* The responder's handler returns: it has written all, or can write no    *)
(* more to a stream that broke or was left, or its deadline has passed.    *)
Release(m) ==
    /\ inbound[m] > 0
    /\ inbound' = [inbound EXCEPT ![m] = @ - 1]
    /\ UNCHANGED <<net, sealed, blocks, head, gossip, syncs>>

(* One block of the stream: a refused one ends the sync with an error.     *)
Receive(n, s) ==
    /\ s.phase = "receiving" /\ s.stream # <<>>
    /\ AcceptExternalBlock(n, Head(s.stream))
    /\ IF ~Duplicate(n, Head(s.stream)) /\ UnknownParent(n, Head(s.stream))
       THEN endSync(n, s)
       ELSE moveSync(n, s, [s EXCEPT !.stream = Tail(@)])
    /\ UNCHANGED <<net, sealed, gossip, inbound>>

(* The end of the stream, or of what arrived of it: the block that began   *)
(* the sync is tried again, and the slot is given back.                    *)
Finish(n, s) ==
    /\ s.phase = "receiving" /\ s.stream = <<>>
    /\ AcceptExternalBlock(n, s.block)
    /\ endSync(n, s)
    /\ UNCHANGED <<net, sealed, gossip, inbound>>

Truncate(n, s) ==
    /\ Faulty
    /\ s.phase = "receiving" /\ s.stream # <<>>
    /\ moveSync(n, s, [s EXCEPT !.stream = <<>>])
    /\ UNCHANGED <<net, sealed, blocks, head, gossip, inbound>>

(* The stream cannot be opened, is reset, or times out.                    *)
Break(n, s) ==
    /\ Faulty
    /\ endSync(n, s)
    /\ UNCHANGED <<net, sealed, blocks, head, gossip, inbound>>

(* Resync: a sync with any node that no announcement began.                *)
Resync(n, m) ==
    /\ net.resync
    /\ n # m /\ {n, m} \subseteq net.nodes
    /\ syncs[n] = {}
    /\ head[n] # head[m]
    /\ syncs' = [syncs EXCEPT ![n] = {newSync(Genesis, m)}]
    /\ UNCHANGED <<net, sealed, blocks, head, gossip, inbound>>

SyncStep(n) ==
    \E s \in syncs[n] : \/ Request(n, s) \/ Serve(n, s) \/ Refuse(n, s) \/ Timeout(n, s)
                        \/ Receive(n, s) \/ Finish(n, s)

SyncNext ==
    \/ \E n \in Nodes : Mine(n)
    \/ \E m \in gossip : Lose(m) \/ handleBlock(m)
    \/ \E n \in Nodes : SyncStep(n) \/ Release(n)
    \/ \E n \in Nodes : \E s \in syncs[n] : Truncate(n, s) \/ Break(n, s)
    \/ \E n, m \in Nodes : Resync(n, m)

(* Announcements that are not lost arrive, the goroutines run, and those   *)
(* that wait have deadlines.  Miners go on mining.                         *)
Fairness ==
    /\ WF_syncVars(\E m \in gossip : handleBlock(m))
    /\ \A n \in Nodes : WF_syncVars(SyncStep(n)) /\ WF_syncVars(Release(n)) /\ WF_syncVars(Mine(n))

SyncSpec == SyncInit /\ [][SyncNext]_syncVars /\ Fairness

(* With Resync called again and again by every node that is behind.        *)
ResyncSpec == SyncSpec /\ \A n, m \in Nodes : WF_syncVars(Resync(n, m))

-----------------------------------------------------------------------------
(* A sync fails to link ("the peer's stream is inconsistent") at a fork     *)
(* only: the block of its stream that syncFrom stops at is the first one,  *)
(* at the height asked for, and below it the node's own branch has another *)
(* block.  Whatever announcements and other syncs brought meanwhile, and   *)
(* although the range was asked for above a head that has moved since,     *)
(* streams have no gaps, and those between nodes of one branch all link.   *)
RefusedOnlyAtForks ==
    \A n \in Nodes : \A s \in {r \in syncs[n] : r.stream # <<>>} :
        LET b == Head(s.stream) IN
        ~Duplicate(n, b) /\ UnknownParent(n, b) =>
            /\ height(b) = s.start
            /\ height(head[n]) >= s.start - 1
            /\ canonical(n, s.start - 1) # sealed[b].prev

(* Every catch-up sync ends and gives its slot back, however its stream    *)
(* goes and whether or not it is answered: the deadlines and the           *)
(* goroutine's deferred release.                                           *)
SlotsComeFree == \A n \in Nodes : []<>(slots(n) = {})

(* Followers that missed any announcements, or dropped them for want of a  *)
(* slot of their own or of the responder's, catch up with the one miner    *)
(* once the network is well again and every node answers: "gossip          *)
(* re-delivery or a later block will re-trigger the sync".                 *)
CatchesUp ==
    <>[](Cardinality(net.miners) = 1 /\ net.silent = {} =>
            \A n, m \in net.nodes : head[n] = head[m])

(* After a partition Resync brings all nodes to heads of one height: "the  *)
(* explicit trigger used on reconnect after a network partition, or any    *)
(* time a node suspects it is behind".                                     *)
ConvergesByResync == <>[](\A n, m \in net.nodes : height(head[n]) = height(head[m]))
=============================================================================
