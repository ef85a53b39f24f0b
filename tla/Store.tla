------------------------------- MODULE Store -------------------------------
(***************************************************************************)
(* A persistent PoW node: chain.Chain, the database of store/store.go and  *)
(* the restarts between them.  Every accepted block is followed, under the *)
(* node's lock, by store.Save, which rewrites the canonical branch height  *)
(* by height and the head last, each write a transaction of its own; New   *)
(* rebuilds the chain by store.Load.  The process may crash, and a write   *)
(* may fail, at any point.  (A node configured for PoS refuses to start on *)
(* a database that has a head.)                                            *)
(***************************************************************************)
EXTENDS Chain

ASSUME PoWAssumption == Mode = "PoW"

VARIABLES
    defaultID,   \* the configured chain id is DefaultChainID, the one Load replays with
    carriesTxs,  \* the blocks that have transactions
    dbBlocks,    \* bucket blocks: the hashes stored
    dbHeights,   \* bucket heights: height -> hash, a partial map
    dbHead,      \* meta key head, NoHash when absent
    pc,          \* "running", "saving", "down", or "failed" when New returned an error
    cursor,      \* the write of Save that is next
    torn         \* a Save has begun that has not been completed

chainVars == <<blocks, td, head, headState, heightIndex, attestedRound, checkpointStake,
               finalizedHash, finalizedHeight, jailed, proposedAtHeight>>
dbVars == <<dbBlocks, dbHeights, dbHead>>
configVars == <<defaultID, carriesTxs>>
storeVars == <<vars, configVars, dbVars, pc, cursor, torn>>

FirstWrite == [height |-> 0, what |-> "block"]

(* A fresh node: genesis in memory, its first Save about to begin.  The    *)
(* genesis is a function of the configuration: GenesisTimestamp is set.    *)
StoreInit ==
    /\ Init
    /\ defaultID \in BOOLEAN
    /\ carriesTxs \subseteq DOMAIN sealed \ {Genesis}
    /\ dbBlocks = {}
    /\ dbHeights = <<>>
    /\ dbHead = NoHash
    /\ pc = "saving"
    /\ cursor = FirstWrite
    /\ torn = TRUE

-----------------------------------------------------------------------------
(* AcceptExternalBlock, and commitBlock but for the mempool: AddBlock,     *)
(* then Save.                                                              *)
Accept(b) ==
    /\ pc = "running"
    /\ AddBlock(b)
    /\ pc' = "saving"
    /\ cursor' = FirstWrite
    /\ torn' = TRUE
    /\ UNCHANGED <<configVars, dbVars>>

PutBlock ==
    /\ pc = "saving"
    /\ cursor.what = "block"
    /\ dbBlocks' = dbBlocks \cup {heightIndex[cursor.height]}
    /\ cursor' = [cursor EXCEPT !.what = "index"]
    /\ UNCHANGED <<vars, configVars, dbHeights, dbHead, pc, torn>>

(* Mutant: a height that has an entry keeps it.                            *)
SetCanonicalOnce ==
    /\ pc = "saving"
    /\ cursor.what = "index"
    /\ dbHeights' = [h \in DOMAIN dbHeights \cup {cursor.height} |->
                       IF h \in DOMAIN dbHeights THEN dbHeights[h] ELSE heightIndex[h]]
    /\ cursor' = IF cursor.height = sealed[head].height
                 THEN [cursor EXCEPT !.what = "head"]
                 ELSE [height |-> cursor.height + 1, what |-> "block"]
    /\ UNCHANGED <<vars, configVars, dbBlocks, dbHead, pc, torn>>

SetCanonical ==
    /\ pc = "saving"
    /\ cursor.what = "index"
    /\ dbHeights' = [h \in DOMAIN dbHeights \cup {cursor.height} |->
                       IF h = cursor.height THEN heightIndex[h] ELSE dbHeights[h]]
    /\ cursor' = IF cursor.height = sealed[head].height
                 THEN [cursor EXCEPT !.what = "head"]
                 ELSE [height |-> cursor.height + 1, what |-> "block"]
    /\ UNCHANGED <<vars, configVars, dbBlocks, dbHead, pc, torn>>

SetHead ==
    /\ pc = "saving"
    /\ cursor.what = "head"
    /\ dbHead' = head
    /\ pc' = "running"
    /\ torn' = FALSE
    /\ UNCHANGED <<vars, configVars, dbBlocks, dbHeights, cursor>>

(* A write fails: the handler returns the error, the block stays accepted  *)
(* in memory.  While the genesis is saved, New fails instead.              *)
SaveFails ==
    /\ pc = "saving"
    /\ pc' = IF dbHead = NoHash THEN "down" ELSE "running"
    /\ UNCHANGED <<vars, configVars, dbVars, cursor, torn>>

Crash ==
    /\ pc \in {"running", "saving"}
    /\ pc' = "down"
    /\ UNCHANGED <<vars, configVars, dbVars, cursor, torn>>

-----------------------------------------------------------------------------
(* AddBlock of the next block of the index: the weights add up and the     *)
(* head moves only to a strictly heavier block.                            *)
Replay(before, b) ==
    LET total == before.td[sealed[b].prev] + weight(b) IN
    [head |-> IF total > before.td[before.head] THEN b ELSE before.head,
     td   |-> [c \in DOMAIN before.td \cup {b} |-> IF c = b THEN total ELSE before.td[c]]]

(* The chain rebuilt from each of the first n heights of the index.        *)
replays(n) ==
    LET chain[h \in 0..n] ==
          IF h = 0 THEN [head |-> Genesis, td |-> [b \in {Genesis} |-> sealed[b].difficulty]]
          ELSE Replay(chain[h - 1], dbHeights[h])
    IN  chain

Replayed(n) == replays(n)[n]

(* Mutant: every block must become the head as it is replayed.             *)
LoadsStepwise ==
    LET top == sealed[dbHead].height IN
    /\ 0..top \subseteq DOMAIN dbHeights
    /\ \A h \in 1..top : sealed[dbHeights[h]].prev = dbHeights[h - 1]
    /\ \A h \in 0..top : Replayed(h).head = dbHeights[h]

(* Load finds everything it looks for, every block of the index is         *)
(* accepted on top of the one before it, and the head comes out as stored. *)
(* AddBlock turns away transactions of a chain id other than its own,      *)
(* which New sets to the configured one only when Load has returned.       *)
Loads ==
    LET top == sealed[dbHead].height IN
    /\ dbHead \in dbBlocks
    /\ 0..top \subseteq DOMAIN dbHeights
    /\ \A h \in 0..top : dbHeights[h] \in dbBlocks
    /\ \A h \in 1..top : /\ sealed[dbHeights[h]].prev = dbHeights[h - 1]
                         /\ defaultID \/ dbHeights[h] \notin carriesTxs
    /\ Replayed(top).head = dbHead

(* Mutant: every stored block is taken into the chain.                     *)
ReloadAll ==
    LET loaded == Replayed(sealed[dbHead].height) IN
    /\ blocks' = dbBlocks
    /\ td' = [b \in BlockHash |-> IF b \in DOMAIN loaded.td THEN loaded.td[b] ELSE 0]
    /\ head' = loaded.head
    /\ headState' = chainTo[loaded.head]
    /\ heightIndex' = rebuildIndex(chainTo[loaded.head])

Reload ==
    LET path   == {dbHeights[h] : h \in 0..sealed[dbHead].height}
        loaded == Replayed(sealed[dbHead].height)
    IN  /\ blocks' = path
        /\ td' = [b \in BlockHash |-> IF b \in path THEN loaded.td[b] ELSE 0]
        /\ head' = loaded.head
        /\ headState' = chainTo[loaded.head]
        /\ heightIndex' = rebuildIndex(chainTo[loaded.head])

Fresh ==
    /\ blocks' = {Genesis}
    /\ td' = [b \in BlockHash |-> IF b = Genesis THEN sealed[b].difficulty ELSE 0]
    /\ head' = Genesis
    /\ headState' = {Genesis}
    /\ heightIndex' = rebuildIndex({Genesis})

(* Mutant: a database that does not load is begun anew.                    *)
RestartAnyhow ==
    /\ pc = "down"
    /\ IF dbHead # NoHash /\ Loads
       THEN Reload /\ pc' = "running" /\ torn' = FALSE /\ UNCHANGED cursor
       ELSE Fresh /\ pc' = "saving" /\ cursor' = FirstWrite /\ torn' = TRUE
    /\ UNCHANGED <<sealed, configVars, dbVars, attestedRound, checkpointStake, finalizedHash,
                   finalizedHeight, jailed, proposedAtHeight>>

(* New: a fresh genesis, a reloaded chain, or an error.                    *)
Restart ==
    /\ pc = "down"
    /\ IF dbHead = NoHash
       THEN Fresh /\ pc' = "saving" /\ cursor' = FirstWrite /\ UNCHANGED torn
       ELSE IF Loads
       THEN Reload /\ pc' = "running" /\ torn' = FALSE /\ UNCHANGED cursor
       ELSE pc' = "failed" /\ UNCHANGED <<chainVars, cursor, torn>>
    /\ UNCHANGED <<sealed, configVars, dbVars, attestedRound, checkpointStake, finalizedHash,
                   finalizedHeight, jailed, proposedAtHeight>>

StoreNext ==
    \/ \E b \in 2..Len(sealed) : Accept(b)
    \/ PutBlock
    \/ SetCanonical
    \/ SetHead
    \/ SaveFails
    \/ Crash
    \/ Restart

StoreSpec == StoreInit /\ [][StoreNext]_storeVars

-----------------------------------------------------------------------------
(* Between two handlers the database holds the canonical branch, all of it *)
(* and up to the head, unless a Save was cut short: what Load relies on.   *)
RunningIsSaved ==
    pc = "running" /\ ~torn =>
        /\ dbHead = head
        /\ \A h \in 0..sealed[head].height :
              h \in DOMAIN dbHeights /\ dbHeights[h] = heightIndex[h]

(* A reloaded chain is as good as the one that was saved: its parents,     *)
(* weights, head, index and state fit together as AddBlock leaves them.    *)
ChainRestored == pc \in {"running", "saving"} => Rooted /\ HeaviestHead /\ CanonicalIndex

(* New fails on a database only if it mixes two branches, which takes a    *)
(* Save cut short after a reorg, or if Load meets transactions of another  *)
(* chain id than the default.                                              *)
FailureExplained ==
    pc = "failed" =>
        \/ torn /\ \E h \in DOMAIN dbHeights :
                     h <= sealed[dbHead].height /\ dbHeights[h] \notin chainTo[dbHead]
        \/ ~defaultID /\ chainTo[dbHead] \cap carriesTxs # {}

(* New fails on a database only if a Save on it was cut short (New threads *)
(* the chain id "into the chain so genesis and every flow agree").         *)
FailsOnlyTorn == pc = "failed" => torn

(* New comes up again on any database this node wrote: "If a store head    *)
(* already exists at DBPath the chain is loaded from it".                  *)
AlwaysRecovers == pc # "failed"

(* Crashes lose no completed Save: the branch of the stored head never     *)
(* gets lighter.                                                           *)
PersistedWeightGrows ==
    [][dbHead # NoHash =>
         Promise!branchWeight[dbHead'] >= Promise!branchWeight[dbHead]]_storeVars
=============================================================================
