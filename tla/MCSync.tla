------------------------------- MODULE MCSync -------------------------------
EXTENDS Sync

CONSTANTS n1, n2, n3

Three == {n1, n2, n3}

(* Two followers and the one miner; one of the followers silent; two       *)
(* miners that fork and resync.                                            *)
Follow == [nodes |-> Three, miners |-> {n1}, silent |-> {}, resync |-> FALSE, maxBlocks |-> 6,
           faultyBlocks |-> 3]
Silent == [nodes |-> Three, miners |-> {n1}, silent |-> {n3}, resync |-> FALSE, maxBlocks |-> 5,
           faultyBlocks |-> 3]
Forks == [nodes |-> {n1, n2}, miners |-> {n1, n2}, silent |-> {}, resync |-> TRUE, maxBlocks |-> 4,
          faultyBlocks |-> 3]

AllNetworks == {Follow, Silent, Forks}
Partition == {Forks}
=============================================================================
