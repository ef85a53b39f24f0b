CONSTANTS
    Mode = "PoS"
    Stake <- Equal3
    CheckpointInterval = 1
    MaxBlocks = 5
    Rows = 4
    Kinds <- AllKinds
SPECIFICATION MCSpec
INVARIANTS ForksAreDoubleProposals
CHECK_DEADLOCK FALSE
