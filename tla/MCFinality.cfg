CONSTANTS
    Mode = "PoS"
    Stake <- Equal3
    CheckpointInterval = 1
    MaxBlocks = 10
SPECIFICATION MCSpec
INVARIANTS FinalityIrreversible
CHECK_DEADLOCK FALSE
