CONSTANTS
    Mode = "PoS"
    Stake <- Equal2
    CheckpointInterval = 2
    MaxBlocks = 4
    Rows = 3
    Me = 1
    maxMempool = 2
SPECIFICATION MCSpec
PROPERTIES CrossedIsAttested
CHECK_DEADLOCK FALSE
