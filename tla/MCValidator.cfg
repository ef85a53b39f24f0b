CONSTANTS
    Mode = "PoS"
    Stake <- Equal2
    CheckpointInterval = 2
    MaxBlocks = 5
    Rows = 4
    Me = 1
    maxMempool = 2
SPECIFICATION MCSpec
INVARIANTS NeverIncriminated SubmittedOnce
CHECK_DEADLOCK FALSE
