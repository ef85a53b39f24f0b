CONSTANTS
    Mode = "PoW"
    Stake <- MCStake
    CheckpointInterval = 1
    MaxBlocks = 5
    Rows = 4
    Difficulties = {0, 1, 2}
SPECIFICATION MCSpec
INVARIANTS HeaviestHead CanonicalIndex
PROPERTIES ImplementsPromise
CHECK_DEADLOCK FALSE
