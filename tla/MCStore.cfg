CONSTANTS
    Mode = "PoW"
    Stake <- MCStake
    CheckpointInterval = 1
    MaxBlocks = 5
    Kinds <- AllKinds
SPECIFICATION MCSpec
INVARIANTS RunningIsSaved ChainRestored FailureExplained
PROPERTIES PersistedWeightGrows
CHECK_DEADLOCK FALSE
