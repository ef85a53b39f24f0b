CONSTANTS
    Mode = "PoW"
    Stake <- MCStake
    CheckpointInterval = 1
    MaxBlocks = 5
    Kinds <- SmallKinds
SPECIFICATION MCSpec
INVARIANTS AlwaysRecovers
CHECK_DEADLOCK FALSE
