CONSTANTS
    Mode = "PoS"
    Stake <- Equal3
    CheckpointInterval = 1
    MaxBlocks = 5
    Rows = 4
    Kinds <- AllKinds
SPECIFICATION MCSpec
INVARIANTS OneProposerPerSlot JailedIffEvidence FinalizedHasQuorum TallyIsRecorded ForksNeedEquivocation
PROPERTIES FinalizedPrefix
CHECK_DEADLOCK FALSE
