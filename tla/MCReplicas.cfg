CONSTANTS
    Stake <- Equal3
    CheckpointInterval = 1
    MaxBlocks = 6
    Kinds <- AllKinds
SPECIFICATION MCSpec
INVARIANTS SameBlocksSameView DeliveredAgree
CHECK_DEADLOCK FALSE
