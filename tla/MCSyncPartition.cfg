CONSTANTS
    n1 = n1
    n2 = n2
    n3 = n3
    Nodes <- Three
    Networks <- Partition
    maxConcurrentSyncs = 2
    maxConcurrentInboundSyncs = 8
    maxBlocksPerSync = 3
SPECIFICATION ResyncSpec
PROPERTIES ConvergesByResync
CHECK_DEADLOCK FALSE
