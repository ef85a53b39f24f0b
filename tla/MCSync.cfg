CONSTANTS
    n1 = n1
    n2 = n2
    n3 = n3
    Nodes <- Three
    Networks <- AllNetworks
    maxConcurrentSyncs = 1
    maxConcurrentInboundSyncs = 1
    maxBlocksPerSync = 2
SPECIFICATION SyncSpec
INVARIANTS RefusedOnlyAtForks
PROPERTIES CatchesUp SlotsComeFree
CHECK_DEADLOCK FALSE
