CONSTANTS
    alice = alice
    bob = bob
    miner = miner
    peer = peer
    Zero = Zero
    ExchangeAddress = ExchangeAddress
    AttestAddress = AttestAddress
    DeployAddress = DeployAddress
    Word = 4096
    GasLimit = 6
    GasCreate = 2
    BlockReward = 5
    MaxNonce = 3
    Users <- MCUsers
    AddressOrder <- MCAddressOrder
    Miner = miner
    Peer = peer
    Txs <- MCTxs
    Alloc <- SoloAlloc
    Workloads <- AllWorkloads
SPECIFICATION MCSpec
INVARIANTS SupplyAudit NoReplay BuildsWhatItCanMine
PROPERTIES PooledIsMined
CHECK_DEADLOCK FALSE
