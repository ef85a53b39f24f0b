CONSTANTS
    WordBytes = 2
    Uint64 = 128
    AddrSpace = 4
    NewAddress = 3
    MaxStack = 8
    MaxCallDepth = 2
    maxMemBytes = 4
    GasCreate = 400
    gasCall = 700
    Supply = 5
    Scenarios <- AllScenarios
SPECIFICATION VMSpec
INVARIANTS VMConserves OnInstructions
PROPERTIES ImplementsSnapshots VMTerminates
CHECK_DEADLOCK FALSE
