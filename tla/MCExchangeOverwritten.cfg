CONSTANTS
    Prices = {1, 2}
    Quantities = {1, 2}
    Accounts = {"a", "b"}
    Modes = {"BatchAuction"}
    Alloc <- FourEach
    BaseAlloc <- TwoEach
    MaxInt64 = 7
    MaxHeight <- MCMaxHeight
    Blocks <- TxLists
SPECIFICATION ExchangeSpec
INVARIANTS NeverReconciled
CHECK_DEADLOCK FALSE
