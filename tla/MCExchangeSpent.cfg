CONSTANTS
    Prices = {1, 2}
    Quantities = {1, 2}
    Accounts = {"a", "b"}
    Modes = {"Continuous"}
    Alloc <- FourEach
    BaseAlloc <- TwoEach
    MaxInt64 = 8
    MaxHeight <- MCMaxHeight
    Blocks <- TxLists
SPECIFICATION ExchangeSpec
INVARIANTS AlwaysLoads
CHECK_DEADLOCK FALSE
