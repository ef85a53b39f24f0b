CONSTANTS
    Nibble = {0, 1}
    Addresses = {"a1", "a2", "a3", "c"}
    Keys = {"k1", "k2", "k3"}
    Codes = {"code"}
    NoCode = "none"
    Clients = {"client"}
    Worlds <- AllWorlds
    path <- paths
SPECIFICATION TrieSpec
INVARIANTS RootIsCanonical ReadsLastWrite ProofsAreAccepted ProofsShowTheState
