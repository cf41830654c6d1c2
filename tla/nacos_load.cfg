CONSTANTS
    k1 = k1
    k2 = k2
    k3 = k3
    missing = missing
    Keys <- MCKeys
    WatchFiles <- MCFiles
    NoFile <- missing
    Addrs <- MCAllAddrs
SPECIFICATION Spec
INVARIANTS LoadComplete
CHECK_DEADLOCK FALSE
