SPECIFICATION SyncSpec
CONSTANTS
    d1 = d1
    d2 = d2
    k1 = k1
    k2 = k2
    Devices <- TwoDevices
    Keys <- TwoKeys
    PullLimit = 1
    MaxWrites = 3
    MaxLost = 1
INVARIANTS OncePerEdit ReplicaIsCurrent
PROPERTY Converges
