SPECIFICATION RowsSpec
CONSTANTS
    w1 = w1
    w2 = w2
    e1 = e1
    Worker = {w1, w2}
    Endpoint = {e1}
    PoolSize = 1
    MaxOverflow = 1
    Threshold = 2
    k1 = k1
    k2 = k2
    k3 = k3
    Token = {k1, k2, k3}
    MaxTokensPerUser = 1
    MaxTime = 1
    MaxSwitches = 1
    MaxSigned = 4
    MaxAgg = 3
    MaxLost = 1
SYMMETRY MCSymmetry
INVARIANTS OneCycleUnlessDiscarded InactiveHasReason TokensCapped RevokedStaysRevoked OneDefault
