SPECIFICATION FleetSpec
CONSTANTS
    n1 = n1
    n2 = n2
    k1 = k1
    e1 = e1
    e2 = e2
    e3 = e3
    b1 = b1
    Replica = {r1, r2}
    NoReplica = NoReplica
    TTL = 5
    Interval = 1
    WaitMax = 1
    RoundMax = 2
    MaxFaults = 2
    Node = {n1, n2}
    NoNode = NoNode
    Key = {k1}
    Supports <- EveryKey
    MaxCalls = 1
    MaxMishaps = 1
INVARIANTS
    OneNodeRuns
