SPECIFICATION MCSpec
CONSTANTS
    g1 = g1
    g2 = g2
    g3 = g3
    r1 = r1
    r2 = r2
    r3 = r3
    k1 = k1
    k2 = k2
    k3 = k3
    k4 = k4
    u1 = u1
    u2 = u2
    u3 = u3
    c1 = c1
    c2 = c2
    c3 = c3
    Gateways = {g1, g2, g3}
    Requests = {r1, r2, r3}
    Home <- Homes
    Keys = {k1, k2}
    Estimates = {2}
    Actuals = {0, 3}
    Unknown <- NoUsage
    Capacity = 3
    Window = 1
    Width = 1
    Timeout = 1
    MaxKeys = 1
    MaxActive = 2
    QueueLimit = 1
    MaxTime = 3
    TbRequests = {r1, r2}
    TbKeys = {k3, k4}
    TbEstimates = {4}
    TbActuals = {1, 5}
    TbCapacity = 4
    RefillRate = 2
    TbTimeout = 1
    TbMaxKeys = 1
    TbMaxActive = 1
    TbMaxTime = 3
    PoolUsers = {u1, u2, u3}
    Connections = {c1, c2, c3}
    MaxIdle = 2
    MaxOut = 2
INVARIANTS WindowSound DenialsSound BucketGrants PoolSound
PROPERTY LateIsHarmless
SYMMETRY Symmetry
