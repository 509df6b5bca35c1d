SPECIFICATION MCSpec
CONSTANTS
    p1 = p1
    p2 = p2
    p3 = p3
    k1 = k1
    k2 = k2
    n1 = n1
    n2 = n2
    g1 = g1
    g2 = g2
    g3 = g3
    fpA = fpA
    fpB = fpB
    None = None
    Invalid = Invalid
    Callers = {p1, p2, p3}
    Keys = {k1, k2}
    Names = {n1, n2}
    Plans <- AllStores
    MaxAttempts = 2
    MaxBuilds = 3
    Legacy = Legacy
    NoMarker = NoMarker
    Gateways = {g1, g2, g3}
    Config <- MCConfig
INVARIANTS PoolsSound RefcountsExact MarkerSound
PROPERTIES ImplementsPool NoLiveStateAdopted
SYMMETRY Symmetry
