SPECIFICATION MCSpec
CONSTANTS
    l1 = l1
    l2 = l2
    l3 = l3
    k1 = k1
    k2 = k2
    k3 = k3
    k4 = k4
    n1 = n1
    n2 = n2
    p1 = p1
    p2 = p2
    g1 = g1
    r1 = r1
    r2 = r2
    None = None
    NoStore = NoStore
    Broken = Broken
    Listeners = {l1, l2, l3}
    Keys = {k1, k2}
    Initial <- Shared
    Configs <- TwoListeners
    Requests = {"r1"}
    EventCapacity = 1
    MaxEdits = 2
INVARIANTS NoRequestOnRetiredPool LeasesFollowPipelines
PROPERTIES EditsNotMissed ReloadsFinish ProvisionEnds CleanupReclaims SettlementEnds
