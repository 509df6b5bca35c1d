SPECIFICATION MCSpec
CONSTANTS
    e1 = e1
    e2 = e2
    k1 = k1
    k2 = k2
    t1 = t1
    t2 = t2
    Exchanges = {e1, e2}
    Tasks = {t1, t2}
    Contexts = {c1}
    Clusters = {k1, k2}
    None = None
    Ttl = 1
    TerminalTtl = 0
    MaxRoutes = 1
    EvictionInterval = 2
    MaxTime = 2
    Methods = {"SendMessage", "SubscribeToTask", "CancelTask"}
    MaxScratch = 2
    ChunkMax = 2
    StreamLimit = 6
    Bodies <- MCBodies
    MaxBytes = 7
    u1 = u1
    u2 = u2
    u3 = u3
    q1 = q1
    q2 = q2
    s1 = s1
    s2 = s2
    Users = {u1, u2, u3}
    NoToken = NoToken
    Margin = 2
    Lifetimes = {2, 4}
    RoundTrip = 2
    MaxSeconds = 5
    Chunks = 2
    MessageTimeout = 1
    MaxMessageTimeout = 2
    LifecycleTimeout = 2
    DeferredClose = 1
    MaxBody = 2
    Overrides = {0, 1, 3}
    Window = 2
    MaxAnswers = 3
    MaxWait = 4
    Docs <- Overlays
    Unreadable = None
    NoRev = None
    Nothing = None
    Requests = {q1, q2}
    SessionKeys = {s1, s2}
    MaxBindings = 1
    BindingTtl = 1
    QueueSize = 1
    MaxEdits = 2
    LastTime = 2
INVARIANTS
    RoutesSound
    RepliesReadWhole
    FailClosed
    WaitsBounded
    TokensFresh
    OverlayFollowed
    AffinitySound
PROPERTIES
    RoutesTurnOver
SYMMETRY Symmetry
CHECK_DEADLOCK FALSE
