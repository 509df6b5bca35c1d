SPECIFICATION ExtFairSpec
CONSTANTS
    Chunks = 2
    MessageTimeout = 1
    MaxMessageTimeout = 2
    LifecycleTimeout = 2
    DeferredClose = 1
    MaxBody = 2
    Overrides = {0, 1, 3}
    Window = 2
    MaxAnswers = 1
    MaxWait = 6
PROPERTY SilenceIsRejected
CHECK_DEADLOCK FALSE
