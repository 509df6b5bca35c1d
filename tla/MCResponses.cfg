SPECIFICATION MCSpec
CONSTANTS
    t1 = t1
    t2 = t2
    k1 = k1
    k2 = k2
    Rounds <- MCRounds
    MaxIters = 2
    MaxWeb = 1
    MaxMcp = 2
    FileCap = 1
    NoLimit = NoLimit
    Budgets = {1, NoLimit}
    Approvals = {1, 2}
    Resumes = {t1, t2}
    Batches <- MCBatches
    LastEvent = 3
    PageLimit = 2
    None = None
    Calls = {1, 2, 3}
    Sessions = {1, 2, 3}
    Keys = {k1, k2}
    NoKey = NoKey
    Limits = {1, 2}
    MaxParallel = 2
    MAX_TOTAL_IDLE = 1
    MAX_IDLE_AGE = 1
    MaxTime = 2
INVARIANTS
    ApprovalsAsked
    ExecutedOnce
    BudgetRespected
    
    RowsSound
    ConsentSound
    SessionsSound
PROPERTY EveryStepAdvances
SYMMETRY Symmetry
