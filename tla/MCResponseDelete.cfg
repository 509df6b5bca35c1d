SPECIFICATION RowsSpec
CONSTANTS
    t1 = t1
    Approvals = {1, 2}
    Resumes = {t1}
    Batches <- MCBatches
    LastEvent = 3
    PageLimit = 2
    None = None
INVARIANT DeleteSeesBothOrNeither
CHECK_DEADLOCK FALSE
