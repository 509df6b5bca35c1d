SPECIFICATION TbSpec
CONSTANTS
    TbRequests = {r1, r2}
    TbKeys = {k1}
    TbEstimates = {4}
    TbActuals = {1}
    TbCapacity = 4
    RefillRate = 2
    TbTimeout = 1
    TbMaxKeys = 1
    TbMaxActive = 1
    TbMaxTime = 3
INVARIANT NeverOvercredits
CHECK_DEADLOCK FALSE
