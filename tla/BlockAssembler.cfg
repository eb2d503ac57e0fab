SPECIFICATION Spec
CONSTANTS
    Tx <- MCTx
    Pools <- MCPools
    ReservedSize = 2
    ReservedSigOps = 1
    nMaxGeneratedBlockSize = 8
    nBlockPrioritySize = 4
    Megabyte = 4
    SigOpsPerMb = 3
    FreePriority = 0
    AlmostFull = 2
    Full = 1
    MAX_LAST_TXS = 0
    MAX_CONSECUTIVE_FAILURES = 0
    blockMinFeeRate = 1
    Unsigned64 = 65536
INVARIANTS TemplateValid ModifiedState BestFirst
PROPERTIES Terminates
CHECK_DEADLOCK FALSE
