SPECIFICATION FairSpec
CONSTANTS
    Worker = {w1, w2}
    Master = m
    nBatchSize = 2
    MaxAdd = 2
    MaxChecks = 4
    MaxRounds = 2
INVARIANTS WaitIsComplete
PROPERTIES WaitReturns WorkersLeave
CHECK_DEADLOCK FALSE
