SPECIFICATION Spec
CONSTANTS
    a = a
    b = b
    c = c
    d = d
    e = e
    NoTx = NoTx
    Tx <- MCTx
    Coin <- MCCoin
    Inputs <- MCInputs
    Outputs <- MCOutputs
    Fee <- MCFee
    Lock <- MCLock
    Rules <- MCRules
    Order <- MCOrder
    UpgradeHeight = 2
    LimitAncestorCount = 3
    LimitDescendantCount = 3
    SizeLimit = 3
    MaxQueued = 3
    Deltas <- MCDeltas
    Unsigned64 = 1024
    StartHeight = 0
    MaxHeight = 2
    MaxDisconnects = 2
    MaxRequests = 1
    MaxFaults = 1
INVARIANTS PackagesExact CountsPositive PoolMinable QueueSound NothingLeftBehind
CHECK_DEADLOCK FALSE
