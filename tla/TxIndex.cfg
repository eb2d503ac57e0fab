SPECIFICATION FairSpec
CONSTANTS
    g = g
    a1 = a1
    b1 = b1
    b2 = b2
    p = p
    r = r
    x = x
    Block <- MCBlock
    Genesis = g
    NoBlock = NoBlock
    Parent <- MCParent
    Branch <- MCBranch
    Height <- MCHeight
    Tx <- MCTx
    Txs <- MCTxs
    NoEntry = NoEntry
    StartTips = {a1}
    MaxEvents = 2
    MaxCrashes = 1
INVARIANTS NoHoles FoundOnBranch AnswersInSync
PROPERTIES GetsInSync
CHECK_DEADLOCK FALSE
