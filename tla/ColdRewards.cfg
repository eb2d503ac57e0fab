SPECIFICATION Spec
CONSTANTS
    Key <- MCKey
    CursorPos <- MCCursorPos
    Value <- MCValue
    Script <- MCScript
    nPerCentPerYear <- MCPerCent
    TxSets <- MCTxSets
    nBlocksPerYear = 60
    nMinReward = 100
    COIN = 100
    nMinBlocks = 1
    nMinBalance = 1000
    nMaxReward = 500
    maxreorgdepth = 2
    PayCountModulus = 4
    NoPay = NoPay
    MaxHeight = 6
    ReorgDepth = 2
INVARIANTS  PaymentsSpaced NoStarvation
CHECK_DEADLOCK FALSE
