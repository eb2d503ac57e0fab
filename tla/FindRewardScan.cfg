SPECIFICATION Spec
CONSTANTS
    Key <- MCKey
    CursorPos <- MCCursorPos
    Value <- MCValue
    Script <- MCScript
    nPerCentPerYear <- MCPerCent
    Databases <- MCDatabases
    Caches <- MCCaches
    Heights <- MCHeights
    nBlocksPerYear = 60
    nMinReward = 100
    COIN = 100
    nMinBlocks = 2
    nMaxReward = 500
    maxreorgdepth = 2
    NoPay = NoPay
INVARIANTS ScanSelects ScanPurges
CHECK_DEADLOCK FALSE
