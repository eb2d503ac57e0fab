SPECIFICATION FairSpec
CONSTANTS
    Thread = {t1, t2}
    Producer = {p1}
    Main = main
    Period = 1
    MaxCallbacks = 2
    MaxTime = 1
    Draining = TRUE
    NoCallback = NoCallback
INVARIANTS NothingMissed
PROPERTIES ImplementsCallbackQueue SyncReturns ShutdownEnds
CHECK_DEADLOCK FALSE
