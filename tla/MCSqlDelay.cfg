CONSTANTS
    t1 = t1
    Threads = {t1}
    NumWorkers = 2
    Serials = {0, 1}
    Callbacks = {"none", "follow", "unsafe"}
    MaxStmts = 1
    MaxOps = 2
    NoOp = NoOp
    NoTrans = NoTrans
SPECIFICATION FairSpec
INVARIANTS
    TypeOK
    SerialOrder
    ExecutedOnce
    SerialExclusive
    NothingLostAtStop
PROPERTIES
    ImplementsAsyncDatabase
    EventuallyExecuted
    StopServerReturns
