CONSTANTS
    MaxCallbacks = 5
    PoolThreads = 2
    HasTimeout = TRUE
SPECIFICATION FairSpec
INVARIANTS
    CallbackOnce
    UnsafeCallbackOrder
    SafeOnlyInsideUpdate
PROPERTIES
    EventuallyRun
