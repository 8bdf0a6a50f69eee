CONSTANTS
    NumTables = 3
    MyISAM = {2}
    Prepared = {2, 5}
    MaxJobs = 2
    MaxLosses = 2
    NoRow = NoRow
SPECIFICATION FairSpec
INVARIANTS
    SuccessIsComplete
    FailureChangesNothing
    NoTransactionLeftOpen
PROPERTIES
    OnlyLocksAreRetried
    TransactionEnds
