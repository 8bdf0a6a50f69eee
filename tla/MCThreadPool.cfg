CONSTANTS
    Size = 3
    Kinds = {"sq", "mq"}
    ClearModes = {"NEVER", "UPPON_COMPLETION", "AT_NEXT_WORKLOAD"}
    ErrorModes = {"NONE", "IGNORE", "LOG"}
    MaxTasks = 4
    MaxErrors = 1
SPECIFICATION FairSpec
INVARIANTS
    RunOnce
PROPERTIES
    ImplementsWorkPool
    OwnerReleased
