SPECIFICATION LateSpec
CONSTANTS
    None = None
    b1 = b1
    b2 = b2
    Budgets = {b1}
    PodNames = {1}
    Specs <- EvictSpecs
    Gpus <- OneGpuEach
    UnitsPerMilli = 1
    MaxDuration = 7
    FailurePolicy = "Fail"
    TicksPerSecond = 1
    StaleReads = TRUE
    PdbVerdicts = {FALSE}
    CascadeModes = {FALSE, TRUE}
    MaxTime = 1
    MaxBudgets = 2
    MaxPods = 0
    MaxGeneration = 1
    MaxFaults = 1
    MaxCrashes = 1
    MaxActions = 0
INVARIANTS SeriesNeverOutliveBudget HeldInv
PROPERTIES DeletionCompletes ImplementsLifecycle
CHECK_DEADLOCK FALSE
