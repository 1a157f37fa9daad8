SPECIFICATION LateSpec
CONSTANTS
    None = None
    b1 = b1
    b2 = b2
    Budgets = {b1}
    PodNames = {1}
    Specs <- EvictNow
    Gpus <- OneGpuEach
    UnitsPerMilli = 1
    MaxDuration = 7
    FailurePolicy = "Fail"
    TicksPerSecond = 1
    StaleReads = TRUE
    PdbVerdicts = {FALSE}
    CascadeModes = {}
    MaxTime = 2
    MaxBudgets = 1
    MaxPods = 1
    MaxGeneration = 1
    MaxFaults = 0
    MaxCrashes = 1
    MaxActions = 0
PROPERTIES StatusConverges OverQuotaIsEnforced
CHECK_DEADLOCK FALSE
