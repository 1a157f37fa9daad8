SPECIFICATION Spec
CONSTANTS
    None = None
    b1 = b1
    b2 = b2
    Budgets = {b1}
    PodNames = {1}
    Specs <- EvictSpecs
    Gpus <- OneGpuEach
    UnitsPerMilli = 1
    MaxDuration = 7
    FailurePolicy = "Fail"
    TicksPerSecond = 1
    StaleReads = FALSE
    PdbVerdicts = {FALSE}
    CascadeModes = {}
    MaxTime = 3
    MaxBudgets = 1
    MaxPods = 1
    MaxGeneration = 1
    MaxFaults = 1
    MaxCrashes = 0
    MaxActions = 0
PROPERTIES EnforcementErrorsDegrade
CHECK_DEADLOCK FALSE
