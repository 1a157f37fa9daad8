SPECIFICATION Spec
CONSTANTS
    None = None
    b1 = b1
    b2 = b2
    Budgets = {b1, b2}
    PodNames = {1}
    Specs <- PauseSpecs
    Gpus <- OneGpuEach
    UnitsPerMilli = 1
    MaxDuration = 7
    FailurePolicy = "Fail"
    TicksPerSecond = 1
    StaleReads = FALSE
    PdbVerdicts = {FALSE}
    CascadeModes = {}
    MaxTime = 2
    MaxBudgets = 2
    MaxPods = 1
    MaxGeneration = 1
    MaxFaults = 0
    MaxCrashes = 0
    MaxActions = 0
PROPERTIES PauseKeepsItsAuthor
CHECK_DEADLOCK FALSE
