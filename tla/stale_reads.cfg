SPECIFICATION Spec
CONSTANTS
    None = None
    b1 = b1
    b2 = b2
    Budgets = {b1}
    PodNames = {1}
    Specs <- NoQuotaEither
    Gpus <- OneGpuEach
    UnitsPerMilli = 1
    MaxDuration = 7
    FailurePolicy = "Fail"
    TicksPerSecond = 1
    StaleReads = TRUE
    PdbVerdicts = {FALSE}
    CascadeModes = {TRUE}
    MaxTime = 4
    MaxBudgets = 1
    MaxPods = 1
    MaxGeneration = 1
    MaxFaults = 0
    MaxCrashes = 0
    MaxActions = 0
INVARIANTS GraceNeverEarly ClockInv OverHasACulprit
PROPERTIES LastEnforcementNeverRegresses
CHECK_DEADLOCK FALSE
