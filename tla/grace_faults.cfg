SPECIFICATION Spec
CONSTANTS
    None = None
    b1 = b1
    b2 = b2
    Budgets = {b1}
    PodNames = {1}
    Specs <- BrokenEvictions
    Gpus <- OneGpuEach
    UnitsPerMilli = 1
    MaxDuration = 7
    FailurePolicy = "Ignore"
    TicksPerSecond = 2
    StaleReads = FALSE
    PdbVerdicts = {FALSE, TRUE}
    CascadeModes = {}
    MaxTime = 4
    MaxBudgets = 1
    MaxPods = 1
    MaxGeneration = 2
    MaxFaults = 1
    MaxCrashes = 1
    MaxActions = 0
INVARIANTS TypeOK GraceClockFaithful StatusIsLastVerdict GraceOfThisEpisode
PROPERTIES ImplementsQuotaClock
CHECK_DEADLOCK FALSE
