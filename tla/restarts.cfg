SPECIFICATION Spec
CONSTANTS
    None = None
    UnitsPerMilli = 1
    MaxDuration = 7
    PodNames = {1}
    Containers = 2
    Gpus <- GpusByName
    SlowPulls = TRUE
    StatusesKept = FALSE
    Windows = {0, 2}
    MaxTime = 5
    MaxRestarts = 1
INVARIANTS NeverUnderReports StartIsEarliest
CHECK_DEADLOCK FALSE
