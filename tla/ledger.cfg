SPECIFICATION Spec
CONSTANTS
    None = None
    UnitsPerMilli = 1
    MaxDuration = 7
    PodNames = {1, 2}
    Containers = 1
    Gpus <- GpusByName
    SlowPulls = FALSE
    StatusesKept = TRUE
    Windows = {0, 1, 2, 3}
    MaxTime = 5
    MaxRestarts = 0
INVARIANTS TypeOK ReportsTheLedger
CHECK_DEADLOCK FALSE
