SPECIFICATION Spec
CONSTANTS
    None = None
    UnitsPerMilli = 1
    MaxDuration = 7
    PodNames = {1}
    Containers = 1
    Gpus <- GpusByName
    SlowPulls = TRUE
    StatusesKept = TRUE
    Windows = {0}
    MaxTime = 4
    MaxRestarts = 0
INVARIANTS PullsNotCounted
CHECK_DEADLOCK FALSE
