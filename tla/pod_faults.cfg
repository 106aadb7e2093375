SPECIFICATION Spec
CONSTANTS
    Specs          <- PodSpecs
    SandboxCRD     = FALSE
    ProfileKeys    = {}
    WebhooksFrom   = 0
    Unpullable     = {"task", "collector"}
    TaskExits      = {"ok", "err"}
    CollectorExits = {"ok", "err"}
    MaxUid         = 1
    MaxTime        = 1
    MaxEdits       = 0
    MaxFaults      = 1
    MaxDrains      = 1
    MetricCap      = 1
    MaxLag         = 1
INVARIANTS
    TypeOK
    StatusConsistent
    OnePod
    NetworkIsolated
    SucceededRanCode
    FinishedPodCleared
    FinishedCounted
    LogsOfRunning
PROPERTIES
    LifecycleSpec
\* A task that is gone and never submitted again is a legal end.
CHECK_DEADLOCK FALSE
