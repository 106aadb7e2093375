SPECIFICATION Spec
CONSTANTS
    Specs          <- PodSpecs
    SandboxCRD     = FALSE
    ProfileKeys    = {}
    WebhooksFrom   = 0
    Unpullable     = {}
    TaskExits      = {}
    CollectorExits = {}
    MaxUid         = 1
    MaxTime        = 1
    MaxEdits       = 2
    MaxFaults      = 0
    MaxDrains      = 0
    MetricCap      = 0
    MaxLag         = 1
INVARIANTS
    CanceledPodStopped
\* A task that is gone and never submitted again is a legal end.
CHECK_DEADLOCK FALSE
