SPECIFICATION Spec
CONSTANTS
    Specs          <- PlainSpecs
    SandboxCRD     = FALSE
    ProfileKeys    = {}
    WebhooksFrom   = 0
    Unpullable     = {}
    TaskExits      = {"ok"}
    CollectorExits = {}
    MaxUid         = 1
    MaxTime        = 1
    MaxEdits       = 0
    MaxFaults      = 0
    MaxDrains      = 0
    MetricCap      = 0
    MaxLag         = 1
INVARIANTS
    PodMissingMeansDeleted
\* A task that is gone and never submitted again is a legal end.
CHECK_DEADLOCK FALSE
