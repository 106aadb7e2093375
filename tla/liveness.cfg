SPECIFICATION FairSpec
CONSTANTS
    Specs          <- PodSpecs
    SandboxCRD     = FALSE
    ProfileKeys    = {}
    WebhooksFrom   = 0
    Unpullable     = {}
    TaskExits      = {"ok", "err"}
    CollectorExits = {}
    MaxUid         = 1
    MaxTime        = 1
    MaxEdits       = 1
    MaxFaults      = 1
    MaxDrains      = 0
    MetricCap      = 0
    MaxLag         = 1
PROPERTIES
    LifecycleSpec
    DeletionCompletes
    CompletionObserved
    CancelHonoured
\* A task that is gone and never submitted again is a legal end.
CHECK_DEADLOCK FALSE
