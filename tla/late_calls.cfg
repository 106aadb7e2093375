SPECIFICATION LateSpec
CONSTANTS
    Specs          <- AtOnceSpecs
    SandboxCRD     = FALSE
    ProfileKeys    = {}
    WebhooksFrom   = 0
    Unpullable     = {}
    TaskExits      = {"ok"}
    CollectorExits = {}
    MaxUid         = 2
    MaxTime        = 1
    MaxEdits       = 0
    MaxFaults      = 1
    MaxDrains      = 0
    MetricCap      = 0
    MaxLag         = 1
INVARIANTS
    LateHeld
PROPERTIES
    LifecycleSpec
    ExpiryDeletesOwnTask
\* A task that is gone and never submitted again is a legal end.
CHECK_DEADLOCK FALSE
