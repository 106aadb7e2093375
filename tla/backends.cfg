SPECIFICATION ResyncSpec
CONSTANTS
    Specs          <- BackendSpecs
    SandboxCRD     = TRUE
    ProfileKeys    <- ProfileOverrides
    WebhooksFrom   = 2
    Unpullable     = {}
    TaskExits      = {"ok"}
    CollectorExits = {}
    MaxUid         = 1
    MaxTime        = 3
    MaxEdits       = 0
    MaxFaults      = 1
    MaxDrains      = 0
    MetricCap      = 0
    MaxLag         = 1
INVARIANTS
    ExpiryArmed
PROPERTIES
    LifecycleSpec
    DeletionCompletes
    ExpiryHonouredInTime
\* A task that is gone and never submitted again is a legal end.
CHECK_DEADLOCK FALSE
