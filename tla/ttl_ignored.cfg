SPECIFICATION ResyncSpec
CONSTANTS
    Specs          <- CanceledSpecs
    SandboxCRD     = FALSE
    ProfileKeys    = {}
    WebhooksFrom   = 0
    Unpullable     = {}
    TaskExits      = {"ok"}
    CollectorExits = {}
    MaxUid         = 1
    MaxTime        = 3
    MaxEdits       = 0
    MaxFaults      = 0
    MaxDrains      = 0
    MetricCap      = 0
    MaxLag         = 1
PROPERTIES
    ExpiryHonoured
\* A task that is gone and never submitted again is a legal end.
CHECK_DEADLOCK FALSE
