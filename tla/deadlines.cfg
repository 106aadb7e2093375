SPECIFICATION ResyncSpec
CONSTANTS
    Specs          <- DeadlineSpecs
    SandboxCRD     = TRUE
    ProfileKeys    = {}
    WebhooksFrom   = 0
    Unpullable     = {}
    TaskExits      = {}
    CollectorExits = {}
    MaxUid         = 1
    MaxTime        = 5
    MaxEdits       = 0
    MaxFaults      = 1
    MaxDrains      = 0
    MetricCap      = 0
    MaxLag         = 1
INVARIANTS
    Held
PROPERTIES
    TerminalAbsorbing
    TimedOutPodStopped
    EveryTaskEnds
\* A task that is gone and never submitted again is a legal end.
CHECK_DEADLOCK FALSE
