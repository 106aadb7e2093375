----------------------------- MODULE OperatorState -----------------------------
(***************************************************************************)
(* The state the operator and the cluster share for one AgentTask name:    *)
(* the API objects, the informers in front of them, the controller's work  *)
(* queue and the locals of the reconcile call in flight.  Everything the   *)
(* operator creates is named after the task, so different tasks share only *)
(* the one worker goroutine, and one name with several incarnations (uids) *)
(* shows every interaction.                                                *)
(***************************************************************************)
EXTENDS AgentTaskValidation, WatchCache

CONSTANTS
    Specs,          \* specs that users submit or edit a task into
    SandboxCRD,     \* is the Sandbox CRD installed
    ProfileKeys,    \* <<profile, backend>> keys of agenttask-runtime-profiles
    WebhooksFrom,   \* when ENABLE_WEBHOOKS is switched on; past MaxTime: never
    Unpullable,     \* containers whose image pull may fail
    TaskExits,      \* ways the task container may end: "ok" (exit 0), "err"
    CollectorExits, \* ways the artifacts-collector container may end
    MaxUid,         \* bound: incarnations of the task name
    MaxTime,        \* bound: clock
    MaxEdits,       \* bound: spec edits by users
    MaxFaults,      \* bound: crashes and failed API calls
    MaxDrains,      \* bound: evictions and deletions of the pod by others
    MetricCap       \* bound: the metrics counter saturates here

ASSUME SpecsAssumption  == Specs \subseteq AgentTaskSpec
ASSUME FlagsAssumption  == SandboxCRD \in BOOLEAN /\ WebhooksFrom \in Nat
ASSUME PodAssumption    == /\ Unpullable \subseteq {"task", "collector"}
                           /\ TaskExits \subseteq {"ok", "err"}
                           /\ CollectorExits \subseteq {"ok", "err"}
ASSUME BoundsAssumption == /\ MaxUid \in Nat /\ MaxTime \in Nat \ {0}
                           /\ MaxEdits \in Nat /\ MaxFaults \in Nat
                           /\ MaxDrains \in Nat /\ MetricCap \in Nat

VARIABLES
    taskLog,    \* versions of the AgentTask
    podLog,     \* versions of the pod <task>-pod
    cmLog,      \* versions of the ConfigMap <task>-code: its owner, 0 if absent
    npLog,      \* versions of the NetworkPolicy <task>-netpol: likewise
    sandbox,    \* owner of the Sandbox <task>-sandbox, 0 if absent (not cached)
    lastUid,    \* uid of the newest incarnation
    made,       \* pods created for that incarnation
    queued,     \* the key is in the work queue, or in it again while processed
    timer,      \* when a RequeueAfter adds the key, NoTime if none is pending
    pc,         \* next API call of the reconcile in flight, "idle" if none
    obj,        \* agentTask, the in-memory object of that reconcile
    fresh,      \* obj carries the stored resourceVersion
    after,      \* what follows obj's status update
    tasksTotal, \* the agenttask_total_tasks counter, over all labels
    now,        \* wall clock, in seconds
    used        \* how much of MaxEdits, MaxFaults and MaxDrains is spent

objectVars  == <<taskLog, podLog, cmLog, npLog, sandbox, lastUid, made>>
controlVars == <<pc, obj, fresh, after>>
vars == <<objectVars, controlVars, queued, timer, tasksTotal, now, used>>

Containers     == {"task", "collector"}
ContainerState == {"waiting", "pullErr", "running", "ok", "err"}
Terminated(s)  == s \in {"ok", "err"}

\* owner is the uid in the controller reference, 0 for no pod at all.  code is
\* the task whose source the code volume holds, 0 until the volume is set up.
Pod ==
    [owner : Nat, phase : {"Pending", "Running", "Succeeded", "Failed"},
     task : ContainerState, collector : ContainerState,
     mounts : {"own", "ref"}, code : Nat, deleting : BOOLEAN]

NewPod(u, m) ==
    [owner |-> u, phase |-> "Pending", task |-> "waiting",
     collector |-> "waiting", mounts |-> m, code |-> 0, deleting |-> FALSE]
NoPod == NewPod(0, "own")

\* The manager that runs now serves the webhook: main registers it unless
\* ENABLE_WEBHOOKS is "false".  It may be switched on over tasks stored without.
webhooksOn == now >= WebhooksFrom

ControlPoints ==
    {"idle", "update", "status", "finalize", "cancelPod", "timeoutPod",
     "ensureCodeConfigMap", "ensureNetworkPolicy", "dispatch", "deletePod"}

Init ==
    /\ taskLog = <<NoTask>> /\ podLog = <<NoPod>>
    /\ cmLog = <<0>> /\ npLog = <<0>> /\ sandbox = 0
    /\ lastUid = 0 /\ made = 0
    /\ queued = FALSE /\ timer = NoTime
    /\ pc = "idle" /\ obj = NoTask /\ fresh = FALSE /\ after = "done"
    /\ tasksTotal = 0 /\ now = 1
    /\ used = [edits |-> 0, faults |-> 0, drains |-> 0]

ObjectTypes ==
    /\ taskLog \in Seq(AgentTask) /\ taskLog # <<>>
    /\ podLog \in Seq(Pod) /\ podLog # <<>>
    /\ cmLog \in Seq(Nat) /\ cmLog # <<>>
    /\ npLog \in Seq(Nat) /\ npLog # <<>>
    /\ sandbox \in Nat /\ lastUid \in Nat /\ made \in Nat

ControlTypes ==
    /\ pc \in ControlPoints /\ obj \in AgentTask /\ fresh \in BOOLEAN
    /\ after \in {"done", "requeue", "deletePod"}

QueueTypes == queued \in BOOLEAN /\ timer \in Nat

MeterTypes ==
    /\ tasksTotal \in Nat /\ now \in Nat
    /\ used \in [edits : Nat, faults : Nat, drains : Nat]

\* The type of every variable: in particular every version of the task that
\* Reconcile stores has a phase and a reason of the API.
TypeOK == ObjectTypes /\ ControlTypes /\ QueueTypes /\ MeterTypes
================================================================================
