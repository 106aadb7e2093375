--------------------------- MODULE AgentTaskOperator ---------------------------
(***************************************************************************)
(* The operator in its cluster: the reconciler and its environment, the    *)
(* fairness their schedulers give, and what the two promise together.      *)
(***************************************************************************)
EXTENDS AgentTaskReconciler, ClusterEnvironment, AgentCtl

Next == ReconcileStep \/ WakeUp \/ Resync \/ Fault \/ Environment

Spec == Init /\ [][Next]_vars

(* -------------------------------- Fairness --------------------------------- *)

\* The worker goroutine, the watches, the delaying queue and the clock keep
\* going.  Users, images, containers, nodes and faults owe nobody a step.
Fairness ==
    /\ WF_vars(ReconcileStep)
    /\ WF_vars(DeliverTask) /\ WF_vars(DeliverPod) /\ WF_vars(DeliverOwned)
    /\ WF_vars(TimerFires) /\ WF_vars(Tick)

FairSpec == Spec /\ Fairness

\* With the informers' resync (every ten hours by default) as well.
ResyncSpec == FairSpec /\ WF_vars(Resync)

(* ------------------------------ Vocabulary --------------------------------- *)

task == Stored(taskLog)
pod  == Stored(podLog)

\* The stored pod belongs to the stored task and nobody has asked it to stop (one
\* that is being deleted may run on for its grace period).
OwnPod == task.uid # 0 /\ pod.owner = task.uid /\ ~pod.deleting

\* Nothing is under way that would make the operator look at the task again.
Quiet ==
    /\ pc = "idle" /\ ~queued /\ timer = NoTime
    /\ CacheCurrent(taskLog) /\ CacheCurrent(podLog)

(* ------------------------------- What holds -------------------------------- *)

\* Every version of the task is consistent in itself: a phase is only there
\* once the finalizer and the start time are, a completion time and the
\* matching reason exactly in the terminal phases, a PodRef as soon as the task
\* has left Pending for an active phase.  (The status is assembled in memory by
\* a dozen code paths of Reconcile and stored in one write.)  A timeout has a phase
\* of its own and is never Failed, as in docs/architecture.md:55 (the sample output
\* of `agentctl list` at README.md:104 has it otherwise, and is not what the code
\* does).
Consistent(t) ==
    /\ t.phase # "" => t.finalizer /\ t.startTime # NoTime
    /\ t.phase = "" => t.startTime = NoTime /\ t.reason = ""
    /\ t.phase \in {"", "Pending"} => t.podRef = ""
    /\ t.phase \in {"Scheduled", "Running"} => t.podRef # ""
    /\ t.phase \in Terminal <=> t.completionTime # NoTime
    /\ t.phase \in Terminal => t.completionTime >= t.startTime
    /\ t.phase \in {"Timeout", "Canceled"} => t.reason = t.phase
    /\ t.phase = "Failed" => t.reason \notin {"", "Timeout", "Canceled"}
    /\ t.phase \in Active \cup {"Succeeded"} => t.reason = ""

StatusConsistent == Consistent(task)

\* A finished task never becomes active again, whatever the caches show the
\* reconciler (Reconcile acts on a cached copy; only the conflict check of the
\* status update keeps an old copy from being written back).
TerminalAbsorbing ==
    [][task.phase \in Terminal /\ task'.uid = task.uid
         => task'.phase \in Terminal]_vars

\* At most one pod is created for a task, plus one for each that somebody else
\* evicted or deleted: conflicts, stale caches, failed calls and restarts send Reconcile
\* through ensurePod again and again.
OnePod == made <= 1 + used.drains

\* From its creation until the task object is removed, a task's pod has a
\* NetworkPolicy, also while it is being deleted (ensureNetworkPolicy precedes
\* ensurePod in reconcilePending, on what its own cache shows).  Once the object is
\* gone the garbage collector takes policy and pod in any order, and the pod may run
\* on without a policy.
NetworkIsolated == task.uid # 0 /\ pod.owner = task.uid => Stored(npLog) # 0

\* Succeeded means that this task's own code ran and exited with 0.
SucceededRanCode ==
    task.phase = "Succeeded" => task.result = task.uid /\ task.exitCode = 0

\* TTL cleanup deletes by name, on what the cache shows.  As long as the call is
\* served at once it never hits a later task of the same name: the finalizer keeps
\* the one it read in place.  (A call that outlives its process, LateExpiry, may.)
ExpiryDeletesOwnTask ==
    [][FinishedExpired => task.uid = Cached(taskLog).uid]_vars

\* The stored object goes through the versions TaskLifecycle allows, one at a
\* time; in particular no write of the operator undoes an edit of a user.
Lifecycle == INSTANCE TaskLifecycle WITH task <- task, last <- lastUid
LifecycleSpec == Lifecycle!Spec

\* While the reconcile in flight holds the stored resourceVersion, what it will
\* write is a step of the lifecycle from what is stored.  (Reconcile reads a
\* cached copy; the copy is the stored object if the resourceVersions agree, and
\* every write by somebody else makes them differ.)
Held ==
    fresh =>
      /\ pc # "idle"
      /\ pc = "update" =>
           \/ ~task.deleting /\ task.uid # 0 /\ obj = [task EXCEPT !.finalizer = TRUE]
           \/ /\ task.deleting /\ task.finalizer
              /\ obj = [task EXCEPT !.finalizer = FALSE]
      /\ pc = "status" =>
           /\ Lifecycle!MayAdvance(task, obj)
           /\ Consistent(obj) /\ obj.startTime <= now
      /\ pc \in {"finalize", "cancelPod", "timeoutPod", "ensureCodeConfigMap",
                 "ensureNetworkPolicy", "dispatch"} => obj = task
      /\ pc = "finalize" => task.deleting /\ task.finalizer
      /\ pc \in {"cancelPod", "timeoutPod", "ensureCodeConfigMap",
                 "ensureNetworkPolicy", "dispatch"} => Initialized(task)
      /\ pc = "cancelPod" => task.phase \notin ignoresCancel
      /\ pc \in {"ensureCodeConfigMap", "ensureNetworkPolicy", "dispatch"}
           => task.phase = "Pending"

\* A finished task whose TTL has not run out is never forgotten: if nothing
\* else will wake the operator, the timer will, no later than the expiry.
ExpiryArmed ==
    (/\ pc = "idle" /\ ~queued /\ CacheCurrent(taskLog)
     /\ InPhase(task, Terminal) /\ ~task.deleting
     /\ hasTTL(task) /\ now < expirationTime(task))
    => timer # NoTime /\ timer <= expirationTime(task)

\* The pod of a task that ended with it is asked to stop, unless a crash or a
\* failed call came between the status update and the deletion of the pod:
\* handlePodSuccess and handlePodFailure write the terminal status first, and no
\* later reconcile looks at the pod of a finished task again.
FinishedPodCleared ==
    /\ task.phase = "Succeeded" \/ task.reason \in {"Terminated", "PodFailed"}
    /\ OwnPod
    => pc = "deletePod" \/ used.faults > 0

\* A task that has ended has been counted in agenttask_total_tasks: some paths
\* count before the status update (and again if it is refused and repeated), one
\* only after the deletion of the pod, so that a fault may lose the count.
FinishedCounted ==
    task.phase \in Terminal
    => tasksTotal > 0 \/ pc = "deletePod" \/ used.faults > 0

\* `agentctl logs` prints the output of a Running task's own code for as long as
\* nobody cancels or deletes the task or removes its pod: on every path the
\* operator deletes a pod that ended only after the task has left Running.
LogsOfRunning ==
    /\ task.phase = "Running" /\ task.podRef = "Pod" /\ ~task.deleting
    /\ ~task.spec.canceled /\ used.edits = 0 /\ used.drains = 0
    /\ ~checkTimeout(task)
    => logs(task, pod) = task.uid

(* ----------------------------- What must happen ---------------------------- *)

\* The webhook, should it ever be on, accepts updates that keep this spec.
acceptable(s) == WebhooksFrom > MaxTime \/ validateAgentTask(s)

\* A deleted task goes away: the finalizer is removed however the pod, its
\* cached copy and the task change meanwhile.  (The update that removes it is
\* validated like any other, so that a task which is not valid and was stored
\* before webhooks were switched on would stay.)
DeletionCompletes ==
    \A u \in 1..MaxUid :
      task.uid = u /\ task.deleting /\ acceptable(task.spec) ~> task.uid # u

\* Once the main container of a task's running pod has ended, the task becomes
\* terminal (or is deleted) without waiting for a resync: pod events wake the
\* reconciler up (Owns in SetupWithManager).
CompletionObserved ==
    \A u \in 1..MaxUid :
      /\ task.uid = u /\ pod.owner = u /\ task.podRef = "Pod"
      /\ pod.phase # "Pending" /\ Terminated(pod.task)
      ~> task.uid # u \/ task.deleting \/ task.phase \in Terminal

\* A cancellation request ends the task unless it is withdrawn.
CancelHonoured ==
    \A u \in 1..MaxUid :
      task.uid = u /\ task.spec.canceled
      ~> \/ task.uid # u \/ task.deleting \/ ~task.spec.canceled
         \/ task.phase \in Terminal

\* A finished task goes away once its TTL is over, finalizer included, if Reconcile
\* gets as far as the TTL: it returns earlier for a canceled task and for one past
\* its deadline.  (Like every deletion it takes a spec that the webhook accepts.)
ExpiryHonouredInTime ==
    \A u \in 1..MaxUid :
      /\ task.uid = u /\ task.phase \in Terminal /\ acceptable(task.spec)
      /\ hasTTL(task) /\ expirationTime(task) < MaxTime
      ~> \/ task.uid # u
         \/ task.spec.canceled \/ checkTimeout(task)

\* Every task with a timeout ends: a container that hangs, a sandbox (which is
\* taken to run for ever) and a pod that the API server keeps refusing are all
\* ended by the deadline, at the latest when the resync shows it.
EveryTaskEnds ==
    \A u \in 1..MaxUid :
      /\ task.uid = u /\ task.startTime # NoTime /\ task.spec.timeoutSeconds > 0
      /\ task.startTime + task.spec.timeoutSeconds + TimeoutBuffer < MaxTime
      ~> task.uid # u \/ task.deleting \/ task.phase \in Terminal

\* A timeout stops the recorded pod for good.  (reconcileTimeout takes a failed
\* Get, or a pod that the cache does not show yet, for a missing pod and writes
\* the status; it is a later timeout of the same task that stops the pod.)
TimedOutPodStopped ==
    \A u \in 1..MaxUid :
      /\ task.uid = u /\ task.phase = "Timeout" /\ task.podRef = "Pod" /\ OwnPod
      ~> task.uid # u \/ task.deleting \/ ~OwnPod
================================================================================
