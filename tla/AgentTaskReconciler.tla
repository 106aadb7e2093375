-------------------------- MODULE AgentTaskReconciler --------------------------
(***************************************************************************)
(* AgentTaskReconciler (internal/controller/agenttask_controller.go) and   *)
(* sandbox.Manager (internal/platform/sandbox/manager.go).                 *)
(*                                                                         *)
(* A Reconcile call is cut at its API writes: its first action takes the   *)
(* key off the queue, reads the caches and runs to the first write; every  *)
(* write is an action of its own, so that users, the kubelet, the garbage  *)
(* collector, a crash or a failed call come between any two of them.       *)
(* Reads are not cut from the write after them: a cache lags by any amount *)
(* anyway.                                                                 *)
(***************************************************************************)
EXTENDS OperatorState

(* ---------------------------- Calls and returns ---------------------------- *)

\* tasksTotal.WithLabelValues(...).Inc(), saturating at MetricCap.
Inc == tasksTotal' = IF tasksTotal < MetricCap THEN tasksTotal + 1 ELSE tasksTotal

\* The worker takes the key and Reconcile reads the task from the cache.
Dequeue == pc = "idle" /\ queued /\ queued' = FALSE

\* Go on holding t; whether a write of it conflicts depends on the cache.
Hold(t, next) ==
    /\ pc' = next /\ obj' = t /\ fresh' = CacheCurrent(taskLog)
    /\ after' = "done"

\* The first write of this call is Status().Update with t.
HoldStatus(t, then) ==
    /\ pc' = "status" /\ obj' = t /\ fresh' = CacheCurrent(taskLog)
    /\ after' = then

Return == pc' = "idle" /\ obj' = NoTask /\ fresh' = FALSE /\ after' = "done"

\* An error, or Result{Requeue: true}: the key is queued again (after a back-off).
ReturnRequeue == Return /\ queued' = TRUE

(* ------------------------- What the handlers compute ----------------------- *)

TimeoutBuffer == 2

\* Mutants: finished tasks are spared; the deadline is checked for Running only.
checkTimeoutActive(t) ==
    /\ t.phase \notin Terminal
    /\ t.spec.timeoutSeconds > 0
    /\ t.startTime # NoTime
    /\ now > t.startTime + t.spec.timeoutSeconds + TimeoutBuffer

checkTimeoutRunning(t) ==
    /\ t.phase = "Running"
    /\ t.spec.timeoutSeconds > 0
    /\ t.startTime # NoTime
    /\ now > t.startTime + t.spec.timeoutSeconds + TimeoutBuffer

checkTimeout(t) ==
    /\ t.spec.timeoutSeconds > 0
    /\ t.startTime # NoTime
    /\ now > t.startTime + t.spec.timeoutSeconds + TimeoutBuffer

\* Mutant: the completion time is forgotten.
updatePhaseFailureNoTime(t, why) ==
    [t EXCEPT !.phase = "Failed", !.reason = why]

updatePhaseFailure(t, why) ==
    [t EXCEPT !.phase = "Failed", !.reason = why, !.completionTime = now]

failureReason(p) ==
    IF Terminated(p.task) THEN "Terminated"
    ELSE IF "pullErr" \in {p.task, p.collector} THEN "ImagePullFailed"
    ELSE "PodFailed"

handlePodFailure(t, p) ==
    [t EXCEPT !.phase = "Failed", !.completionTime = now,
              !.reason = failureReason(p),
              !.exitCode = IF p.task = "err" THEN 1 ELSE @]

handlePodSuccess(t, p) ==
    [t EXCEPT !.phase = "Succeeded", !.completionTime = now,
              !.result = IF Terminated(p.task) THEN p.code ELSE @,
              !.exitCode = IF p.task = "err" THEN 1 ELSE @]

\* Mutant: tasks are run without the finalizer.
noFinalizerNeeded(t) == TRUE

hasFinalizer(t) == t.finalizer

\* Reconcile gets past deletion, finalizer and status initialisation.
Initialized(t) == t.uid # 0 /\ ~t.deleting /\ hasFinalizer(t) /\ t.phase # ""

\* Reconcile reaches the state machine with one of these phases.
InPhase(t, phases) ==
    /\ Initialized(t) /\ ~t.spec.canceled /\ ~checkTimeout(t)
    /\ t.phase \in phases

\* Get(PodRef.Name) finds a pod.  A Sandbox's name names no pod.
podFound(t) == t.podRef = "Pod" /\ Cached(podLog).owner # 0

\* Delete by name, without preconditions: whichever pod is stored under it.
deleteStoredPod ==
    podLog' = IF Stored(podLog).owner = 0 THEN podLog
              ELSE Write(podLog, [Stored(podLog) EXCEPT !.deleting = TRUE])

(* ----------------------- Reconcile up to its first write ------------------- *)

\* NotFound, or deleted and already finalized.
ReconcileGone ==
    LET t == Cached(taskLog) IN
    /\ Dequeue
    /\ t.uid # 0 => t.deleting /\ ~hasFinalizer(t)
    /\ UNCHANGED <<objectVars, controlVars, timer, tasksTotal, now, used>>

AddFinalizer ==
    LET t == Cached(taskLog) IN
    /\ Dequeue
    /\ t.uid # 0 /\ ~t.deleting /\ ~hasFinalizer(t)
    /\ Hold([t EXCEPT !.finalizer = TRUE], "update")
    /\ UNCHANGED <<objectVars, timer, tasksTotal, now, used>>

ReconcileDeleted ==
    LET t == Cached(taskLog) IN
    /\ Dequeue
    /\ t.uid # 0 /\ t.deleting /\ hasFinalizer(t)
    /\ Hold(t, "finalize")
    /\ UNCHANGED <<objectVars, timer, tasksTotal, now, used>>

InitializePhase ==
    LET t == Cached(taskLog) IN
    /\ Dequeue
    /\ t.uid # 0 /\ ~t.deleting /\ hasFinalizer(t) /\ t.phase = ""
    /\ HoldStatus([t EXCEPT !.phase = "Pending", !.startTime = now], "requeue")
    /\ UNCHANGED <<objectVars, timer, tasksTotal, now, used>>

\* Mutants: a succeeded task is canceled; a running one is not.
ignoresCancelFailed == {"Failed", "Canceled"}
ignoresCancelRunning == {"Running", "Succeeded", "Failed", "Canceled"}

\* The phases in which a cancellation request is ignored.
ignoresCancel == {"Succeeded", "Failed", "Canceled"}

IgnoreCancel ==
    LET t == Cached(taskLog) IN
    /\ Dequeue
    /\ Initialized(t) /\ t.spec.canceled /\ t.phase \in ignoresCancel
    /\ UNCHANGED <<objectVars, controlVars, timer, tasksTotal, now, used>>

ReconcileCanceled ==
    LET t == Cached(taskLog) IN
    /\ Dequeue
    /\ Initialized(t) /\ t.spec.canceled /\ t.phase \notin ignoresCancel
    /\ Hold(t, "cancelPod")
    /\ UNCHANGED <<objectVars, timer, tasksTotal, now, used>>

\* Comes before the state machine, so finished tasks take it too.
ReconcileTimeout ==
    LET t == Cached(taskLog) IN
    /\ Dequeue
    /\ Initialized(t) /\ ~t.spec.canceled /\ checkTimeout(t)
    /\ Hold(t, "timeoutPod")
    /\ UNCHANGED <<objectVars, timer, tasksTotal, now, used>>

ReconcilePending ==
    LET t == Cached(taskLog) IN
    /\ Dequeue
    /\ InPhase(t, {"Pending"})
    /\ Hold(t, "ensureCodeConfigMap")
    /\ UNCHANGED <<objectVars, timer, tasksTotal, now, used>>

\* Scheduled, and the pod says nothing new; or Running, likewise.
AwaitPod ==
    LET t == Cached(taskLog)
        p == Cached(podLog) IN
    /\ Dequeue
    /\ \/ /\ InPhase(t, {"Scheduled"}) /\ t.podRef # "Sandbox"
          /\ p.owner # 0 /\ p.phase = "Pending"
          /\ "pullErr" \notin {p.task, p.collector}
       \/ /\ InPhase(t, {"Running"})
          /\ \/ t.podRef = "Sandbox"
             \/ /\ p.owner # 0
                /\ \/ p.phase = "Pending"
                   \/ p.phase = "Running" /\ ~Terminated(p.task)
    /\ UNCHANGED <<objectVars, controlVars, timer, tasksTotal, now, used>>

\* reconcileScheduled: the pod runs.  A Sandbox is taken to run at once.
ScheduledToRunning ==
    LET t == Cached(taskLog) IN
    /\ Dequeue
    /\ InPhase(t, {"Scheduled"})
    /\ \/ t.podRef = "Sandbox"
       \/ Cached(podLog).owner # 0 /\ Cached(podLog).phase = "Running"
    /\ HoldStatus([t EXCEPT !.phase = "Running"], "done")
    /\ UNCHANGED <<objectVars, timer, tasksTotal, now, used>>

\* reconcileScheduled: ImagePullBackOff.  The pod is left as it is.
ScheduledImagePullFailed ==
    LET t == Cached(taskLog)
        p == Cached(podLog) IN
    /\ Dequeue
    /\ InPhase(t, {"Scheduled"}) /\ t.podRef # "Sandbox"
    /\ p.owner # 0 /\ p.phase = "Pending"
    /\ "pullErr" \in {p.task, p.collector}
    /\ HoldStatus(updatePhaseFailure(t, "ImagePullFailed"), "done")
    /\ Inc
    /\ UNCHANGED <<objectVars, timer, now, used>>

PodMissing ==
    LET t == Cached(taskLog) IN
    /\ Dequeue
    /\ InPhase(t, {"Scheduled", "Running"}) /\ t.podRef # "Sandbox"
    /\ Cached(podLog).owner = 0
    /\ HoldStatus(updatePhaseFailure(t, "PodMissing"), "done")
    /\ Inc
    /\ UNCHANGED <<objectVars, timer, now, used>>

\* Mutant: the exit code of the main container is not looked at.
podOutcomeAnyExit(t, p) ==
    IF p.phase \in {"Succeeded", "Failed"} THEN p.phase
    ELSE IF t.phase = "Running" /\ p.phase = "Running" /\ Terminated(p.task)
         THEN "Succeeded"
    ELSE "none"

\* The pod ended or, for a Running task, its main container did while the
\* collector keeps the pod up.
podOutcome(t, p) ==
    IF p.phase \in {"Succeeded", "Failed"} THEN p.phase
    ELSE IF t.phase = "Running" /\ p.phase = "Running" /\ Terminated(p.task)
         THEN IF p.task = "ok" THEN "Succeeded" ELSE "Failed"
    ELSE "none"

\* Mutants: the pod of a succeeded task is kept; it goes before the status.
PodSucceededKept ==
    LET t == Cached(taskLog)
        p == Cached(podLog) IN
    /\ Dequeue
    /\ InPhase(t, {"Scheduled", "Running"}) /\ t.podRef # "Sandbox"
    /\ p.owner # 0 /\ podOutcome(t, p) = "Succeeded"
    /\ HoldStatus(handlePodSuccess(t, p), "done")
    /\ UNCHANGED <<objectVars, timer, tasksTotal, now, used>>

PodSucceededGone ==
    LET t == Cached(taskLog)
        p == Cached(podLog) IN
    /\ Dequeue
    /\ InPhase(t, {"Scheduled", "Running"}) /\ t.podRef # "Sandbox"
    /\ p.owner # 0 /\ podOutcome(t, p) = "Succeeded"
    /\ podLog' = Write(podLog, NoPod)
    /\ HoldStatus(handlePodSuccess(t, p), "done")
    /\ UNCHANGED <<taskLog, cmLog, npLog, sandbox, lastUid, made, timer,
                   tasksTotal, now, used>>

PodSucceeded ==
    LET t == Cached(taskLog)
        p == Cached(podLog) IN
    /\ Dequeue
    /\ InPhase(t, {"Scheduled", "Running"}) /\ t.podRef # "Sandbox"
    /\ p.owner # 0 /\ podOutcome(t, p) = "Succeeded"
    /\ HoldStatus(handlePodSuccess(t, p), "deletePod")
    /\ UNCHANGED <<objectVars, timer, tasksTotal, now, used>>

PodFailed ==
    LET t == Cached(taskLog)
        p == Cached(podLog) IN
    /\ Dequeue
    /\ InPhase(t, {"Scheduled", "Running"}) /\ t.podRef # "Sandbox"
    /\ p.owner # 0 /\ podOutcome(t, p) = "Failed"
    /\ HoldStatus(handlePodFailure(t, p), "deletePod")
    /\ Inc
    /\ UNCHANGED <<objectVars, timer, now, used>>

expirationTime(t) == t.completionTime + t.spec.ttlSecondsAfterFinished

hasTTL(t) == t.spec.ttlSecondsAfterFinished # NoTTL /\ t.completionTime # NoTime

\* Mutant: only successful tasks expire.
expiredSucceeded(t) ==
    t.phase = "Succeeded" /\ hasTTL(t) /\ now > expirationTime(t)

expired(t) == hasTTL(t) /\ now > expirationTime(t)

\* Mutant: no RequeueAfter.
requeueNever(t) == timer

\* RequeueAfter arms the timer only when the remaining time is positive; of two
\* pending times the queue keeps the earlier.
requeueAfter(t) ==
    IF /\ hasTTL(t) /\ expirationTime(t) > now
       /\ timer = NoTime \/ expirationTime(t) < timer
    THEN expirationTime(t) ELSE timer

\* A finished task without a TTL, or with one that is not over.
FinishedWait ==
    LET t == Cached(taskLog) IN
    /\ Dequeue
    /\ InPhase(t, Terminal) /\ ~expired(t)
    /\ timer' = requeueAfter(t)
    /\ UNCHANGED <<objectVars, controlVars, tasksTotal, now, used>>

\* r.Delete by name; a failed call returns its error, which queues the key again.
FinishedExpired ==
    LET t == Cached(taskLog) IN
    /\ Dequeue
    /\ InPhase(t, Terminal) /\ expired(t)
    /\ taskLog' = Write(taskLog, deletedTask(Stored(taskLog)))
    /\ UNCHANGED <<podLog, cmLog, npLog, sandbox, lastUid, made, controlVars,
                   timer, tasksTotal, now, used>>

(* --------------------------- The writes that follow ------------------------ *)

\* Mutant: the resourceVersion is not sent.
upToDateName == Stored(taskLog).uid = obj.uid

\* The API server compares resourceVersions and refuses an older one.
upToDate == fresh

\* r.Update, for the finalizer: the webhook validates it like any update, and
\* a deleted object without finalizers goes away.
UpdateTask ==
    LET accepted ==
            /\ upToDate
            /\ webhooksOn => ValidateUpdate(Stored(taskLog).spec, obj.spec)
    IN
    /\ pc = "update"
    /\ \/ /\ accepted
          /\ taskLog' = Write(taskLog, IF obj.deleting /\ ~obj.finalizer
                                       THEN NoTask ELSE obj)
          /\ Return /\ UNCHANGED queued
       \/ /\ ~accepted
          /\ ReturnRequeue /\ UNCHANGED taskLog
    /\ UNCHANGED <<podLog, cmLog, npLog, sandbox, lastUid, made, timer,
                   tasksTotal, now, used>>

\* r.Status().Update: not validated; a stale resourceVersion is a conflict.
UpdateStatus ==
    /\ pc = "status"
    /\ \/ /\ ~upToDate
          /\ ReturnRequeue /\ UNCHANGED taskLog
       \/ /\ upToDate
          /\ taskLog' = Write(taskLog, obj)
          /\ \/ after = "done" /\ Return /\ UNCHANGED queued
             \/ after = "requeue" /\ ReturnRequeue
             \/ /\ after = "deletePod"
                /\ pc' = "deletePod" /\ after' = "done"
                /\ UNCHANGED <<obj, fresh, queued>>
    /\ UNCHANGED <<podLog, cmLog, npLog, sandbox, lastUid, made, timer,
                   tasksTotal, now, used>>

\* Mutant: the success is not counted.
DeleteFinishedPodUncounted ==
    /\ pc = "deletePod"
    /\ deleteStoredPod
    /\ Return
    /\ UNCHANGED <<taskLog, cmLog, npLog, sandbox, lastUid, made, queued, timer,
                   tasksTotal, now, used>>

\* The end of handlePodSuccess and handlePodFailure: NotFound is ignored, and
\* the last metric is counted here.
DeleteFinishedPod ==
    /\ pc = "deletePod"
    /\ deleteStoredPod
    /\ Return
    /\ Inc
    /\ UNCHANGED <<taskLog, cmLog, npLog, sandbox, lastUid, made, queued, timer,
                   now, used>>

\* Mutant: the finalizer stays on tasks that had a pod.
RemoveFinalizerNoPod(t) == [t EXCEPT !.finalizer = t.podRef # ""]

RemoveFinalizer(t) == [t EXCEPT !.finalizer = FALSE]

\* finalizeAgentTask and RemoveFinalizer.
FinalizeAgentTask ==
    /\ pc = "finalize"
    /\ IF podFound(obj) THEN deleteStoredPod ELSE UNCHANGED podLog
    /\ obj' = RemoveFinalizer(obj)
    /\ pc' = "update"
    /\ UNCHANGED <<taskLog, cmLog, npLog, sandbox, lastUid, made, fresh, after,
                   queued, timer, tasksTotal, now, used>>

\* Mutant: a misspelt phase.
cancelledStatus(t) ==
    [t EXCEPT !.phase = "Cancelled", !.reason = "Canceled", !.completionTime = now]

canceledStatus(t) ==
    [t EXCEPT !.phase = "Canceled", !.reason = "Canceled", !.completionTime = now]

\* reconcileCanceled: the pod goes first, then the status.
CancelPod ==
    /\ pc = "cancelPod"
    /\ IF podFound(obj) THEN deleteStoredPod ELSE UNCHANGED podLog
    /\ obj' = canceledStatus(obj)
    /\ pc' = "status"
    /\ Inc
    /\ UNCHANGED <<taskLog, cmLog, npLog, sandbox, lastUid, made, fresh, after,
                   queued, timer, now, used>>

\* Mutant: the reference to the stopped pod is dropped.
timeoutStatusNoRef(t) ==
    [t EXCEPT !.phase = "Timeout", !.reason = "Timeout", !.completionTime = now,
              !.podRef = ""]

timeoutStatus(t) ==
    [t EXCEPT !.phase = "Timeout", !.reason = "Timeout", !.completionTime = now]

\* reconcileTimeout: unlike the others it returns a NotFound of Delete, and
\* takes any failure of Get for a missing pod.
TimeoutPod ==
    /\ pc = "timeoutPod"
    /\ \/ /\ podFound(obj) /\ Stored(podLog).owner = 0
          /\ ReturnRequeue
          /\ UNCHANGED <<podLog, tasksTotal, used>>
       \/ /\ \/ /\ podFound(obj) /\ Stored(podLog).owner # 0
                /\ deleteStoredPod
                /\ UNCHANGED used
             \/ /\ ~podFound(obj)
                /\ UNCHANGED <<podLog, used>>
             \/ /\ podFound(obj) /\ used.faults < MaxFaults
                /\ used' = [used EXCEPT !.faults = @ + 1]
                /\ UNCHANGED podLog
          /\ obj' = timeoutStatus(obj)
          /\ pc' = "status"
          /\ Inc
          /\ UNCHANGED <<fresh, after, queued>>
    /\ UNCHANGED <<taskLog, cmLog, npLog, sandbox, lastUid, made, timer, now>>

\* Mutant: an empty answer is taken for an object.
missingNever(log) == FALSE

missing(log) == Cached(log) = 0

\* ensureCodeConfigMap and ensureNetworkPolicy: created unless the cache has
\* one of that name, whoever owns it; Create fails if the store has one.
ensureOwned(log) == IF missing(log) THEN Write(log, obj.uid) ELSE log

\* The pod mounts the ConfigMap made from the inline source; a configMapRef
\* takes precedence.
usesSource(s) == s.code = {"source"}

EnsureCodeConfigMap ==
    LET creates == usesSource(obj.spec) /\ missing(cmLog) IN
    /\ pc = "ensureCodeConfigMap"
    /\ \/ /\ creates /\ Stored(cmLog) # 0
          /\ ReturnRequeue /\ UNCHANGED cmLog
       \/ /\ creates => Stored(cmLog) = 0
          /\ cmLog' = IF usesSource(obj.spec) THEN ensureOwned(cmLog) ELSE cmLog
          /\ pc' = "ensureNetworkPolicy"
          /\ UNCHANGED <<obj, fresh, after, queued>>
    /\ UNCHANGED <<taskLog, podLog, npLog, sandbox, lastUid, made, timer,
                   tasksTotal, now, used>>

EnsureNetworkPolicy ==
    /\ pc = "ensureNetworkPolicy"
    /\ \/ /\ missing(npLog) /\ Stored(npLog) # 0
          /\ ReturnRequeue /\ UNCHANGED npLog
       \/ /\ missing(npLog) => Stored(npLog) = 0
          /\ npLog' = ensureOwned(npLog)
          /\ pc' = "dispatch"
          /\ UNCHANGED <<obj, fresh, after, queued>>
    /\ UNCHANGED <<taskLog, podLog, cmLog, sandbox, lastUid, made, timer,
                   tasksTotal, now, used>>

\* selectBackend; "" is its error.
selectBackend(requested, sandboxAvailable) ==
    CASE requested = "sandbox"     -> IF sandboxAvailable THEN "sandbox" ELSE ""
      [] requested \in {"", "auto"} -> IF sandboxAvailable THEN "sandbox" ELSE "pod"
      [] OTHER                     -> "pod"

\* resolveRuntimeProfile finds an image: among the keys of the override
\* ConfigMap, then among the defaults.
resolveRuntimeProfile(profile, backend, keys) ==
    \/ <<profile, backend>> \in keys
    \/ profile \in {"python3.11", "python3.10"}

scheduledStatus(t, kind) == [t EXCEPT !.phase = "Scheduled", !.podRef = kind]

\* The reconcile goes on to its status update, then requeues.
ThenStatus(t) ==
    obj' = t /\ pc' = "status" /\ after' = "requeue" /\ UNCHANGED <<fresh, queued>>

\* EnsureSandbox reads past the cache (unstructured objects are not cached).
EnsureSandbox ==
    /\ sandbox' = IF sandbox = 0 THEN obj.uid ELSE sandbox
    /\ ThenStatus(scheduledStatus(obj, "Sandbox"))
    /\ UNCHANGED <<podLog, made, tasksTotal>>

\* Mutant: a generated name, under which every attempt makes another pod.
EnsurePodGenerated ==
    /\ podLog' = Write(podLog, NewPod(obj.uid, "own"))
    /\ made' = IF obj.uid = lastUid THEN made + 1 ELSE made
    /\ ThenStatus(scheduledStatus(obj, "Pod"))
    /\ UNCHANGED <<sandbox, tasksTotal>>

podNameFree == Stored(podLog).owner = 0

\* ensurePod takes any pod of that name that the cache shows.  The API server
\* refuses a second one, and one whose code volume names no ConfigMap.
EnsurePod ==
    /\ \/ /\ Cached(podLog).owner # 0
          /\ ThenStatus(scheduledStatus(obj, "Pod"))
          /\ UNCHANGED <<podLog, made>>
       \/ /\ Cached(podLog).owner = 0
          /\ podNameFree /\ obj.spec.code # {}
          /\ podLog' = Write(podLog,
                             NewPod(obj.uid, IF usesSource(obj.spec)
                                             THEN "own" ELSE "ref"))
          /\ made' = IF obj.uid = lastUid THEN made + 1 ELSE made
          /\ ThenStatus(scheduledStatus(obj, "Pod"))
       \/ /\ Cached(podLog).owner = 0
          /\ ~podNameFree \/ obj.spec.code = {}
          /\ ReturnRequeue
          /\ UNCHANGED <<podLog, made>>
    /\ UNCHANGED <<sandbox, tasksTotal>>

\* The rest of reconcilePending.  A failed availability check counts as "no",
\* a failed read of the override ConfigMap as an empty one.
Dispatch ==
    /\ pc = "dispatch"
    /\ \E available \in {SandboxCRD, FALSE}, keys \in {ProfileKeys, {}} :
         LET failed  == available # SandboxCRD \/ keys # ProfileKeys
             backend == selectBackend(obj.spec.backend, available)
             why     == IF backend = "" THEN "BackendSelectionFailed"
                        ELSE "ProfileResolutionFailed"
         IN
         /\ failed => used.faults < MaxFaults
         /\ used' = [used EXCEPT !.faults = IF failed THEN @ + 1 ELSE @]
         /\ IF /\ backend # ""
               /\ resolveRuntimeProfile(obj.spec.runtimeProfile, backend, keys)
            THEN IF backend = "sandbox" THEN EnsureSandbox ELSE EnsurePod
            ELSE /\ ThenStatus(updatePhaseFailure(obj, why))
                 /\ Inc
                 /\ UNCHANGED <<podLog, sandbox, made>>
    /\ UNCHANGED <<taskLog, cmLog, npLog, lastUid, timer, now>>

(* ------------------------------ Failures, wake-ups ------------------------- *)

\* The next API call of the reconcile fails; the error requeues the key.
CallFails ==
    /\ pc # "idle"
    /\ used.faults < MaxFaults
    /\ used' = [used EXCEPT !.faults = @ + 1]
    /\ ReturnRequeue
    /\ UNCHANGED <<objectVars, timer, tasksTotal, now>>

\* The manager restarts (or another replica takes over the lease): locals,
\* queue and timers are lost, the informers list everything again.
Crash ==
    /\ used.faults < MaxFaults
    /\ used' = [used EXCEPT !.faults = @ + 1]
    /\ ReturnRequeue
    /\ timer' = NoTime
    /\ taskLog' = Relist(taskLog) /\ podLog' = Relist(podLog)
    /\ cmLog' = Relist(cmLog) /\ npLog' = Relist(npLog)
    /\ tasksTotal' = 0
    /\ UNCHANGED <<sandbox, lastUid, made, now>>

\* An event adds the key to the queue.  A delayed entry of the same key may
\* stay or be merged into this one: work queues of both kinds exist.
Enqueue == queued' = TRUE /\ timer' \in {timer, NoTime}

\* SetupWithManager: events of the AgentTask and of the pods it owns enqueue
\* the key; ConfigMap and NetworkPolicy are read, not watched.
DeliverTask ==
    /\ Lagging(taskLog) /\ taskLog' = Deliver(taskLog)
    /\ Enqueue
    /\ UNCHANGED <<podLog, cmLog, npLog, sandbox, lastUid, made, controlVars,
                   tasksTotal, now, used>>

\* Mutant: the controller does not own pods.
DeliverPodUnwatched ==
    /\ Lagging(podLog) /\ podLog' = Deliver(podLog)
    /\ UNCHANGED <<taskLog, cmLog, npLog, sandbox, lastUid, made, controlVars,
                   queued, timer, tasksTotal, now, used>>

DeliverPod ==
    /\ Lagging(podLog) /\ podLog' = Deliver(podLog)
    /\ Enqueue
    /\ UNCHANGED <<taskLog, cmLog, npLog, sandbox, lastUid, made, controlVars,
                   tasksTotal, now, used>>

DeliverOwned ==
    /\ \/ Lagging(cmLog) /\ cmLog' = Deliver(cmLog) /\ UNCHANGED npLog
       \/ Lagging(npLog) /\ npLog' = Deliver(npLog) /\ UNCHANGED cmLog
    /\ UNCHANGED <<taskLog, podLog, sandbox, lastUid, made, controlVars, queued,
                   timer, tasksTotal, now, used>>

\* The delay was computed up to timer, and the clock has moved on when the
\* worker reads it again.
TimerFires ==
    /\ timer # NoTime /\ now > timer
    /\ timer' = NoTime /\ queued' = TRUE
    /\ UNCHANGED <<objectVars, controlVars, tasksTotal, now, used>>

\* The informer's periodic resync re-delivers the cached task.
Resync ==
    /\ Cached(taskLog).uid # 0 /\ ~queued
    /\ Enqueue
    /\ UNCHANGED <<objectVars, controlVars, tasksTotal, now, used>>

ReconcileStep ==
    \/ ReconcileGone \/ AddFinalizer \/ ReconcileDeleted \/ InitializePhase
    \/ IgnoreCancel \/ ReconcileCanceled \/ ReconcileTimeout \/ ReconcilePending
    \/ AwaitPod \/ ScheduledToRunning \/ ScheduledImagePullFailed \/ PodMissing
    \/ PodSucceeded \/ PodFailed \/ FinishedWait \/ FinishedExpired
    \/ UpdateTask \/ UpdateStatus \/ DeleteFinishedPod \/ FinalizeAgentTask
    \/ CancelPod \/ TimeoutPod \/ EnsureCodeConfigMap \/ EnsureNetworkPolicy
    \/ Dispatch

WakeUp == DeliverTask \/ DeliverPod \/ DeliverOwned \/ TimerFires

Fault == CallFails \/ Crash
================================================================================
